-------------------------- MODULE IdentityProofs --------------------------
(***************************************************************************)
(* Theorems about how the device is known: to the server, by its keys (Keys), *)
(* and to the users who pair it, by its tag and its announcements on the   *)
(* network (Probes).  Each part is proved for every value of its own constants. *)
(***************************************************************************)
EXTENDS Keys, Probes, SequenceTheorems, TLAPS

-----------------------------------------------------------------------------
(* Keys *)

\* From initiate() to the saving of the key nothing good is saved that loadKeyCallback would
\* have returned, so a registration that takes the device's earlier uuid supersedes no other.
NothingSavedYet ==
    pc \in {"initiate", "confirm", "reply", "save"} => ~store.good \/ unread

\* A provisioning that has been offered a uuid has a key pair for it ...
OfferedPair ==
    pc \in {"confirm", "reply", "save"} => new.key \in KeyPairs /\ new.uuid \in SoftUuids

\* ... which the server has taken when confirm() succeeds, and has kept or forgotten since.
TakenPair ==
    pc \in {"reply", "save"} => /\ <<new.uuid, new.key>> \in confirmed
                                /\ registry[new.uuid] \in {NoKey, new.key}

\* The uuid in m_deviceInfo: the configured one at first, the new one when it is confirmed.
UuidInPlace ==
    /\ pc = "resolve" => uuid = IF dev.uuid THEN Given ELSE NoUuid
    /\ pc = "save" => uuid = new.uuid

\* A signer in m_signer goes with the uuid beside it, from the moment it is resolved.
SignerFitsUuid ==
    pc \in {"sign", "post"} /\ signer # NoKey =>
        \/ signer = uuid /\ uuid \in {Given, TpmUuid}
        \/ <<uuid, signer>> \in confirmed

KeysIInv ==
    /\ KeysTypeOK
    /\ SavedKeyConfirmed
    /\ SavedKeyNotSuperseded
    /\ NothingSavedYet
    /\ OfferedPair
    /\ TakenPair
    /\ UuidInPlace
    /\ SignerFitsUuid
    /\ OwnSignature

-----------------------------------------------------------------------------
(* Lemmas *)

\* A record that is good is no empty one.
LEMMA GoodRecord ==
    ASSUME KeysTypeOK, store.good
    PROVE  store \in [uuid: SoftUuids, key: KeyPairs, good: BOOLEAN]
BY DEF KeysTypeOK, Record, NoRecord

LEMMA InitTypeOK == KeysInit => KeysTypeOK
<1> SUFFICES ASSUME KeysInit PROVE KeysTypeOK
    OBVIOUS
<1>1. /\ store \in Record /\ registry \in [SoftUuids -> 0..generated] /\ generated \in 0..MaxKeys
    BY KeysAssumption DEF KeysInit, Record, NoKey
<1>2. resolvers \in BOOLEAN /\ unread \in BOOLEAN
    BY DEF KeysInit
<1>3. signer \in KeyPairs \cup {NoKey, Given, TpmUuid} /\ uuid \in Identities \cup {NoUuid}
    BY DEF KeysInit
<1>4. new \in [key: 0..generated, uuid: SoftUuids \cup {NoUuid}]
    BY DEF KeysInit, Nothing, NoKey
<1>5. tries \in 0..MaxTries /\ faults \in 0..MaxMishaps
    BY KeysAssumption DEF KeysInit
<1> QED
    BY <1>1, <1>2, <1>3, <1>4, <1>5 DEF KeysInit, KeysTypeOK, Stages

\* Types; the key of a confirmed pair is one because it was generated (OfferedPair).
LEMMA KeysTypeStep == KeysTypeOK /\ OfferedPair /\ UuidInPlace /\ [KeysNext]_keysVars => KeysTypeOK'
<1> SUFFICES ASSUME KeysTypeOK, OfferedPair, UuidInPlace, [KeysNext]_keysVars PROVE KeysTypeOK'
    OBVIOUS
<1> USE KeysAssumption DEF KeyPairs, NoKey, Identities, Nothing
<1> Nothing \in [key: 0..generated, uuid: SoftUuids \cup {NoUuid}]
    BY DEF KeysTypeOK
<1> resolvers' \in BOOLEAN /\ unread' \in BOOLEAN
    BY Zenon
    DEF KeysNext, Step, Start, ResolveSigner, ResolveTpm, TryLoadKey, GenerateFails, Initiate, Confirm,
        Confirmed, SaveKey, Sign, Post, ReprovisionSoftKey, Crash, Corrupt, Forget, keysVars, info,
        SoftKeyResolved, SoftKeyFails, Resolved, KeysTypeOK
<1>1. CASE Start
    BY <1>1 DEF Start, Go, KeysTypeOK, Stages
<1>2. CASE ResolveSigner
    BY <1>2 DEF ResolveSigner, Go, Resolved, KeysTypeOK, Stages
<1>3. CASE ResolveTpm
    BY <1>3 DEF ResolveTpm, Go, Resolved, Fault, KeysTypeOK, Stages, info
<1>4. CASE TryLoadKey
    BY <1>4, GoodRecord
    DEF TryLoadKey, SoftKeyResolved, SoftKeyFails, Resolved, TryAgain, NextTry, Fault, KeysTypeOK,
        Stages, info
<1>5. CASE GenerateFails
    BY <1>5 DEF GenerateFails, SoftKeyFails, Resolved, KeysTypeOK, Stages
<1>6. CASE Initiate
    BY <1>6 DEF Initiate, SoftKeyFails, Resolved, Fault, KeysTypeOK, Stages, info
<1>7. CASE Confirm
    BY <1>7 DEF Confirm, SoftKeyFails, Resolved, Fault, KeysTypeOK, Stages, info, OfferedPair
<1>8. CASE Confirmed
    BY <1>8 DEF Confirmed, Go, SoftKeyFails, Resolved, Fault, KeysTypeOK, Stages, OfferedPair
<1>9. CASE SaveKey
  <2>1. new.key \in KeyPairs /\ new.uuid \in SoftUuids
      BY <1>9 DEF SaveKey, OfferedPair
  <2>2. [uuid |-> new.uuid, key |-> new.key, good |-> TRUE] \in Record
      BY <2>1 DEF Record
  <2>3. store' \in Record
      BY <1>9, <2>2, Zenon DEF SaveKey, KeysTypeOK
  <2> QED
      BY <1>9, <2>1, <2>3
      DEF SaveKey, SoftKeyResolved, Resolved, TryAgain, NextTry, Fault, KeysTypeOK, Stages, OfferedPair
<1>10. CASE Sign
    BY <1>10 DEF Sign, Go, Fault, KeysTypeOK, Stages, info
<1>11. CASE Post
    BY <1>11 DEF Post, TryAgain, NextTry, Fault, KeysTypeOK, Stages, info
<1>12. CASE ReprovisionSoftKey
    BY <1>12 DEF ReprovisionSoftKey, Fault, KeysTypeOK, Stages, Record, info
<1>13. CASE Crash
    BY <1>13 DEF Crash, Fault, KeysTypeOK, Stages
<1>14. CASE Corrupt
  <2>1. store' \in Record
      BY <1>14, GoodRecord DEF Corrupt, Record
  <2> QED
      BY <1>14, <2>1 DEF Corrupt, Fault, KeysTypeOK, info
<1>15. CASE Forget
    BY <1>15 DEF Forget, Fault, KeysTypeOK, info
<1>16. CASE UNCHANGED keysVars
    BY <1>16 DEF keysVars, info, KeysTypeOK
<1> QED
    BY <1>1, <1>2, <1>3, <1>4, <1>5, <1>6, <1>7, <1>8, <1>9, <1>10, <1>11, <1>12, <1>13, <1>14,
       <1>15, <1>16
    DEF KeysNext, Step

\* The invariants about the saved key and the signer, one action after the other.
LEMMA IInvStep == KeysIInv /\ [KeysNext]_keysVars => KeysIInv'
<1> SUFFICES ASSUME KeysIInv, [KeysNext]_keysVars PROVE KeysIInv'
    OBVIOUS
<1> DEFINE Rest == /\ SavedKeyConfirmed /\ SavedKeyNotSuperseded /\ NothingSavedYet
                   /\ OfferedPair /\ TakenPair /\ UuidInPlace /\ SignerFitsUuid /\ OwnSignature
<1>t. KeysTypeOK /\ KeysTypeOK'
    BY KeysTypeStep DEF KeysIInv
<1> SUFFICES Rest'
    BY <1>t DEF KeysIInv
<1> USE KeysAssumption, <1>t
    DEF SavedKeyConfirmed, SavedKeyNotSuperseded, NothingSavedYet, OfferedPair, TakenPair,
        UuidInPlace, SignerFitsUuid, OwnSignature, Registered, NoKey, KeyPairs
<1>1. CASE Start
    BY <1>1 DEF Start, Go, KeysIInv
<1>2. CASE ResolveSigner
    BY <1>2 DEF ResolveSigner, Go, Resolved, KeysIInv
<1>3. CASE ResolveTpm
    BY <1>3 DEF ResolveTpm, Go, Resolved, KeysIInv, info
<1>4. CASE TryLoadKey
    BY <1>4, GoodRecord DEF TryLoadKey, SoftKeyResolved, SoftKeyFails, Resolved, KeysIInv, info
<1>5. CASE GenerateFails
    BY <1>5 DEF GenerateFails, SoftKeyFails, Resolved, KeysIInv
<1>6. CASE Initiate
    BY <1>6 DEF Initiate, SoftKeyFails, Resolved, KeysIInv, KeysTypeOK, info
<1>7. CASE Confirm
    BY <1>7 DEF Confirm, SoftKeyFails, Resolved, KeysIInv, KeysTypeOK, info
<1>8. CASE Confirmed
    BY <1>8 DEF Confirmed, Go, SoftKeyFails, Resolved, KeysIInv, KeysTypeOK
<1>9. CASE SaveKey
    BY <1>9 DEF SaveKey, SoftKeyResolved, Resolved, KeysIInv, KeysTypeOK
<1>10. CASE Sign
    BY <1>10 DEF Sign, Go, KeysIInv, info
<1>11. CASE Post
    BY <1>11 DEF Post, KeysIInv, info
<1>12. CASE ReprovisionSoftKey
    BY <1>12 DEF ReprovisionSoftKey, KeysIInv, NoRecord, info
<1>13. CASE Crash
    BY <1>13 DEF Crash, KeysIInv
<1>14. CASE Corrupt
    BY <1>14 DEF Corrupt, KeysIInv, info, KeysTypeOK, Record, NoRecord
<1>15. CASE Forget
    BY <1>15 DEF Forget, KeysIInv, KeysTypeOK, info
<1>16. CASE UNCHANGED keysVars
    BY <1>16 DEF keysVars, info, KeysIInv
<1> QED
    BY <1>1, <1>2, <1>3, <1>4, <1>5, <1>6, <1>7, <1>8, <1>9, <1>10, <1>11, <1>12, <1>13, <1>14,
       <1>15, <1>16
    DEF KeysNext, Step

LEMMA KeysInitIInv == KeysInit => KeysIInv
BY InitTypeOK
DEF KeysInit, KeysIInv, SavedKeyConfirmed, SavedKeyNotSuperseded, NothingSavedYet, OfferedPair,
    TakenPair, UuidInPlace, SignerFitsUuid, OwnSignature, NoRecord

LEMMA KeysInvariance == KeysSpec => []KeysIInv
BY KeysInitIInv, IInvStep, PTL DEF KeysSpec

-----------------------------------------------------------------------------
(* Theorems *)

\* A key that is saved as good was registered with the server before it was saved
\* (provisionNewKey), through crashes, lost replies and failing callbacks.
THEOREM OnlyConfirmedKeysSaved == KeysSpec => []SavedKeyConfirmed
<1>1. KeysIInv => SavedKeyConfirmed
    BY DEF KeysIInv
<1> QED
    BY <1>1, KeysInvariance, PTL

\* A device does not lock itself out: no registration of its own replaces the one of a good
\* key that it has saved (tryLoadKey before provisionNewKey, clear before a new one), through
\* crashes, lost replies and failing saves, as long as loadKeyCallback returns what is saved.
THEOREM NeverLockedOut == KeysSpec => []SavedKeyNotSuperseded
<1>1. KeysIInv => SavedKeyNotSuperseded
    BY DEF KeysIInv
<1> QED
    BY <1>1, KeysInvariance, PTL

\* Every token is asked for with the key of the identity in the request (resolveKeys,
\* reprovisionSoftKey), whichever resolver failed before.
THEOREM SignsAsItself == KeysSpec => []OwnSignature
<1>1. KeysIInv => OwnSignature
    BY DEF KeysIInv
<1> QED
    BY <1>1, KeysInvariance, PTL

-----------------------------------------------------------------------------
(* Tags and announcements *)

(* Payloads: what ListenerThreadProc writes and Discover reads back. *)

\* buf begins with b.
Begins(buf, b) == Len(b) <= Len(buf) /\ \A i \in 1..Len(b) : buf[i] = b[i]

\* buf holds s from the position after p bytes on.
Holds(buf, p, s) == p + Len(s) <= Len(buf) /\ \A i \in 1..Len(s) : buf[p + i] = s[i]

\* The string of which AppendZ has room for n bytes.
Cut(s, n) == SubSeq(s, 1, n)

Room(p, s) == IF Len(s) > PayloadSize - p - 1 THEN PayloadSize - p - 1 ELSE Len(s)

LEMMA CutString ==
    ASSUME NEW s \in Strings, NEW n \in 0..Len(s)
    PROVE  /\ Cut(s, n) \in Strings /\ Len(Cut(s, n)) = n
           /\ IsPrefix(Cut(s, n), s)
           /\ n = Len(s) => Cut(s, n) = s
<1>1. s \in Seq(Nat \ {0})
    BY DEF Strings
<1>2. Cut(s, n) \in Seq(Nat \ {0}) /\ Len(Cut(s, n)) = n
    BY <1>1 DEF Cut
<1>3. \A i \in 1..n : Cut(s, n)[i] = s[i]
    BY <1>1 DEF Cut
<1>4. IsPrefix(Cut(s, n), s)
  <2>1. SubSeq(Cut(s, n), 1, n) = SubSeq(s, 1, n)
    <3>1. SubSeq(Cut(s, n), 1, n) = Cut(s, n)
        BY <1>2
    <3> QED BY <3>1 DEF Cut
  <2> QED BY <1>2, <2>1 DEF IsPrefix
<1>5. n = Len(s) => Cut(s, n) = s
    BY <1>1 DEF Cut
<1> QED BY <1>2, <1>4, <1>5 DEF Strings

\* AppendZ writes what there is room for, and the terminator.
LEMMA AppendZEffect ==
    ASSUME NEW b \in Seq(Nat), Len(b) <= PayloadSize, NEW s \in Strings
    PROVE  LET z == AppendZ(b, s)
               n == Room(Len(b), s)
           IN  /\ z \in Seq(Nat) /\ Len(z) <= PayloadSize /\ Begins(z, b)
               /\ Len(b) = PayloadSize => z = b
               /\ Len(b) < PayloadSize => /\ n \in 0..Len(s)
                                          /\ Len(z) = Len(b) + n + 1
                                          /\ Holds(z, Len(b), Cut(s, n))
                                          /\ z[Len(b) + n + 1] = 0
<1> DEFINE n == Room(Len(b), s)
           z == (b \o Cut(s, n)) \o <<0>>
<1>1. s \in Seq(Nat \ {0}) /\ PayloadSize \in Nat
    BY ProbesAssumption DEF Strings
<1>2. CASE Len(b) = PayloadSize
  <2>1. AppendZ(b, s) = b
      BY <1>1, <1>2 DEF AppendZ
  <2> QED BY <1>2, <2>1 DEF Begins
<1>3. CASE Len(b) < PayloadSize
  <2>1. n \in 0..Len(s)
      BY <1>1, <1>3 DEF Room
  <2>2. AppendZ(b, s) = z
    <3>1. (IF Len(s) > (PayloadSize - Len(b)) - 1 THEN (PayloadSize - Len(b)) - 1 ELSE Len(s)) = n
        BY DEF Room
    <3> HIDE DEF n
    <3>2. ~(PayloadSize - Len(b) <= 0)
        BY <1>1, <1>3
    <3>3. AppendZ(b, s) = b \o Cut(s, n) \o <<0>>
        BY <3>1, <3>2 DEF AppendZ, Cut
    <3> QED BY <3>3
  <2>3. n <= PayloadSize - Len(b) - 1
      BY <1>1, <1>3 DEF Room
  <2> HIDE DEF n
  <2>4. Cut(s, n) \in Seq(Nat) /\ Len(Cut(s, n)) = n
    <3>1. Cut(s, n) \in Strings /\ Len(Cut(s, n)) = n
        BY <2>1, CutString
    <3> QED BY <3>1 DEF Strings
  <2>5. b \o Cut(s, n) \in Seq(Nat) /\ Len(b \o Cut(s, n)) = Len(b) + n
      BY <2>4
  <2>6. z \in Seq(Nat) /\ Len(z) = Len(b) + n + 1
      BY <2>5
  <2>7. \A i \in 1..Len(b) : z[i] = b[i]
      BY <2>1, <2>4, <2>5
  <2>8. \A i \in 1..n : z[Len(b) + i] = Cut(s, n)[i]
      BY <2>1, <2>4, <2>5
  <2>9. z[Len(b) + n + 1] = 0
    <3>1. \A c \in Seq(Nat) : (c \o <<0>>)[Len(c) + 1] = 0
        OBVIOUS
    <3> QED BY <2>5, <3>1
  <2> HIDE DEF z
  <2>10. Begins(z, b) /\ Holds(z, Len(b), Cut(s, n))
      BY <2>1, <2>4, <2>6, <2>7, <2>8 DEF Begins, Holds
  <2>11. Len(z) <= PayloadSize
      BY <1>1, <2>1, <2>3, <2>6
  <2> QED
      BY <1>3, <2>1, <2>2, <2>6, <2>9, <2>10, <2>11 DEF n
<1> QED
    BY <1>1, <1>2, <1>3

\* The serial number, or the end of the payload.
LEMMA AppendSerialEffect ==
    ASSUME NEW b \in Seq(Nat), Len(b) <= PayloadSize
    PROVE  LET z == AppendSerial(b)
           IN  /\ z \in Seq(Nat) /\ Len(z) <= PayloadSize /\ Begins(z, b)
               /\ Len(b) + Len(Serial) <= PayloadSize =>
                      Len(z) = Len(b) + Len(Serial) /\ Holds(z, Len(b), Serial)
               /\ Len(b) + Len(Serial) > PayloadSize => Len(z) = PayloadSize
<1>1. Serial \in Seq(Nat) /\ PayloadSize \in Nat
    BY ProbesAssumption
<1>2. CASE Len(b) + Len(Serial) <= PayloadSize
  <2>1. AppendSerial(b) = b \o Serial
      BY <1>2 DEF AppendSerial
  <2>2. b \o Serial \in Seq(Nat) /\ Len(b \o Serial) = Len(b) + Len(Serial)
      BY <1>1
  <2>3. Begins(b \o Serial, b) /\ Holds(b \o Serial, Len(b), Serial)
      BY <1>1, <2>2 DEF Begins, Holds
  <2> QED BY <1>1, <1>2, <2>1, <2>2, <2>3
<1>3. CASE Len(b) + Len(Serial) > PayloadSize
  <2> DEFINE pad == [i \in 1..(PayloadSize - Len(b)) |-> 0]
  <2>1. pad \in Seq(Nat) /\ Len(pad) = PayloadSize - Len(b)
      BY <1>1
  <2>2. AppendSerial(b) = b \o pad
      BY <1>1, <1>3 DEF AppendSerial
  <2> HIDE DEF pad
  <2>3. b \o pad \in Seq(Nat) /\ Len(b \o pad) = PayloadSize
      BY <1>1, <2>1
  <2>4. Begins(b \o pad, b)
      BY <1>1, <2>1, <2>3 DEF Begins
  <2> QED BY <1>1, <1>3, <2>2, <2>3, <2>4
<1> QED
    BY <1>1, <1>2, <1>3

LEMMA BeginsTransitive ==
    ASSUME NEW a \in Seq(Nat), NEW b \in Seq(Nat), NEW c \in Seq(Nat), Begins(c, b), Begins(b, a)
    PROVE  Begins(c, a)
BY DEF Begins

\* What is appended later does not touch what is there.
LEMMA HeldBefore ==
    ASSUME NEW b \in Seq(Nat), NEW c \in Seq(Nat), NEW s \in Seq(Nat), NEW p \in Nat,
           Begins(c, b), Holds(b, p, s)
    PROVE  Holds(c, p, s) /\ \A q \in 1..Len(b) : c[q] = b[q]
<1>1. p + Len(s) <= Len(b) /\ Len(b) <= Len(c)
    BY DEF Begins, Holds
<1>2. \A q \in 1..Len(b) : c[q] = b[q]
    BY DEF Begins
<1>3. ASSUME NEW i \in 1..Len(s)
      PROVE  p + i \in 1..Len(b) /\ b[p + i] = s[i]
  <2>1. b[p + i] = s[i]
      BY DEF Holds
  <2>2. Len(s) \in Nat /\ Len(b) \in Nat
      OBVIOUS
  <2>3. p + i \in 1..Len(b)
      BY <1>1, <2>2
  <2> QED BY <2>1, <2>3
<1>4. ASSUME NEW i \in 1..Len(s)
      PROVE  c[p + i] = s[i]
  <2>1. PICK q : q = p + i
      OBVIOUS
  <2>2. q \in 1..Len(b) /\ b[q] = s[i]
      BY <1>3, <2>1
  <2> QED BY <1>2, <2>1, <2>2
<1>5. p + Len(s) <= Len(c)
    BY <1>1
<1> QED BY <1>2, <1>4, <1>5 DEF Holds

\* ReadNextZ finds a string that AppendZ has written ...
LEMMA ReadWritten ==
    ASSUME NEW buf \in Seq(Nat), NEW p \in Nat, NEW s \in Strings, Holds(buf, p, s),
           p + Len(s) + 1 <= Len(buf), buf[p + Len(s) + 1] = 0
    PROVE  ReadNextZ(buf, p) = <<s, p + Len(s) + 1>>
<1> DEFINE zeros == {i \in (p + 1)..Len(buf) : buf[i] = 0}
           end == p + Len(s) + 1
<1>1. s \in Seq(Nat \ {0})
    BY DEF Strings
<1>2. end \in zeros
    BY <1>1
<1>3. \A i \in zeros : end <= i
  <2> SUFFICES ASSUME NEW i \in zeros, i < end PROVE FALSE
      BY <1>1
  <2>1. i - p \in 1..Len(s)
      BY <1>1
  <2>2. s[i - p] # 0
      BY <1>1, <2>1
  <2>3. buf[p + (i - p)] = s[i - p]
      BY <2>1 DEF Holds
  <2>4. p + (i - p) = i
      OBVIOUS
  <2> QED BY <2>2, <2>3, <2>4
<1>4. (CHOOSE i \in zeros : \A j \in zeros : i <= j) = end
  <2>1. \A i \in zeros : (\A j \in zeros : i <= j) => i = end
    <3> SUFFICES ASSUME NEW i \in zeros, \A j \in zeros : i <= j PROVE i = end
        OBVIOUS
    <3>1. i <= end /\ end <= i
        BY <1>2, <1>3
    <3> QED BY <1>1, <3>1
  <2>2. \E i \in zeros : \A j \in zeros : i <= j
      BY <1>2, <1>3
  <2> QED BY <2>1, <2>2
<1>5. SubSeq(buf, p + 1, end - 1) = s
  <2>1. SubSeq(buf, p + 1, p + Len(s)) \in Seq(Nat) /\ Len(SubSeq(buf, p + 1, p + Len(s))) = Len(s)
      BY <1>1
  <2>2. \A i \in 1..Len(s) : SubSeq(buf, p + 1, p + Len(s))[i] = s[i]
    <3> SUFFICES ASSUME NEW i \in 1..Len(s) PROVE SubSeq(buf, p + 1, p + Len(s))[i] = s[i]
        OBVIOUS
    <3>1. SubSeq(buf, p + 1, p + Len(s))[i] = buf[p + i]
        BY <1>1
    <3> QED BY <3>1 DEF Holds
  <2>3. end - 1 = p + Len(s)
      BY <1>1
  <2>4. s \in Seq(Nat)
      BY <1>1
  <2>5. SubSeq(buf, p + 1, p + Len(s)) = s
      BY <2>1, <2>2, <2>4, SeqEqual
  <2> QED BY <2>3, <2>5
<1>6. ~(p >= Len(buf) \/ zeros = {})
    BY SMTT(20), <1>1, <1>2
<1>7. ReadNextZ(buf, p) = <<SubSeq(buf, p + 1, end - 1), end>>
  <2> HIDE DEF end
  <2> QED BY <1>4, <1>6 DEF ReadNextZ
<1> QED
    BY <1>5, <1>7

\* ... and nothing behind the end.
LEMMA ReadEnd ==
    ASSUME NEW buf, NEW p, p >= Len(buf)
    PROVE  ReadNextZ(buf, p) = <<<<>>, p>>
BY DEF ReadNextZ

LEMMA ReadBack ==
    ASSUME NEW b \in Seq(Nat), Len(b) < PayloadSize, NEW s \in Strings,
           NEW buf \in Seq(Nat), Begins(buf, AppendZ(b, s))
    PROVE  ReadNextZ(buf, Len(b)) = <<Cut(s, Room(Len(b), s)), Len(AppendZ(b, s))>>
<1>1. PICK n : n = Room(Len(b), s)
    OBVIOUS
<1>2. PICK z : z = AppendZ(b, s)
    OBVIOUS
<1>3. /\ z \in Seq(Nat) /\ n \in 0..Len(s) /\ Len(z) = Len(b) + n + 1
      /\ Holds(z, Len(b), Cut(s, n)) /\ z[Len(b) + n + 1] = 0
  <2>1. PayloadSize \in Nat /\ Len(b) \in Nat
      BY ProbesAssumption
  <2>2. Len(b) <= PayloadSize
      BY <2>1
  <2> QED BY <1>1, <1>2, <2>2, AppendZEffect
<1>4. PICK c : c = Cut(s, n)
    OBVIOUS
<1>5. c \in Strings /\ Len(c) = n /\ c \in Seq(Nat)
    BY <1>3, <1>4, CutString DEF Strings
<1>6. Holds(buf, Len(b), c) /\ buf[Len(b) + n + 1] = 0
  <2>1. Len(b) + n + 1 \in 1..Len(z)
      BY <1>3
  <2>2. Begins(buf, z) /\ Holds(z, Len(b), c)
      BY <1>2, <1>3, <1>4
  <2>3. z \in Seq(Nat) /\ Len(b) \in Nat
      BY <1>3
  <2>4. Holds(buf, Len(b), c) /\ \A q \in 1..Len(z) : buf[q] = z[q]
      BY <1>5, <2>2, <2>3, HeldBefore
  <2> QED BY <1>3, <2>1, <2>4
<1>7. Len(b) + n + 1 <= Len(buf)
    BY <1>2, <1>3 DEF Begins
<1> QED
    BY SMTT(20), <1>1, <1>2, <1>3, <1>4, <1>5, <1>6, <1>7, ReadWritten

LEMMA EmptyIsPrefix ==
    ASSUME NEW s \in Strings
    PROVE  IsPrefix(<<>>, s)
<1>1. Cut(s, 0) = <<>>
    BY CutString DEF Strings
<1> QED BY <1>1, CutString DEF Strings

\* The n bytes after the first p.
LEMMA Middle ==
    ASSUME NEW b \in Seq(Nat), NEW p \in Nat, NEW n \in Nat, p + n <= Len(b)
    PROVE  /\ SubSeq(b, p + 1, p + n) \in Seq(Nat)
           /\ Len(SubSeq(b, p + 1, p + n)) = n
           /\ \A i \in 1..n : SubSeq(b, p + 1, p + n)[i] = b[p + i]
<1>1. PICK q : q = p + 1
    OBVIOUS
<1>2. PICK r : r = p + n
    OBVIOUS
<1>3. q \in Nat \ {0} /\ r \in Nat /\ r <= Len(b) /\ r - q + 1 = n /\ \A i \in 1..n : q + i - 1 = p + i
    BY <1>1, <1>2
<1>4. SubSeq(b, q, r) \in Seq(Nat) /\ Len(SubSeq(b, q, r)) = n
    BY <1>3
<1>5. \A i \in 1..n : SubSeq(b, q, r)[i] = b[q + i - 1]
    BY SMTT(20), <1>3
<1> QED BY <1>1, <1>2, <1>3, <1>4, <1>5

\* The description survives the way through the payload, as far as there is room.
LEMMA DecodeEncode ==
    ASSUME NEW key \in DOMAIN Titles
    PROVE  Encode(key) \in Seq(Nat) /\ ReadsAs(Decode(Encode(key)), key)
<1> DEFINE t == Titles[key]
           LS == Len(Serial)
           LP == Len(Provider)
<1>1. /\ t \in Strings /\ Provider \in Strings /\ Serial \in Seq(Nat) /\ PayloadSize \in Nat
      /\ Len(t) \in Nat /\ LP \in Nat /\ LS \in Nat
    BY ProbesAssumption DEF Strings
<1>2. PICK b0 : b0 = <<>>
    OBVIOUS
<1>3. PICK b1 : b1 = AppendZ(b0, t)
    OBVIOUS
<1>4. PICK b2 : b2 = AppendZ(b1, Provider)
    OBVIOUS
<1>5. PICK b3 : b3 = AppendSerial(b2)
    OBVIOUS
<1>6. PICK b4 : b4 = AppendZ(b3, Provider)
    OBVIOUS
<1>7. Encode(key) = b4
    BY <1>2, <1>3, <1>4, <1>5, <1>6 DEF Encode
<1> HIDE DEF t, LP, LS
<1>8. b0 \in Seq(Nat) /\ Len(b0) = 0 /\ Len(b0) <= PayloadSize
    BY <1>1, <1>2
<1>9. /\ b1 \in Seq(Nat) /\ Len(b1) <= PayloadSize
      /\ PayloadSize = 0 => b1 = b0
      /\ PayloadSize > 0 => /\ Room(0, t) \in 0..Len(t) /\ Len(b1) = Room(0, t) + 1
  <2>1. PICK n : n = Room(Len(b0), t)
      OBVIOUS
  <2>2. /\ b1 \in Seq(Nat) /\ Len(b1) <= PayloadSize
        /\ Len(b0) = PayloadSize => b1 = b0
        /\ Len(b0) < PayloadSize => n \in 0..Len(t) /\ Len(b1) = Len(b0) + n + 1
      BY <1>1, <1>3, <1>8, <2>1, AppendZEffect
  <2>3. n = Room(0, t)
      BY <1>8, <2>1
  <2> HIDE <2>1
  <2> QED BY <1>1, <1>8, <2>2, <2>3
<1>10. /\ b2 \in Seq(Nat) /\ Len(b2) <= PayloadSize /\ Begins(b2, b1)
       /\ Len(b1) = PayloadSize => b2 = b1
       /\ Len(b1) < PayloadSize => /\ Room(Len(b1), Provider) \in 0..LP
                                   /\ Len(b2) = Len(b1) + Room(Len(b1), Provider) + 1
    BY <1>1, <1>4, <1>9, AppendZEffect DEF LP
<1>11. /\ b3 \in Seq(Nat) /\ Len(b3) <= PayloadSize /\ Begins(b3, b2)
       /\ Len(b2) + LS <= PayloadSize => Len(b3) = Len(b2) + LS /\ Holds(b3, Len(b2), Serial)
       /\ Len(b2) + LS > PayloadSize => Len(b3) = PayloadSize
    BY <1>1, <1>5, <1>10, AppendSerialEffect DEF LS
<1>12. /\ b4 \in Seq(Nat) /\ Len(b4) <= PayloadSize /\ Begins(b4, b3)
       /\ Len(b3) = PayloadSize => b4 = b3
       /\ Len(b3) < PayloadSize => /\ Room(Len(b3), Provider) \in 0..LP
                                   /\ Len(b4) = Len(b3) + Room(Len(b3), Provider) + 1
    BY <1>1, <1>6, <1>11, AppendZEffect DEF LP
<1>13. Begins(b4, b1) /\ Begins(b4, b2) /\ Begins(b4, b4)
  <2>1. Begins(b4, b2)
      BY <1>10, <1>11, <1>12, BeginsTransitive
  <2>2. Begins(b4, b1)
      BY <1>9, <1>10, <1>12, <2>1, BeginsTransitive
  <2> QED BY <1>12, <2>1, <2>2 DEF Begins
<1> DEFINE full == Len(t) + 2 * LP + LS + 3
<1>14. PICK game : game = ReadNextZ(b4, 0)
    OBVIOUS
<1>15. PICK provider : provider = ReadNextZ(b4, game[2])
    OBVIOUS
<1>16. PICK after : after = provider[2] + LS
    OBVIOUS
<1>17. PICK serial : serial = IF after <= Len(b4) THEN SubSeq(b4, provider[2] + 1, after) ELSE <<>>
    OBVIOUS
<1>18. PICK extra : extra = ReadNextZ(b4, after)[1]
    OBVIOUS
<1>19. Decode(b4) = [game |-> game[1], provider |-> provider[1], serial |-> serial, extra |-> extra]
    BY <1>14, <1>15, <1>16, <1>17, <1>18 DEF Decode, LS
<1>20. /\ PayloadSize = 0 => game = <<<<>>, 0>>
       /\ PayloadSize > 0 => game = <<Cut(t, Room(0, t)), Len(b1)>>
  <2>1. CASE PayloadSize = 0
      BY <1>1, <1>12, <1>14, <2>1, ReadEnd
  <2>2. CASE PayloadSize > 0
    <3>1. ReadNextZ(b4, Len(b0)) = <<Cut(t, Room(Len(b0), t)), Len(b1)>>
        BY <1>1, <1>3, <1>8, <1>12, <1>13, <2>2, ReadBack
    <3> QED BY <1>8, <1>14, <2>2, <3>1
  <2> QED BY <1>1, <2>1, <2>2
<1>21. game[2] = Len(b1)
    BY <1>1, <1>8, <1>9, <1>20
<1>22. /\ Len(b1) = PayloadSize => provider = <<<<>>, Len(b2)>>
       /\ Len(b1) < PayloadSize =>
              provider = <<Cut(Provider, Room(Len(b1), Provider)), Len(b2)>>
  <2>1. CASE Len(b1) = PayloadSize
    <3>1. Len(b1) >= Len(b4) /\ Len(b2) = Len(b1)
        BY <1>1, <1>9, <1>10, <1>12, <2>1
    <3> QED BY <1>1, <1>9, <1>15, <1>21, <2>1, <3>1, ReadEnd
  <2>2. CASE Len(b1) < PayloadSize
      BY <1>1, <1>4, <1>9, <1>12, <1>13, <1>15, <1>21, <2>2, ReadBack
  <2> QED BY <1>1, <1>9, <2>1, <2>2
<1>23. provider[2] = Len(b2) /\ after = Len(b2) + LS /\ after \in Nat
  <2>1. Len(b1) = PayloadSize \/ Len(b1) < PayloadSize
      BY <1>1, <1>9
  <2>2. provider[2] = Len(b2)
      BY <1>22, <2>1
  <2> QED BY <1>1, <1>10, <1>16, <2>2
<1>24. serial \in {<<>>, Serial} /\ (after <= PayloadSize => serial = Serial)
  <2>1. CASE after <= PayloadSize
    <3>1. Len(b3) = after /\ Holds(b3, Len(b2), Serial) /\ Len(b3) <= Len(b4)
        BY <1>11, <1>12, <1>23, <2>1 DEF Begins
    <3>2. Holds(b4, Len(b2), Serial)
        BY <1>1, <1>10, <1>11, <1>12, <3>1, HeldBefore
    <3>3. serial = SubSeq(b4, Len(b2) + 1, Len(b2) + LS)
        BY <1>17, <1>23, <3>1
    <3>4. b4 \in Seq(Nat) /\ Len(b2) \in Nat /\ LS \in Nat /\ Len(b2) + LS <= Len(b4)
        BY <1>1, <1>10, <1>11, <1>12, <1>23, <3>1
    <3>5. /\ SubSeq(b4, Len(b2) + 1, Len(b2) + LS) \in Seq(Nat)
          /\ Len(SubSeq(b4, Len(b2) + 1, Len(b2) + LS)) = LS
        BY <3>4, Middle
    <3>6. \A i \in 1..LS : SubSeq(b4, Len(b2) + 1, Len(b2) + LS)[i] = b4[Len(b2) + i]
        BY <3>4, Middle
    <3>7. \A i \in 1..LS : SubSeq(b4, Len(b2) + 1, Len(b2) + LS)[i] = Serial[i]
        BY <3>2, <3>6 DEF Holds, LS
    <3>8. serial = Serial
        BY <1>1, <3>3, <3>5, <3>7, SeqEqual DEF LS
    <3> QED BY <3>8
  <2>2. CASE after > PayloadSize
      BY <1>1, <1>12, <1>17, <1>23, <2>2
  <2> QED BY <1>1, <1>23, <2>1, <2>2
<1>25. IF after < PayloadSize THEN extra = Cut(Provider, Room(after, Provider)) ELSE extra = <<>>
  <2>1. CASE after < PayloadSize
    <3>1. Len(b3) = after /\ Len(b3) < PayloadSize
        BY <1>1, <1>10, <1>11, <1>23, <2>1
    <3>2. ReadNextZ(b4, after) = <<Cut(Provider, Room(after, Provider)), Len(b4)>>
        BY <1>1, <1>6, <1>11, <1>12, <1>13, <3>1, ReadBack
    <3> QED BY <1>18, <2>1, <3>2
  <2>2. CASE ~(after < PayloadSize)
    <3>1. after >= Len(b4)
        BY <1>1, <1>12, <1>23, <2>2
    <3> QED BY <1>18, <2>2, <3>1, ReadEnd
  <2> QED BY <2>1, <2>2
<1>26. /\ IsPrefix(game[1], t)
       /\ PayloadSize > 0 /\ Len(t) < PayloadSize => game[1] = t
  <2>1. CASE PayloadSize = 0
      BY <1>1, <1>20, <2>1, EmptyIsPrefix
  <2>2. CASE PayloadSize > 0
      BY <1>1, <1>9, <1>20, <2>2, CutString DEF Room
  <2> QED BY <1>1, <2>1, <2>2
<1>27. /\ IsPrefix(provider[1], Provider)
       /\ Len(b1) + LP < PayloadSize => provider[1] = Provider
  <2>1. CASE Len(b1) = PayloadSize
      BY <1>1, <1>22, <2>1, EmptyIsPrefix
  <2>2. CASE Len(b1) < PayloadSize
    <3>1. Room(Len(b1), Provider) \in 0..LP
        BY <1>10, <2>2
    <3>2. Len(b1) + LP < PayloadSize => Room(Len(b1), Provider) = LP
        BY <1>1, <1>9, <2>2 DEF Room, LP
    <3> QED BY <1>1, <1>22, <2>2, <3>1, <3>2, CutString DEF LP
  <2> QED BY <1>1, <1>9, <2>1, <2>2
<1>28. /\ IsPrefix(extra, Provider)
       /\ after + LP < PayloadSize => extra = Provider
  <2>1. CASE after < PayloadSize
    <3>1. Room(after, Provider) \in 0..LP
        BY <1>1, <1>23, <2>1 DEF Room, LP
    <3>2. after + LP < PayloadSize => Room(after, Provider) = LP
        BY <1>1, <1>23, <2>1 DEF Room, LP
    <3> QED BY <1>1, <1>25, <2>1, <3>1, <3>2, CutString DEF LP
  <2>2. CASE ~(after < PayloadSize)
      BY <1>1, <1>23, <1>25, <2>2, EmptyIsPrefix
  <2> QED BY <2>1, <2>2
<1>29. ASSUME full <= PayloadSize
       PROVE  game[1] = t /\ provider[1] = Provider /\ serial = Serial /\ extra = Provider
  <2>1. PayloadSize > 0 /\ Len(t) < PayloadSize
      BY <1>1, <1>29
  <2>2. Len(b1) = Len(t) + 1
      BY <1>1, <1>9, <2>1 DEF Room
  <2>3. Len(b1) + LP < PayloadSize /\ Len(b1) < PayloadSize
      BY <1>1, <1>29, <2>2
  <2>4. Len(b2) = Len(b1) + LP + 1
      BY <1>1, <1>9, <1>10, <2>3 DEF Room, LP
  <2>5. after + LP < PayloadSize /\ after <= PayloadSize
      BY <1>1, <1>23, <1>29, <2>2, <2>4
  <2> QED BY <1>24, <1>26, <1>27, <1>28, <2>1, <2>3, <2>5
<1> QED
    BY <1>7, <1>12, <1>19, <1>24, <1>26, <1>27, <1>28, <1>29 DEF ReadsAs, t, LP, LS

-----------------------------------------------------------------------------
(* The invariant *)

\* The descriptions there are, of which the listener has one.
Described == {"start", "unpaired", Machine}

\* The listener thread runs with a description, and a response that waits for its random
\* time was made from the one that is still current.
ListenerSays(d) ==
    /\ d.thread \in {"start", "bound", "delay"} => d.info \in Described
    /\ d.thread = "delay" => d.reply = Encode(d.info)

\* What was heard was made from a description.
HeardDescription(h) ==
    h.under # "none" => h.under \in Described /\ h.what = Encode(h.under)

DiscoveryInv ==
    /\ ListenerSays(disc)
    /\ HeardDescription(heard)
    /\ describing \subseteq Described

\* The nonces of the batches that have come.
Issued(b) == 1..((MaxBatches - b) * BatchSize)

\* A nonce that was issued is at one place at most: in the batch, with one thread that
\* writes it, or written.
NonceInv(batch, writers, g, issued) ==
    /\ batch \in Seq(issued)
    /\ \A i, j \in DOMAIN batch : batch[i] = batch[j] => i = j
    /\ \A w \in writers : w.nonce # None =>
          /\ w.nonce \in issued
          /\ \A i \in DOMAIN batch : batch[i] # w.nonce
          /\ w.nonce \notin g.written
    /\ \A v, w \in writers : v.nonce = w.nonce /\ v.nonce # None => v = w
    /\ g.written \subseteq issued \ {None}
    /\ \A i \in DOMAIN batch : batch[i] \notin g.written
    /\ ~g.twice

ProbesIInv == ProbesTypeOK /\ DiscoveryInv /\ NonceInv(nonces, writing, ghost, Issued(budget.batches))

-----------------------------------------------------------------------------
(* Discovery *)

LEMMA Descriptions ==
    ASSUME NEW key \in Described
    PROVE  key \in Keys /\ Encode(key) \in Seq(Nat) /\ ReadsAs(Decode(Encode(key)), key)
<1>1. key \in DOMAIN Titles
    BY ProbesAssumption DEF Described
<1> QED BY <1>1, DecodeEncode DEF Described, Keys

LEMMA EmptyReply == NoReply \in Seq(Nat)
BY DEF NoReply

DiscType ==
    /\ known \in Keys /\ describing \subseteq Keys /\ alive \in BOOLEAN
    /\ disc \in [info: Keys, running: BOOLEAN, reply: Seq(Nat),
                thread: {"start", "bound", "delay", "ended"}]
    /\ heard \in [what: Seq(Nat), under: Keys]

\* A fresh description only tells the listener to end.
LEMMA DescriptionSet ==
    ASSUME DiscType, DiscoveryInv, NEW key \in Described,
           SetDiscoveryDescription(key), UNCHANGED heard
    PROVE  DiscType' /\ DiscoveryInv'
<1>1. key \in Keys
    BY DEF Described, Keys
<1>2. CASE key = known
    BY <1>2 DEF SetDiscoveryDescription, DiscType, DiscoveryInv
<1>3. CASE key # known
  <2>1. /\ known' = key /\ alive' = (describing = {})
        /\ describing' = describing \cup {key}
        /\ disc' = [disc EXCEPT !.running = FALSE]
      BY <1>3 DEF SetDiscoveryDescription
  <2>2. DiscType'
    <3>1. alive' \in BOOLEAN
        BY <2>1
    <3>2. disc' \in [info: Keys, running: BOOLEAN, reply: Seq(Nat),
                    thread: {"start", "bound", "delay", "ended"}]
        BY <2>1 DEF DiscType
    <3> QED BY <1>1, <2>1, <3>1, <3>2 DEF DiscType
  <2>3. disc'.thread = disc.thread /\ disc'.info = disc.info /\ disc'.reply = disc.reply
      BY <2>1 DEF DiscType
  <2> QED BY <2>1, <2>2, <2>3 DEF DiscoveryInv, ListenerSays
<1> QED BY <1>2, <1>3

LEMMA DiscoveryStep ==
    ASSUME ProbesTypeOK, DiscoveryInv, [ProbesNext]_probesVars
    PROVE  DiscType' /\ DiscoveryInv'
<1>1. DiscType
    BY DEF ProbesTypeOK, DiscType
<1>2. CASE UNCHANGED discVars
    BY <1>1, <1>2 DEF discVars, DiscType, DiscoveryInv
<1>3. CASE Listen
  <2>1. disc' = [disc EXCEPT !.thread = "bound"] /\ disc.thread = "start"
      BY <1>3 DEF Listen
  <2>2. /\ disc' \in [info: Keys, running: BOOLEAN, reply: Seq(Nat),
                     thread: {"start", "bound", "delay", "ended"}]
        /\ disc'.thread = "bound" /\ disc'.info = disc.info
      BY <1>1, <2>1 DEF DiscType
  <2>3. UNCHANGED <<known, describing, alive, heard>>
      BY <1>3 DEF Listen
  <2> QED BY <1>1, <2>1, <2>2, <2>3 DEF DiscType, DiscoveryInv, ListenerSays
<1>4. CASE ListenFails
  <2>1. disc' = [disc EXCEPT !.thread = "ended", !.running = FALSE]
      BY <1>4 DEF ListenFails
  <2>2. /\ disc' \in [info: Keys, running: BOOLEAN, reply: Seq(Nat),
                     thread: {"start", "bound", "delay", "ended"}]
        /\ disc'.thread = "ended"
      BY <1>1, <2>1 DEF DiscType
  <2>3. UNCHANGED <<known, describing, alive, heard>>
      BY <1>4 DEF ListenFails
  <2> QED BY <1>1, <2>2, <2>3 DEF DiscType, DiscoveryInv, ListenerSays
<1>5. CASE ListenerGets
  <2>1. disc' = [disc EXCEPT !.thread = "delay", !.reply = Encode(disc.info)] /\ disc.thread = "bound"
      BY <1>5 DEF ListenerGets
  <2>2. disc.info \in Described /\ Encode(disc.info) \in Seq(Nat)
      BY <2>1, Descriptions DEF DiscoveryInv, ListenerSays
  <2>3. /\ disc' \in [info: Keys, running: BOOLEAN, reply: Seq(Nat),
                     thread: {"start", "bound", "delay", "ended"}]
        /\ disc'.info = disc.info /\ disc'.reply = Encode(disc.info)
      BY <1>1, <2>1, <2>2 DEF DiscType
  <2>4. UNCHANGED <<known, describing, alive, heard>>
      BY <1>5 DEF ListenerGets
  <2> QED BY <1>1, <2>2, <2>3, <2>4 DEF DiscType, DiscoveryInv, ListenerSays
<1>6. CASE ListenerSends
  <2>1. /\ disc' = [disc EXCEPT !.thread = "bound", !.reply = NoReply] /\ disc.thread = "delay"
        /\ heard' = [what |-> disc.reply, under |-> disc.info]
      BY <1>6 DEF ListenerSends
  <2>2. disc.info \in Described /\ disc.reply = Encode(disc.info)
      BY <2>1 DEF DiscoveryInv, ListenerSays
  <2>3. /\ disc' \in [info: Keys, running: BOOLEAN, reply: Seq(Nat),
                     thread: {"start", "bound", "delay", "ended"}]
        /\ disc'.info = disc.info /\ disc'.thread = "bound"
        /\ heard' \in [what: Seq(Nat), under: Keys]
      BY <1>1, <2>1, EmptyReply DEF DiscType
  <2>4. UNCHANGED <<known, describing, alive>>
      BY <1>6 DEF ListenerSends
  <2> QED BY <1>1, <2>1, <2>2, <2>3, <2>4
          DEF DiscType, DiscoveryInv, ListenerSays, HeardDescription
<1>7. CASE ListenerEnds
  <2>1. disc' = [disc EXCEPT !.thread = "ended", !.reply = NoReply]
      BY <1>7 DEF ListenerEnds
  <2>2. /\ disc' \in [info: Keys, running: BOOLEAN, reply: Seq(Nat),
                     thread: {"start", "bound", "delay", "ended"}]
        /\ disc'.thread = "ended"
      BY <1>1, <2>1, EmptyReply DEF DiscType
  <2>3. UNCHANGED <<known, describing, alive, heard>>
      BY <1>7 DEF ListenerEnds
  <2> QED BY <1>1, <2>2, <2>3 DEF DiscType, DiscoveryInv, ListenerSays
<1>8. ASSUME NEW key \in describing, Describe(key)
      PROVE  DiscType' /\ DiscoveryInv'
  <2>1. /\ disc' = [info |-> key, running |-> TRUE, thread |-> "start", reply |-> NoReply]
        /\ describing' = describing \ {key}
        /\ UNCHANGED <<known, alive, heard>>
      BY <1>8 DEF Describe
  <2>2. key \in Described /\ key \in Keys
      BY <1>8, Descriptions DEF DiscoveryInv
  <2> QED BY <1>1, <2>1, <2>2 DEF DiscType, DiscoveryInv, ListenerSays, NoReply
<1>9. ASSUME NEW found \in BOOLEAN, Enumerate(found)
      PROVE  DiscType' /\ DiscoveryInv'
  <2>1. /\ disc' = [info |-> "none", running |-> FALSE, thread |-> "ended", reply |-> NoReply]
        /\ alive' = (describing = {})
        /\ UNCHANGED <<known, describing, heard>>
      BY <1>9 DEF Enumerate
  <2>2. alive' \in BOOLEAN
      BY <2>1
  <2> QED BY <1>1, <2>1, <2>2 DEF DiscType, DiscoveryInv, ListenerSays, NoReply, Keys
<1>10. CASE ObjectArrives
  <2>1. CASE server.paired = None
    <3>1. SetDiscoveryDescription("unpaired") /\ UNCHANGED heard
        BY <1>10, <2>1 DEF ObjectArrives
    <3> QED BY <1>1, <3>1, DescriptionSet DEF Described
  <2>2. CASE server.paired # None
    <3>1. UNCHANGED discVars
        BY <1>10, <2>2 DEF ObjectArrives, discVars
    <3> QED BY <1>2, <3>1
  <2> QED BY <2>1, <2>2
<1>11. CASE TitleArrives
  <2>1. SetDiscoveryDescription(machine) /\ UNCHANGED heard /\ machine = Machine
      BY <1>11 DEF TitleArrives, ProbesTypeOK, Machines
  <2> QED BY <1>1, <2>1, DescriptionSet DEF Described
<1>12. CASE OnUnpaired
  <2>1. SetDiscoveryDescription("unpaired") /\ UNCHANGED heard
      BY <1>12 DEF OnUnpaired
  <2> QED BY <1>1, <2>1, DescriptionSet DEF Described
<1>13. Nonces \/ CheckTag \/ ReadTag \/ ProbeFails \/ ServerPairs \/ OnPaired \/ UNCHANGED probesVars
           => UNCHANGED discVars
    BY DEF Nonces, CreateSucceeds, CreateFails, MakeTag, WriteTag, CheckTag, ReadTag,
           ProbeFails, ServerPairs, OnPaired, probesVars, discVars
<1> QED
    BY <1>2, <1>3, <1>4, <1>5, <1>6, <1>7, <1>8, <1>9, <1>10, <1>11, <1>12, <1>13
    DEF ProbesNext, Listener, Pairing

-----------------------------------------------------------------------------
(* Types *)

BudgetType ==
    budget \in [batches: 0..MaxBatches, reads: Nat, pairings: Nat, faults: Nat, asks: Nat]

LEMMA BudgetStep ==
    ASSUME BudgetType, [ProbesNext]_probesVars
    PROVE  BudgetType'
<1>1. \A what \in {"batches", "reads", "pairings", "faults", "asks"} : Spend(what) => BudgetType'
  <2>1. Spend("batches") => BudgetType'
    <3> SUFFICES ASSUME Spend("batches") PROVE BudgetType'
        OBVIOUS
    <3>1. MaxBatches \in Nat
        BY ProbesAssumption
    <3>2. budget.batches - 1 \in 0..MaxBatches
        BY <3>1 DEF Spend, BudgetType
    <3> QED BY <3>2 DEF Spend, BudgetType
  <2>2. Spend("reads") => BudgetType'
      BY DEF Spend, BudgetType
  <2>3. Spend("pairings") => BudgetType'
      BY DEF Spend, BudgetType
  <2>4. Spend("faults") => BudgetType'
      BY DEF Spend, BudgetType
  <2>5. Spend("asks") => BudgetType'
      BY DEF Spend, BudgetType
  <2> QED BY <2>1, <2>2, <2>3, <2>4, <2>5
<1>2. UNCHANGED budget => BudgetType'
    BY DEF BudgetType
<1>3. \/ UNCHANGED budget
      \/ \E what \in {"batches", "reads", "pairings", "faults", "asks"} : Spend(what)
    BY DEF ProbesNext, Nonces, Listener, Pairing, probesVars, CreateSucceeds, CreateFails,
           MakeTag, WriteTag,
           CheckTag, ReadTag, ProbeFails, ServerPairs, OnPaired, OnUnpaired, ObjectArrives,
           TitleArrives, Listen, ListenFails, ListenerGets, ListenerSends, ListenerEnds,
           Describe, Enumerate
<1> QED BY <1>1, <1>2, <1>3

PairType ==
    /\ objects \in Nat /\ machine \in Machines /\ title \in Keys
    /\ status \in {"CheckingPairing", "Unpaired", "Paired"}
    /\ server \in [paired: Machines, messages: Seq({"paired", "unpaired"})]

LEMMA PairStep ==
    ASSUME PairType, [ProbesNext]_probesVars
    PROVE  PairType'
<1>1. CASE UNCHANGED pairVars
    BY <1>1 DEF PairType, pairVars
<1>2. CASE ServerPairs
    BY <1>2 DEF ServerPairs, PairType, Machines
<1>3. CASE ObjectArrives
    BY <1>3 DEF ObjectArrives, PairType, Machines, Keys
<1>4. CASE TitleArrives
    BY <1>4 DEF TitleArrives, PairType, Machines, Keys
<1>5. CASE OnPaired
  <2>1. server' = [server EXCEPT !.messages = Tail(@)] /\ server.messages # <<>>
      BY <1>5 DEF OnPaired
  <2>2. Tail(server.messages) \in Seq({"paired", "unpaired"})
      BY <2>1 DEF PairType
  <2>3. status' = "Paired" /\ objects' = objects + 1 /\ UNCHANGED <<machine, title>>
      BY <1>5 DEF OnPaired
  <2>4. server' \in [paired: Machines, messages: Seq({"paired", "unpaired"})]
      BY <2>1, <2>2 DEF PairType
  <2> QED BY <2>3, <2>4 DEF PairType
<1>6. CASE OnUnpaired
  <2>1. server' = [server EXCEPT !.messages = Tail(@)] /\ server.messages # <<>>
      BY <1>6 DEF OnUnpaired
  <2>2. Tail(server.messages) \in Seq({"paired", "unpaired"})
      BY <2>1 DEF PairType
  <2>3. /\ status' = "Unpaired" /\ machine' = None /\ title' = "unpaired"
        /\ UNCHANGED objects
      BY <1>6 DEF OnUnpaired
  <2>4. server' \in [paired: Machines, messages: Seq({"paired", "unpaired"})]
      BY <2>1, <2>2 DEF PairType
  <2>5. machine' \in Machines /\ title' \in Keys
      BY <2>3 DEF Machines, Keys
  <2> QED BY <2>3, <2>4, <2>5 DEF PairType
<1>7. \/ UNCHANGED pairVars \/ ServerPairs \/ ObjectArrives \/ TitleArrives \/ OnPaired \/ OnUnpaired
    BY DEF ProbesNext, Nonces, Listener, Pairing, probesVars, CreateSucceeds, CreateFails,
           MakeTag, WriteTag,
           CheckTag, ReadTag, ProbeFails, Listen, ListenFails, ListenerGets, ListenerSends,
           ListenerEnds, Describe, Enumerate, pairVars
<1> QED BY <1>1, <1>2, <1>3, <1>4, <1>5, <1>6, <1>7

NonceType ==
    /\ nonces \in Seq(Nat)
    /\ creating \in Nat /\ setters \in [Callers -> Nat]
    /\ writing \subseteq [nonce: Nat \cup {None}, machine: Machines, by: Callers]
    /\ tag \in [nonce: Nat \cup {None}, machine: Machines, read: BOOLEAN]
    /\ handle \in {"ok", "stale"}
    /\ ghost \in [written: SUBSET Nat, twice: BOOLEAN]

LEMMA NewBatch ==
    ASSUME BudgetType, budget.batches > 0
    PROVE  LET top == (MaxBatches - budget.batches) * BatchSize
               fresh == [i \in 1..BatchSize |-> top + i]
           IN  /\ top \in Nat
               /\ fresh \in Seq(Nat) /\ Len(fresh) = BatchSize /\ DOMAIN fresh = 1..BatchSize
               /\ (MaxBatches - (budget.batches - 1)) * BatchSize = top + BatchSize
<1>1. PICK b : b = MaxBatches - budget.batches
    OBVIOUS
<1>2. b \in Nat /\ BatchSize \in Nat
    BY SMTT(20), <1>1, ProbesAssumption DEF BudgetType
<1>3. b * BatchSize \in Nat
    BY <1>2
<1>4. (b + 1) * BatchSize = b * BatchSize + BatchSize
    BY <1>2
<1>5. MaxBatches - (budget.batches - 1) = b + 1
    BY SMTT(20), <1>1, ProbesAssumption DEF BudgetType
<1>6. PICK top : top = b * BatchSize
    OBVIOUS
<1>7. [i \in 1..BatchSize |-> top + i] \in Seq(Nat)
    BY <1>2, <1>3, <1>6
<1>8. Len([i \in 1..BatchSize |-> top + i]) = BatchSize
    BY <1>2
<1> QED BY <1>1, <1>2, <1>3, <1>4, <1>5, <1>6, <1>7, <1>8

LEMMA NonceTypeStep ==
    ASSUME ProbesTypeOK, [ProbesNext]_probesVars
    PROVE  NonceType'
<1>1. NonceType /\ BudgetType /\ machine \in Machines
    BY DEF ProbesTypeOK, NonceType, BudgetType
<1>2. CASE UNCHANGED <<tagVars, handle, ghost>>
    BY <1>1, <1>2 DEF NonceType, tagVars
<1>3. CASE CreateSucceeds
  <2>1. /\ nonces' = [i \in 1..BatchSize |-> (MaxBatches - budget.batches) * BatchSize + i]
        /\ budget.batches > 0 /\ creating > 0
        /\ creating' = creating - 1 /\ setters' = [setters EXCEPT !["reply"] = @ + 1]
        /\ UNCHANGED <<writing, tag, handle, ghost>>
      BY <1>3 DEF CreateSucceeds, Spend
  <2>2. nonces' \in Seq(Nat)
      BY <1>1, <2>1, NewBatch
  <2>3. setters' \in [Callers -> Nat]
      BY <1>1, <2>1 DEF NonceType, Callers
  <2> QED BY <1>1, <2>1, <2>2, <2>3 DEF NonceType
<1>4. CASE CreateFails
    BY <1>1, <1>4 DEF NonceType, CreateFails
<1>5. ASSUME NEW by \in Callers, MakeTag(by)
      PROVE  NonceType'
  <2>1. /\ setters[by] > 0 /\ setters' = [setters EXCEPT ![by] = @ - 1]
        /\ writing' = writing \cup {[nonce |-> IF nonces = <<>> THEN None ELSE Last(nonces),
                                     machine |-> machine, by |-> by]}
        /\ UNCHANGED <<tag, handle, ghost>>
      BY <1>5 DEF MakeTag
  <2>2. nonces # <<>> => Last(nonces) \in Nat /\ Front(nonces) \in Seq(Nat)
      BY <1>1 DEF NonceType, Last, Front
  <2>3. nonces' \in Seq(Nat) /\ creating' \in Nat
    <3>1. CASE ConsumeNonce
      <4>1. creating' = creating + (IF Len(nonces) = High \/ Len(nonces) <= Low THEN 1 ELSE 0)
          BY <3>1 DEF ConsumeNonce
      <4>2. creating' \in Nat
          BY <1>1, <4>1 DEF NonceType
      <4> QED BY <1>1, <2>2, <3>1, <4>2 DEF ConsumeNonce
    <3>2. CASE NoNonce
        BY <1>1, <3>2 DEF NoNonce, NonceType
    <3> QED BY <1>5, <3>1, <3>2 DEF MakeTag
  <2>4. [nonce |-> IF nonces = <<>> THEN None ELSE Last(nonces), machine |-> machine, by |-> by]
            \in [nonce: Nat \cup {None}, machine: Machines, by: Callers]
      BY <1>1, <2>2
  <2>5. setters' \in [Callers -> Nat]
    <3>1. setters[by] \in Nat /\ setters[by] - 1 \in Nat
        BY <1>1, <2>1 DEF NonceType
    <3> QED BY <1>1, <2>1, <3>1 DEF NonceType
  <2> QED BY <1>1, <2>1, <2>3, <2>4, <2>5 DEF NonceType
<1>6. ASSUME NEW w \in writing, WriteTag(w)
      PROVE  NonceType'
  <2>1. w \in [nonce: Nat \cup {None}, machine: Machines, by: Callers]
      BY <1>1, <1>6 DEF NonceType
  <2>2. CASE handle = "ok"
    <3>1. /\ tag' = [nonce |-> w.nonce, machine |-> w.machine, read |-> FALSE]
          /\ ghost' = [ghost EXCEPT !.written = @ \cup ({w.nonce} \ {None}),
                                    !.twice = @ \/ w.nonce \in ghost.written]
        BY <1>6, <2>2 DEF WriteTag
    <3>2. (ghost.twice \/ w.nonce \in ghost.written) \in BOOLEAN
        OBVIOUS
    <3>3. ghost' \in [written: SUBSET Nat, twice: BOOLEAN]
      <4>1. ghost.written \cup ({w.nonce} \ {None}) \in SUBSET Nat
          BY <1>1, <2>1 DEF NonceType
      <4>2. PICK g : g = (ghost.twice \/ w.nonce \in ghost.written)
          OBVIOUS
      <4> QED BY <1>1, <3>1, <3>2, <4>1, <4>2 DEF NonceType
    <3>4. UNCHANGED <<nonces, creating, setters, handle>> /\ writing' = writing \ {w}
        BY <1>6 DEF WriteTag
    <3> QED BY <1>1, <2>1, <3>1, <3>3, <3>4 DEF NonceType
  <2>3. CASE handle # "ok"
      BY <1>1, <1>6, <2>3 DEF WriteTag, NonceType
  <2> QED BY <2>2, <2>3
<1>7. CASE CheckTag
  <2>1. setters' \in [Callers -> Nat]
      BY <1>1, <1>7 DEF NonceType, CheckTag, Callers
  <2> QED BY <1>1, <1>7, <2>1 DEF NonceType, CheckTag
<1>8. CASE ReadTag
    BY <1>1, <1>8 DEF NonceType, ReadTag
<1>9. CASE ProbeFails
    BY <1>1, <1>9 DEF NonceType, ProbeFails, tagVars
<1>10. CASE \E found \in BOOLEAN : Enumerate(found)
    BY <1>1, <1>10 DEF NonceType, Enumerate, tagVars
<1>11. CASE OnPaired
    BY <1>1, <1>11 DEF NonceType, OnPaired
<1>12. Listener \/ ListenFails \/ ListenerGets \/ ServerPairs \/ ObjectArrives \/ TitleArrives
          \/ OnUnpaired \/ (\E key \in describing : Describe(key)) \/ UNCHANGED probesVars
          => UNCHANGED <<tagVars, handle, ghost>>
    BY DEF Listener, Listen, ListenerSends, ListenerEnds, ListenFails, ListenerGets, ServerPairs,
           ObjectArrives, TitleArrives, OnUnpaired, Describe, probesVars
<1> QED
    BY <1>2, <1>3, <1>4, <1>5, <1>6, <1>7, <1>8, <1>9, <1>10, <1>11, <1>12
    DEF ProbesNext, Nonces, Pairing

LEMMA ProbesTypeStep ==
    ASSUME ProbesTypeOK, DiscoveryInv, [ProbesNext]_probesVars
    PROVE  ProbesTypeOK'
<1>1. DiscType' /\ NonceType'
    BY DiscoveryStep, NonceTypeStep
<1>2. BudgetType' /\ PairType'
    BY BudgetStep, PairStep DEF ProbesTypeOK, BudgetType, PairType
<1> QED BY <1>1, <1>2 DEF ProbesTypeOK, DiscType, NonceType, BudgetType, PairType

-----------------------------------------------------------------------------
(* Nonces *)

LEMMA NonceStep ==
    ASSUME ProbesTypeOK, NonceInv(nonces, writing, ghost, Issued(budget.batches)),
           [ProbesNext]_probesVars
    PROVE  NonceInv(nonces, writing, ghost, Issued(budget.batches))'
<1> DEFINE issued == Issued(budget.batches)
<1>1. NonceType /\ BudgetType
    BY DEF ProbesTypeOK, NonceType, BudgetType
<1>2. CASE UNCHANGED <<nonces, writing, ghost>> /\ budget'.batches = budget.batches
    BY <1>2 DEF NonceInv, Issued
<1>3. CASE CreateSucceeds
  <2>1. /\ nonces' = [i \in 1..BatchSize |-> (MaxBatches - budget.batches) * BatchSize + i]
        /\ budget.batches > 0 /\ budget' = [budget EXCEPT !.batches = @ - 1]
        /\ UNCHANGED <<writing, ghost>>
      BY <1>3 DEF CreateSucceeds, Spend
  <2>2. budget'.batches = budget.batches - 1
      BY <1>1, <2>1 DEF BudgetType
  <2>3. PICK top : top = (MaxBatches - budget.batches) * BatchSize
      OBVIOUS
  <2>4. /\ top \in Nat /\ BatchSize \in Nat
        /\ nonces' = [i \in 1..BatchSize |-> top + i] /\ nonces' \in Seq(Nat)
        /\ Len(nonces') = BatchSize /\ DOMAIN nonces' = 1..BatchSize
        /\ issued = 1..top /\ issued' = 1..(top + BatchSize)
      BY <1>1, <2>1, <2>2, <2>3, NewBatch, ProbesAssumption DEF Issued
  <2> HIDE DEF issued
  <2>5. nonces' \in Seq(issued')
    <3>1. \A i \in 1..Len(nonces') : nonces'[i] \in issued'
        BY <2>4
    <3> QED BY <2>4, <3>1
  <2>6. \A i \in DOMAIN nonces' : nonces'[i] = top + i /\ nonces'[i] \notin issued
      BY <2>4
  <2>7. \A i, j \in DOMAIN nonces' : nonces'[i] = nonces'[j] => i = j
      BY <2>4
  <2>8. issued \subseteq issued'
      BY <2>4
  <2>9. NonceInv(nonces, writing, ghost, issued)
      BY DEF issued
  <2>10. NonceInv(nonces', writing, ghost, issued')
      BY <2>5, <2>6, <2>7, <2>8, <2>9 DEF NonceInv
  <2> QED BY <2>1, <2>10 DEF issued
<1>4. ASSUME NEW by \in Callers, MakeTag(by)
      PROVE  NonceInv(nonces, writing, ghost, Issued(budget.batches))'
  <2> DEFINE fresh == [nonce |-> IF nonces = <<>> THEN None ELSE Last(nonces), machine |-> machine,
                       by |-> by]
  <2>1. writing' = writing \cup {fresh} /\ UNCHANGED <<ghost, budget>>
      BY <1>4 DEF MakeTag
  <2>2. CASE nonces = <<>>
    <3>1. nonces' = nonces /\ fresh.nonce = None
        BY <1>4, <2>2 DEF MakeTag, ConsumeNonce, NoNonce
    <3> HIDE DEF fresh
    <3>2. NonceInv(nonces, writing \cup {fresh}, ghost, issued)
        BY <3>1 DEF NonceInv
    <3> QED BY <2>1, <3>1, <3>2 DEF Issued
  <2>3. CASE nonces # <<>>
    <3>1. nonces' = Front(nonces) /\ fresh.nonce = Last(nonces)
        BY <1>4, <2>3 DEF MakeTag, ConsumeNonce, NoNonce
    <3> HIDE DEF fresh, issued
    <3>2. NonceInv(nonces, writing, ghost, issued)
        BY DEF issued
    <3>3. PICK n : n = Len(nonces)
        OBVIOUS
    <3>4. n \in Nat /\ n >= 1 /\ DOMAIN nonces = 1..n /\ nonces \in Seq(issued)
        BY <1>1, <2>3, <3>2, <3>3 DEF NonceType, NonceInv
    <3>5. PICK f : f = Front(nonces)
        OBVIOUS
    <3>6. /\ f \in Seq(issued) /\ DOMAIN f = 1..(n - 1)
          /\ \A i \in 1..(n - 1) : f[i] = nonces[i]
        BY <3>3, <3>4, <3>5 DEF Front
    <3>7. fresh.nonce = nonces[n] /\ n \in DOMAIN nonces
        BY <3>1, <3>3, <3>4 DEF Last
    <3>8. \A i \in DOMAIN f : i \in DOMAIN nonces /\ i # n /\ f[i] = nonces[i]
        BY <3>4, <3>6
    <3>9. nonces[n] \in issued
        BY <3>4, <3>7
    <3>10. \A i \in DOMAIN f : f[i] # fresh.nonce
        BY <3>2, <3>7, <3>8 DEF NonceInv
    <3>11. fresh.nonce \notin ghost.written /\ \A w \in writing : w.nonce # None => w.nonce # fresh.nonce
        BY <3>2, <3>7 DEF NonceInv
    <3>12. NonceInv(f, writing \cup {fresh}, ghost, issued)
        BY <3>2, <3>6, <3>7, <3>8, <3>9, <3>10, <3>11 DEF NonceInv
    <3> QED BY <2>1, <3>1, <3>5, <3>12 DEF issued, Issued
  <2> QED BY <2>2, <2>3
<1>5. ASSUME NEW w \in writing, WriteTag(w)
      PROVE  NonceInv(nonces, writing, ghost, Issued(budget.batches))'
  <2>1. writing' = writing \ {w} /\ UNCHANGED <<nonces, budget>>
      BY <1>5 DEF WriteTag
  <2>2. CASE handle = "ok"
    <3>1. ghost' = [ghost EXCEPT !.written = @ \cup ({w.nonce} \ {None}),
                                !.twice = @ \/ w.nonce \in ghost.written]
        BY <1>5, <2>2 DEF WriteTag
    <3>2. NonceInv(nonces, writing, ghost, issued)
        OBVIOUS
    <3> HIDE DEF issued
    <3>3. w.nonce \notin ghost.written /\ ~ghost.twice
        BY <1>5, <3>2 DEF NonceInv
    <3>4. ghost'.written = ghost.written \cup ({w.nonce} \ {None})
        BY <1>1, <3>1 DEF NonceType
    <3>5. ~ghost'.twice
      <4>1. ghost'.twice = (ghost.twice \/ w.nonce \in ghost.written)
          BY <1>1, <3>1 DEF NonceType
      <4> QED BY <3>3, <4>1
    <3>6. NonceInv(nonces, writing \ {w}, ghost', issued)
        BY <1>5, <3>2, <3>4, <3>5 DEF NonceInv
    <3> QED BY <2>1, <3>6 DEF issued, Issued
  <2>3. CASE handle # "ok"
    <3>1. UNCHANGED ghost
        BY <1>5, <2>3 DEF WriteTag
    <3>2. NonceInv(nonces, writing \ {w}, ghost, issued)
        BY DEF NonceInv
    <3> QED BY <2>1, <3>1, <3>2 DEF Issued
  <2> QED BY <2>2, <2>3
<1>6. ASSUME Listener \/ ListenFails \/ ListenerGets \/ ServerPairs \/ Pairing \/ CreateFails \/ CheckTag
             \/ ReadTag \/ ProbeFails \/ (\E found \in BOOLEAN : Enumerate(found))
             \/ (\E key \in describing : Describe(key))
             \/ UNCHANGED probesVars
      PROVE  UNCHANGED <<nonces, writing, ghost>> /\ budget'.batches = budget.batches
  <2>1. UNCHANGED <<nonces, writing, ghost>>
      BY <1>6 DEF Listener, Listen, ListenerSends, ListenerEnds, ListenFails, ListenerGets,
             ServerPairs, ObjectArrives, TitleArrives, OnUnpaired, OnPaired, Pairing, Describe,
             CreateFails, CheckTag, ReadTag, ProbeFails, Enumerate, probesVars, tagVars
  <2>2. UNCHANGED budget \/ \E what \in {"reads", "pairings", "faults", "asks"} : Spend(what)
      BY <1>6 DEF Listener, Listen, ListenerSends, ListenerEnds, ListenFails, ListenerGets,
             ServerPairs, ObjectArrives, TitleArrives, OnUnpaired, OnPaired, Pairing, Describe,
             CreateFails, CheckTag, ReadTag, ProbeFails, Enumerate, probesVars
  <2>3. budget'.batches = budget.batches
      BY <1>1, <2>2 DEF Spend, BudgetType
  <2> QED BY <2>1, <2>3
<1> QED
    BY <1>2, <1>3, <1>4, <1>5, <1>6 DEF ProbesNext, Nonces

-----------------------------------------------------------------------------
(* The theorems *)

LEMMA ProbesInitIInv == ProbesInit => ProbesIInv
<1> SUFFICES ASSUME ProbesInit PROVE ProbesIInv
    OBVIOUS
<1>1. /\ MaxBatches \in Nat /\ MaxReads \in Nat /\ MaxPairings \in Nat
      /\ MaxFaults \in Nat /\ MaxAsks \in Nat
    BY ProbesAssumption
<1>2. budget \in [batches: 0..MaxBatches, reads: Nat, pairings: Nat, faults: Nat, asks: Nat]
    BY <1>1 DEF ProbesInit
<1>3. /\ ghost \in [written: SUBSET Nat, twice: BOOLEAN]
      /\ tag \in [nonce: Nat \cup {None}, machine: Machines, read: BOOLEAN]
    BY DEF ProbesInit, Machines
<1>4. /\ disc \in [info: Keys, running: BOOLEAN, reply: Seq(Nat),
                  thread: {"start", "bound", "delay", "ended"}]
      /\ heard \in [what: Seq(Nat), under: Keys]
    BY EmptyReply DEF ProbesInit, Keys
<1>5. server \in [paired: Machines, messages: Seq({"paired", "unpaired"})]
  <2>1. <<>> \in Seq({"paired", "unpaired"})
      OBVIOUS
  <2>2. server \in [paired: Machines, messages: {<<>>}]
      BY DEF ProbesInit, Machines
  <2> QED BY <2>1, <2>2
<1>6. ProbesTypeOK
    BY <1>2, <1>3, <1>4, <1>5 DEF ProbesInit, ProbesTypeOK, Machines, Keys
<1>7. DiscoveryInv
    BY DEF ProbesInit, DiscoveryInv, ListenerSays, HeardDescription, Described
<1>8. NonceInv(nonces, writing, ghost, Issued(budget.batches))
    BY DEF ProbesInit, NonceInv
<1> QED BY <1>6, <1>7, <1>8 DEF ProbesIInv

LEMMA ProbesInvariance == ProbesSpec => []ProbesIInv
<1>1. ProbesIInv /\ [ProbesNext]_probesVars => ProbesIInv'
  <2> SUFFICES ASSUME ProbesIInv, [ProbesNext]_probesVars PROVE ProbesIInv'
      OBVIOUS
  <2>1. ProbesTypeOK' /\ DiscoveryInv'
      BY ProbesTypeStep, DiscoveryStep DEF ProbesIInv
  <2>2. NonceInv(nonces, writing, ghost, Issued(budget.batches))'
      BY NonceStep DEF ProbesIInv
  <2> QED BY <2>1, <2>2 DEF ProbesIInv
<1> QED BY <1>1, ProbesInitIInv, PTL DEF ProbesSpec

\* No nonce is written to the tag twice, for any size of the batches and any interleaving of
\* their replies, the timer's handlers and the writes that fail (consumeNonce, setNfcTag).
THEOREM NoncesAreUsedOnce == ProbesSpec => []NonceOffersOnce
<1>1. ProbesIInv => NonceOffersOnce
    BY DEF ProbesIInv, NonceInv, NonceOffersOnce
<1> QED BY <1>1, ProbesInvariance, PTL

\* What a discoverer decodes is what the device describes when it answers, for any strings
\* and any payload size, also one that cuts a field or leaves none (ListenerThreadProc,
\* Discover).
THEOREM DescriptionsArrive == ProbesSpec => []HeardIsCurrent
<1>1. ProbesIInv => HeardIsCurrent
  <2> SUFFICES ASSUME ProbesIInv, heard.under # "none"
               PROVE  ReadsAs(Decode(heard.what), heard.under)
      BY DEF HeardIsCurrent
  <2>1. heard.under \in Described /\ heard.what = Encode(heard.under)
      BY DEF ProbesIInv, DiscoveryInv, HeardDescription
  <2> QED BY <2>1, Descriptions
<1> QED BY <1>1, ProbesInvariance, PTL
=============================================================================
