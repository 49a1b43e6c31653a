-------------------------- MODULE CentrifugoProofs --------------------------
(***************************************************************************)
(* Proofs about Centrifugo: no client is destroyed while a callback of it  *)
(* is queued or running, the credits status is never missed, and ~Net      *)
(* leaves no connection open, for every number of pool threads, clients    *)
(* and restarts.                                                           *)
(***************************************************************************)
EXTENDS Centrifugo, FiniteSetTheorems, SequenceTheorems, WellFoundedInduction, TLAPS

-----------------------------------------------------------------------------
(* The invariant *)

Stages == {"idle", "look", "retire", "flag", "disconnect", "setup", "assign", "connect",
           "dial", "parsed"}

Types ==
    /\ created \in 0..MaxClients
    /\ st \in [Clients -> {"Disconnected", "Connecting", "Connected"}]
    /\ closing \in [Clients -> Codes \cup {"none"}]
    /\ greeting \subseteq Clients
    /\ timer \in Handler \cup {NoTimer}
    /\ expired \subseteq Handler
    /\ pc \in [Actors -> Stages]
    /\ dtor \in {"no", "stopping", "posted", "join"}
    /\ budget \in [restarts: 0..MaxRestarts, drops: 0..MaxDrops]

\* The client created last is the active one or there is none; the others are retired
\* or destroyed.
Places ==
    /\ cur \in {0, created}
    /\ retired \in Seq([id: Clients, old: BOOLEAN])
    /\ \A c \in 1..created : c = cur \/ c \in RetiredIds \/ c \in destroyed
    /\ RetiredIds \subseteq 1..created
    /\ destroyed \subseteq 1..created
    /\ cur \notin RetiredIds \cup destroyed
    /\ RetiredIds \cap destroyed = {}

\* Nothing happened yet to a client that is not created yet.
Unborn == \A c \in Clients : c > created => st[c] = "Disconnected" /\ closing[c] = "none"

Handlers == expired \cup {timer}

HandlersBorn == \A h \in Handlers : h.id <= created

\* When the server closes a connection for good, the client is disconnected at once.
CodesFinal == \A c \in Clients : closing[c] \in {"3500", "other"} => st[c] = "Disconnected"

\* What holds as long as no two actors met inside these functions.
OneAtATime == \A a, b \in Actors : Busy(a) /\ Busy(b) => a = b

Quiet(c) == st[c] = "Disconnected" /\ closing[c] = "none"

\* A retired client is disconnected, and after its grace period no callback is queued.
RetiredUnwind ==
    \A i \in DOMAIN retired :
        /\ st[retired[i].id] = "Disconnected"
        /\ retired[i].old => closing[retired[i].id] = "none"

DestroyedQuiet == \A c \in destroyed : Quiet(c)

\* An actor that is about to retire the client, or to replace it, finds it disconnected.
RetireIdle == \A a \in Actors : pc[a] = "retire" /\ cur # 0 => st[cur] = "Disconnected"
SetupQuiet == \A a \in Actors : pc[a] \in {"setup", "assign"} /\ cur # 0 => Quiet(cur)

\* So does the timer's handler that resets the client.
ResetQuiet ==
    \A h \in Handlers : h.kind = "reset" /\ h.id = cur =>
        /\ Quiet(cur)
        /\ \A a \in Actors : pc[a] \notin {"connect", "dial"}

\* After m_stop nobody connects, and once the disconnection was asked for the client
\* is disconnected or about to be.
StopNoDial == stop => \A a \in Actors : pc[a] # "dial"
Closed == dtor = "join" /\ cur # 0 => st[cur] = "Disconnected" \/ closing[cur] = "asked"

Sequential ==
    /\ OneAtATime
    /\ RetiredUnwind
    /\ DestroyedQuiet
    /\ RetireIdle
    /\ SetupQuiet
    /\ ResetQuiet
    /\ StopNoDial
    /\ Closed

IInv ==
    /\ Types
    /\ Places
    /\ Unborn
    /\ HandlersBorn
    /\ CodesFinal
    /\ dtor # "no" => stop
    /\ CreditsStatusNotMissed
    /\ ~overlapped => Sequential

-----------------------------------------------------------------------------
(* Pruning *)

LEMMA Smallest ==
  ASSUME NEW T, T \subseteq Nat, T # {}
  PROVE  \E x \in T : \A y \in T : x <= y
<1>1. PICK x \in T : \A y \in T : ~(<<y, x>> \in OpToRel(<, Nat))
  BY NatLessThanWellFounded, WFMin
<1>2. ASSUME NEW y \in T PROVE x <= y
  <2>1. <<y, x>> \in Nat \X Nat /\ <<y, x>>[1] = y /\ <<y, x>>[2] = x
    BY <1>2
  <2>2. ~(y < x)
    BY <1>1, <2>1, Zenon DEF OpToRel
  <2>3. x \in Nat /\ y \in Nat
    OBVIOUS
  <2> QED BY <2>2, <2>3
<1> QED BY <1>2

\* What pruning keeps is a tail of the retired clients, and all before it are old.
LEMMA KeptShape ==
  ASSUME NEW R, retired \in Seq(R)
  PROVE  /\ Kept \in Seq(R)
         /\ \A i \in DOMAIN Kept : \E j \in DOMAIN retired : Kept[i] = retired[j]
         /\ \A j \in DOMAIN retired : ~retired[j].old => \E i \in DOMAIN Kept : Kept[i] = retired[j]
<1> DEFINE young == {i \in DOMAIN retired : ~retired[i].old}
           first == IF young = {} THEN Len(retired) + 1
                                  ELSE CHOOSE i \in young : \A j \in young : i <= j
<1>1. first \in 1..(Len(retired) + 1) /\ \A j \in young : first <= j
  <2>1. CASE young = {}
    BY <2>1
  <2>2. CASE young # {}
    <3>1. young \subseteq Nat
      OBVIOUS
    <3>2. \E i \in young : \A j \in young : i <= j
      BY <2>2, <3>1, Smallest
    <3>3. first \in young /\ \A j \in young : first <= j
      BY <2>2, <3>2
    <3>4. first \in DOMAIN retired /\ DOMAIN retired = 1..Len(retired)
      BY <3>3
    <3> HIDE DEF young, first
    <3> QED BY <3>3, <3>4
  <2> QED BY <2>1, <2>2
<1>2. Kept = SubSeq(retired, first, Len(retired))
  BY DEF Kept
<1> HIDE DEF first
<1>3. Kept \in Seq(R) /\ Len(Kept) = Len(retired) - first + 1
  BY <1>1, <1>2
<1>4. \A i \in DOMAIN Kept : Kept[i] = retired[first + i - 1] /\ first + i - 1 \in DOMAIN retired
  BY <1>1, <1>2, <1>3
<1>5. ASSUME NEW j \in DOMAIN retired, ~retired[j].old
      PROVE  \E i \in DOMAIN Kept : Kept[i] = retired[j]
  <2>1. first <= j
    BY <1>1, <1>5
  <2>2. j - first + 1 \in DOMAIN Kept
    BY <1>1, <1>3, <2>1
  <2>3. Kept[j - first + 1] = retired[j]
    BY <1>1, <1>4, <2>1, <2>2
  <2> QED BY <2>2, <2>3
<1> QED BY <1>3, <1>4, <1>5

KeptIds == {Kept[i].id : i \in DOMAIN Kept}

Entry == [id: Clients, old: BOOLEAN]

\* The clients pruned are old ones.
LEMMA PrunedOld ==
  ASSUME retired \in Seq(Entry)
  PROVE  /\ KeptIds \subseteq RetiredIds
         /\ Pruned = RetiredIds \ KeptIds
         /\ \A c \in Pruned : \E j \in DOMAIN retired : retired[j].id = c /\ retired[j].old
<1>1. \A i \in DOMAIN Kept : \E j \in DOMAIN retired : Kept[i] = retired[j]
  BY KeptShape
<1>2. \A j \in DOMAIN retired : ~retired[j].old => \E i \in DOMAIN Kept : Kept[i] = retired[j]
  BY KeptShape
<1>3. KeptIds \subseteq RetiredIds
  BY <1>1 DEF KeptIds, RetiredIds
<1>4. Pruned = RetiredIds \ KeptIds
  BY DEF Pruned, KeptIds
<1>5. ASSUME NEW c \in Pruned
      PROVE  \E j \in DOMAIN retired : retired[j].id = c /\ retired[j].old
  <2>1. PICK j \in DOMAIN retired : retired[j].id = c
    BY <1>4, <1>5 DEF RetiredIds
  <2>2. ASSUME ~retired[j].old PROVE FALSE
    BY <1>2, <1>4, <1>5, <2>1, <2>2 DEF KeptIds
  <2> QED BY <2>1, <2>2
<1> QED BY <1>3, <1>4, <1>5

-----------------------------------------------------------------------------
(* What a step does to the clients' places *)

PlaceStays == UNCHANGED <<cur, created, retired, destroyed>>

Prunes == PruneRetiredCentrifugoClients /\ UNCHANGED <<cur, created>>

Retires ==
    /\ cur # 0 /\ cur' = 0 /\ created' = created
    /\ retired' = Append(Kept, [id |-> cur, old |-> FALSE])
    /\ destroyed' = destroyed \cup Pruned

Assigns ==
    /\ created < MaxClients
    /\ created' = created + 1 /\ cur' = created + 1
    /\ destroyed' = IF cur = 0 THEN destroyed ELSE destroyed \cup {cur}
    /\ retired' = retired

\* No onConnected is queued for c, and the strand is not inside a callback of it.
Free(c) == c \notin greeting /\ frame # c

Ages(i) ==
    /\ closing[retired[i].id] = "none" /\ Free(retired[i].id)
    /\ retired' = [retired EXCEPT ![i].old = TRUE]
    /\ UNCHANGED <<cur, created, destroyed, greeting, frame>>

PlaceStep ==
    PlaceStays \/ Prunes \/ Retires \/ Assigns \/ \E i \in DOMAIN retired : Ages(i)

LEMMA RetiredAfter ==
  ASSUME Places, created \in 0..MaxClients, PlaceStep
  PROVE  /\ retired' \in Seq(Entry)
         /\ \A k \in DOMAIN retired' :
              \/ \E j \in DOMAIN retired : retired'[k] = retired[j]
              \/ Retires /\ retired'[k] = [id |-> cur, old |-> FALSE]
              \/ \E j \in DOMAIN retired :
                    /\ retired'[k].id = retired[j].id
                    /\ closing[retired[j].id] = "none" /\ Free(retired[j].id)
                    /\ UNCHANGED <<greeting, frame>>
<1>1. retired \in Seq(Entry)
  BY DEF Places, Entry
<1>2. /\ Kept \in Seq(Entry)
      /\ \A i \in DOMAIN Kept : \E j \in DOMAIN retired : Kept[i] = retired[j]
  BY <1>1, KeptShape
<1>3. CASE PlaceStays \/ Assigns
  BY <1>1, <1>3 DEF PlaceStays, Assigns
<1>4. CASE Prunes
  BY <1>2, <1>4 DEF Prunes, PruneRetiredCentrifugoClients
<1>5. CASE Retires
  <2>1. cur \in Clients
    BY <1>5 DEF Retires, Places, Clients
  <2> PICK e : e = [id |-> cur, old |-> FALSE]
    OBVIOUS
  <2>2. e \in Entry
    BY <2>1 DEF Entry
  <2>3. retired' = Append(Kept, e)
    BY <1>5 DEF Retires
  <2>4. retired' \in Seq(Entry)
    BY <1>2, <2>2, <2>3
  <2>5. \A k \in DOMAIN retired' : (k \in DOMAIN Kept /\ retired'[k] = Kept[k]) \/ retired'[k] = e
    BY <1>2, <2>2, <2>3
  <2> QED BY <1>2, <1>5, <2>4, <2>5
<1>6. ASSUME NEW i \in DOMAIN retired, Ages(i)
      PROVE  /\ retired' \in Seq(Entry)
             /\ \A k \in DOMAIN retired' :
                  \/ \E j \in DOMAIN retired : retired'[k] = retired[j]
                  \/ \E j \in DOMAIN retired :
                       /\ retired'[k].id = retired[j].id
                       /\ closing[retired[j].id] = "none" /\ Free(retired[j].id)
                       /\ UNCHANGED <<greeting, frame>>
  <2> PICK e : e = [retired[i] EXCEPT !.old = TRUE]
    OBVIOUS
  <2>1. retired[i] \in Entry
    BY <1>1
  <2>2. e \in Entry /\ e.id = retired[i].id
    BY <2>1 DEF Entry
  <2>3. retired' = [retired EXCEPT ![i] = e]
    BY <1>6 DEF Ages
  <2>4. retired' \in Seq(Entry) /\ DOMAIN retired' = DOMAIN retired
    BY <1>1, <2>2, <2>3
  <2>5. \A k \in DOMAIN retired : retired'[k] = IF k = i THEN e ELSE retired[k]
    BY <1>1, <2>3
  <2> QED BY <1>6, <2>2, <2>4, <2>5 DEF Ages
<1> QED BY <1>3, <1>4, <1>5, <1>6 DEF PlaceStep

LEMMA IdsAfter ==
  ASSUME Places, created \in 0..MaxClients, PlaceStep
  PROVE  /\ PlaceStays \/ Assigns \/ (\E i \in DOMAIN retired : Ages(i))
              => RetiredIds' = RetiredIds
         /\ Prunes => RetiredIds' = KeptIds
         /\ Retires => RetiredIds' = KeptIds \cup {cur}
<1>1. retired \in Seq(Entry) /\ Kept \in Seq(Entry)
  BY KeptShape DEF Places, Entry
<1>2. PlaceStays \/ Assigns => RetiredIds' = RetiredIds
  BY DEF PlaceStays, Assigns, RetiredIds
<1>3. ASSUME NEW i \in DOMAIN retired, Ages(i) PROVE RetiredIds' = RetiredIds
  <2> PICK e : e = [retired[i] EXCEPT !.old = TRUE]
    OBVIOUS
  <2>0. retired[i] \in Entry
    BY <1>1
  <2>1. e.id = retired[i].id /\ e \in Entry
    BY <2>0 DEF Entry
  <2>2. retired' = [retired EXCEPT ![i] = e]
    BY <1>3 DEF Ages
  <2>3. /\ DOMAIN retired' = DOMAIN retired
        /\ \A k \in DOMAIN retired : retired'[k].id = retired[k].id
    BY <1>1, <2>1, <2>2
  <2> QED BY <2>3 DEF RetiredIds
<1>4. Prunes => RetiredIds' = KeptIds
  BY DEF Prunes, PruneRetiredCentrifugoClients, RetiredIds, KeptIds
<1>5. ASSUME Retires PROVE RetiredIds' = KeptIds \cup {cur}
  <2>1. cur \in Clients
    BY <1>5 DEF Retires, Places, Clients
  <2> PICK e : e = [id |-> cur, old |-> FALSE]
    OBVIOUS
  <2>2. e \in Entry /\ e.id = cur
    BY <2>1 DEF Entry
  <2>3. retired' = Append(Kept, e)
    BY <1>5 DEF Retires
  <2>4. /\ DOMAIN retired' = 1..(Len(Kept) + 1) /\ DOMAIN Kept = 1..Len(Kept)
        /\ retired'[Len(Kept) + 1] = e /\ Len(Kept) \in Nat
        /\ \A k \in DOMAIN Kept : retired'[k] = Kept[k]
    BY <1>1, <2>2, <2>3
  <2>5. ASSUME NEW k \in DOMAIN retired' PROVE retired'[k].id \in KeptIds \cup {cur}
    <3>1. CASE k \in DOMAIN Kept
      BY <2>4, <3>1 DEF KeptIds
    <3>2. CASE k \notin DOMAIN Kept
      BY <2>2, <2>4, <3>2
    <3> QED BY <3>1, <3>2
  <2>6. ASSUME NEW c \in KeptIds \cup {cur} PROVE \E k \in DOMAIN retired' : retired'[k].id = c
    <3>1. CASE c = cur
      BY <2>2, <2>4, <3>1
    <3>2. CASE c \in KeptIds
      <4>1. PICK k \in DOMAIN Kept : Kept[k].id = c
        BY <3>2 DEF KeptIds
      <4> QED BY <2>4, <4>1
    <3> QED BY <3>1, <3>2
  <2> QED BY <2>5, <2>6 DEF RetiredIds
<1> QED BY <1>2, <1>3, <1>4, <1>5

LEMMA PlacesKept ==
  ASSUME Places, created \in 0..MaxClients, PlaceStep
  PROVE  Places' /\ created' \in 0..MaxClients
<1>1. retired' \in Seq(Entry)
  BY RetiredAfter
<1>2. KeptIds \subseteq RetiredIds /\ Pruned = RetiredIds \ KeptIds
  BY PrunedOld DEF Places, Entry
<1>3. CASE PlaceStays \/ \E i \in DOMAIN retired : Ages(i)
  <2>1. RetiredIds' = RetiredIds /\ UNCHANGED <<cur, created, destroyed>>
    BY <1>3, IdsAfter DEF PlaceStays, Ages
  <2> QED BY <1>1, <2>1 DEF Places, Entry
<1>4. CASE Prunes
  <2>1. RetiredIds' = KeptIds
    BY <1>4, IdsAfter
  <2> QED BY <1>1, <1>2, <1>4, <2>1 DEF Places, Entry, Prunes, PruneRetiredCentrifugoClients
<1>5. CASE Retires
  <2>1. RetiredIds' = KeptIds \cup {cur}
    BY <1>5, IdsAfter
  <2> QED BY <1>1, <1>2, <1>5, <2>1 DEF Places, Entry, Retires
<1>6. CASE Assigns
  <2>1. RetiredIds' = RetiredIds
    BY <1>6, IdsAfter
  <2> QED BY <1>1, <1>6, <2>1, CentrifugoAssumption DEF Places, Entry, Assigns
<1> QED BY <1>3, <1>4, <1>5, <1>6 DEF PlaceStep

-----------------------------------------------------------------------------
(* What a step does, as far as the invariant can tell *)

SameClients == UNCHANGED <<st, closing>>
SameTimers  == Handlers' \subseteq Handlers \cup {NoTimer}
SameNet     == UNCHANGED <<stop, dtor>>
Moves(a, to) == pc' = [pc EXCEPT ![a] = to]

\* No actor is inside, none but a is, unless two met.
Alone  == ~overlapped' => \A b \in Actors : ~Busy(b)
Only(a) == ~overlapped' => \A b \in Actors \ {a} : ~Busy(b)

\* The library makes or loses a connection, or the server closes it.
Links(c) ==
    /\ st[c] # "Disconnected" /\ closing[c] = "none"
    /\ closing' = closing
    /\ \E x \in {"Connecting", "Connected"} : st' = [st EXCEPT ![c] = x]
    /\ PlaceStays /\ SameTimers /\ SameNet /\ pc' = pc

Drops(c) ==
    /\ st[c] # "Disconnected"
    /\ \E x \in {"3500", "other"} : closing' = [closing EXCEPT ![c] = x]
    /\ st' = [st EXCEPT ![c] = "Disconnected"]
    /\ PlaceStays /\ SameTimers /\ SameNet /\ pc' = pc

\* The client is asked to disconnect, by an actor or by ~Net.
HangsUp ==
    /\ Disconnect(cur) /\ PlaceStays /\ SameTimers /\ stop' = stop
    /\ \/ dtor' = dtor /\ \E a \in Actors : Moves(a, "idle")
       \/ dtor = "posted" /\ dtor' = "join" /\ pc' = pc

\* The callback of a disconnection.
CalledBack(c) ==
    /\ closing' = [closing EXCEPT ![c] = "none"]
    /\ st' = [st EXCEPT ![c] = "Disconnected"]
    /\ \/ PlaceStays /\ SameTimers
       \/ PlaceStays /\ c = cur /\ Handlers' \subseteq Handlers \cup {[kind |-> "reset", id |-> c]}
       \/ Retires /\ c = cur /\ Handlers' \subseteq Handlers \cup {[kind |-> "rebuild", id |-> 0]}
    /\ SameNet /\ pc' = pc /\ Alone

Dials(a) ==
    /\ pc[a] = "dial" /\ Moves(a, "idle")
    /\ cur # 0 /\ closing[cur] = "none"
    /\ st' = [st EXCEPT ![cur] = "Connecting"] /\ closing' = closing
    /\ PlaceStays /\ SameTimers /\ SameNet

Idles(a) == Moves(a, "idle") /\ SameClients /\ PlaceStays /\ SameTimers /\ SameNet

Enters(a, to) ==
    /\ pc[a] = "idle" /\ Moves(a, to) /\ Only(a)
    /\ to = "setup" => cur = 0 \/ \E h \in expired : h.kind = "reset" /\ h.id = cur
    /\ SameClients /\ PlaceStays /\ SameTimers /\ SameNet

Walks(a, to) ==
    /\ Busy(a) /\ Moves(a, to)
    /\ to = "retire" => st[cur] = "Disconnected"
    /\ to = "setup" => cur = 0
    /\ to = "dial" => pc[a] = "connect" /\ ~stop
    /\ SameClients /\ PlaceStays /\ SameTimers /\ SameNet

Retiring(a) ==
    /\ pc[a] = "retire" /\ Moves(a, "setup")
    /\ SameClients /\ Retires /\ SameTimers /\ SameNet

SetsUp(a) ==
    /\ pc[a] = "setup" /\ Moves(a, "assign")
    /\ SameClients /\ Prunes /\ SameTimers /\ SameNet

Assigning(a) ==
    /\ pc[a] = "assign" /\ Moves(a, "connect")
    /\ SameClients /\ Assigns /\ SameTimers /\ SameNet

Parses(a) ==
    /\ pc[a] = "idle" /\ Moves(a, "parsed")
    /\ SameClients /\ PlaceStays /\ SameTimers /\ SameNet

Still ==
    /\ PlaceStays \/ Prunes \/ \E i \in DOMAIN retired : Ages(i)
    /\ SameClients /\ SameTimers /\ SameNet /\ pc' = pc

Stops ==
    /\ SameClients /\ PlaceStays /\ SameTimers /\ pc' = pc
    /\ dtor' = "stopping" /\ stop'
    /\ ~overlapped' => \A a \in Actors : pc[a] # "dial"

Posts ==
    /\ SameClients /\ PlaceStays /\ SameTimers /\ pc' = pc /\ stop' = stop
    /\ dtor = "stopping"
    /\ dtor' = "posted" \/ (dtor' = "join" /\ cur = 0)

ActorEffect(a) ==
    \/ Dials(a) \/ Idles(a) \/ Retiring(a) \/ SetsUp(a) \/ Assigning(a) \/ Parses(a)
    \/ \E to \in {"look", "setup"} : Enters(a, to)
    \/ \E to \in {"flag", "disconnect", "retire", "setup", "dial"} : Walks(a, to)

Effect ==
    \/ \E a \in Actors : ActorEffect(a)
    \/ \E c \in Clients : Links(c) \/ Drops(c) \/ CalledBack(c)
    \/ HangsUp \/ Still \/ Stops \/ Posts

LEMMA StepEffects ==
  ASSUME Types, NEW a \in Actors, Step(a)
  PROVE  Effect /\ (~overlapped' => ~overlapped)
<1> USE DEF Go, SameClients, SameNet, Moves, PlaceStays, client, status
<1>1. ASSUME timer' = timer, expired' = expired PROVE SameTimers
  BY <1>1 DEF SameTimers, Handlers
<1>2. CASE Look(a)
  <2>1. \E to \in {"flag", "retire", "setup"} : Walks(a, to)
    BY <1>1, <1>2 DEF Look, Walks, Busy
  <2> QED BY <1>2, <2>1 DEF Look, Effect, ActorEffect
<1>3. CASE Retire(a)
  <2>1. CASE cur = 0
    <3>1. Walks(a, "setup")
      BY <1>1, <1>3, <2>1 DEF Retire, RetireCentrifugoClient, Walks, Busy
    <3> QED BY <1>3, <3>1 DEF Retire, Effect, ActorEffect
  <2>2. CASE cur # 0
    <3>1. Retiring(a)
      BY <1>1, <1>3, <2>2 DEF Retire, RetireCentrifugoClient, Retiring, Retires
    <3> QED BY <1>3, <3>1 DEF Retire, Effect, ActorEffect
  <2> QED BY <2>1, <2>2
<1>4. CASE Flag(a)
  <2>1. Walks(a, "disconnect")
    BY <1>1, <1>4 DEF Flag, Walks, Busy
  <2> QED BY <1>4, <2>1 DEF Flag, Effect, ActorEffect
<1>5. CASE AskDisconnect(a)
  <2>1. HangsUp
    BY <1>1, <1>5 DEF AskDisconnect, HangsUp
  <2> QED BY <1>5, <2>1 DEF AskDisconnect, Effect
<1>6. CASE Setup(a)
  <2>1. SetsUp(a)
    BY <1>1, <1>6 DEF Setup, SetsUp, Prunes
  <2> QED BY <1>6, <2>1 DEF Setup, Effect, ActorEffect
<1>7. CASE Assign(a)
  <2>1. Assigning(a)
    BY <1>1, <1>7 DEF Assign, Assigning, Assigns
  <2> QED BY <1>7, <2>1 DEF Assign, Effect, ActorEffect
<1>8. CASE CentrifugoConnect(a)
  <2>1. Idles(a) \/ Walks(a, "dial")
    BY <1>1, <1>8 DEF CentrifugoConnect, Idles, Walks, Busy
  <2> QED BY <1>8, <2>1 DEF CentrifugoConnect, Effect, ActorEffect
<1>9. CASE Dial(a)
  <2>1. Idles(a) \/ Dials(a)
    BY <1>1, <1>9 DEF Dial, Idles, Dials
  <2> QED BY <1>9, <2>1 DEF Dial, Effect, ActorEffect
<1>10. CASE ParsedPaired(a)
  <2>1. Idles(a)
    BY <1>1, <1>10 DEF ParsedPaired, Idles
  <2> QED BY <1>10, <2>1 DEF ParsedPaired, Effect, ActorEffect
<1> QED BY <1>2, <1>3, <1>4, <1>5, <1>6, <1>7, <1>8, <1>9, <1>10 DEF Step

LEMMA EnterEffect ==
  ASSUME NEW a \in Actors, NEW to, Enter(a, to)
  PROVE  pc[a] = "idle" /\ Moves(a, to) /\ Only(a) /\ (~overlapped' => ~overlapped)
<1>1. pc[a] = "idle" /\ Moves(a, to)
  BY DEF Enter, Moves
<1>2. Only(a) /\ (~overlapped' => ~overlapped)
  BY Zenon DEF Enter, Only
<1> QED BY <1>1, <1>2

LEMMA RestartEffects ==
  ASSUME NEW a \in Actors, Restart(a), UNCHANGED status \/ OnUnpaired
  PROVE  Effect /\ (~overlapped' => ~overlapped)
<1>1. SameTimers
  BY DEF Restart, SameTimers, Handlers
<1>2. Enter(a, "look")
  BY DEF Restart
<1>3. Enters(a, "look")
  BY <1>1, <1>2, EnterEffect
     DEF Restart, Enters, SameClients, SameNet, PlaceStays, client
<1> QED BY <1>2, <1>3, EnterEffect DEF Effect, ActorEffect

LEMMA PoolEffects ==
  ASSUME Types, NEW a \in Pool,
         \/ \E p \in BOOLEAN : ParseScorbitronObject(a, p)
         \/ \E h \in expired : TimerHandler(a, h)
  PROVE  Effect /\ (~overlapped' => ~overlapped)
<1> USE DEF SameClients, SameNet, PlaceStays, client, status
<1>0. a \in Actors
  BY DEF Actors
<1>1. ASSUME NEW p \in BOOLEAN, ParseScorbitronObject(a, p)
      PROVE  Effect /\ (~overlapped' => ~overlapped)
  <2>1. SameTimers
    BY <1>1 DEF ParseScorbitronObject, SameTimers, Handlers
  <2>2. Parses(a) \/ Still
    BY <1>1, <2>1 DEF ParseScorbitronObject, Go, Parses, Still, Moves
  <2>3. ~overlapped' => ~overlapped
    BY <1>1 DEF ParseScorbitronObject
  <2> QED BY <1>0, <2>2, <2>3 DEF Effect, ActorEffect
<1>2. ASSUME NEW h \in expired, TimerHandler(a, h)
      PROVE  Effect /\ (~overlapped' => ~overlapped)
  <2>1. SameTimers
    BY <1>2 DEF TimerHandler, SameTimers, Handlers
  <2>2. SameClients /\ PlaceStays /\ SameNet
    BY <1>2 DEF TimerHandler
  <2>3. CASE HandlerSkips(h)
    <3>1. Still /\ overlapped' = overlapped
      BY <1>2, <2>1, <2>2, <2>3 DEF TimerHandler, Still
    <3> QED BY <3>1 DEF Effect
  <2>4. CASE ~HandlerSkips(h)
    <3>1. Enter(a, "setup")
      BY <1>2, <2>4 DEF TimerHandler
    <3>2. cur = 0 \/ (h.kind = "reset" /\ h.id = cur /\ h \in expired)
      BY <2>4 DEF HandlerSkips, Types, Handler
    <3>3. Enters(a, "setup")
      BY <1>0, <2>1, <2>2, <3>1, <3>2, EnterEffect DEF Enters
    <3> QED BY <1>0, <3>1, <3>3, EnterEffect DEF Effect, ActorEffect
  <2> QED BY <2>3, <2>4
<1> QED BY <1>1, <1>2

LEMMA LibraryEffects ==
  ASSUME Types, NEW c \in Clients, Library(c)
  PROVE  Effect /\ (~overlapped' => ~overlapped)
<1> USE DEF SameNet, PlaceStays, client, status
<1>1. SameTimers /\ SameNet /\ PlaceStays /\ pc' = pc /\ (~overlapped' => ~overlapped)
  <2>1. /\ timer' = timer /\ expired' = expired /\ overlapped' = overlapped
        /\ SameNet /\ PlaceStays /\ pc' = pc
    BY DEF Library, Establish, LinkLost, Drop
  <2> QED BY <2>1 DEF SameTimers, Handlers
<1>2. CASE Establish(c) \/ LinkLost(c)
  <2>1. Links(c)
    BY <1>1, <1>2 DEF Establish, LinkLost, Links
  <2> QED BY <1>1, <2>1 DEF Effect
<1>3. ASSUME NEW code \in {"3500", "other"}, Drop(c, code)
      PROVE  Effect
  <2>1. Drops(c)
    BY <1>1, <1>3 DEF Drop, Drops
  <2> QED BY <2>1 DEF Effect
<1> QED BY <1>1, <1>2, <1>3 DEF Library

LEMMA StrandEffect ==
  ASSUME NEW c, OnStrand(c)
  PROVE  Alone /\ (~overlapped' => ~overlapped) /\ pc' = pc
<1>1. ~Busy(Strand) /\ pc' = pc
  BY DEF OnStrand, Begins, Busy
<1>2. ~overlapped' => ~overlapped /\ \A b \in Pool : ~Busy(b)
  BY Zenon DEF OnStrand
<1> QED BY <1>1, <1>2 DEF Alone, Actors

LEMMA CallbackEffects ==
  ASSUME Types, NEW c \in Clients, Callbacks(c)
  PROVE  Effect /\ (~overlapped' => ~overlapped)
<1> USE DEF SameNet, PlaceStays, client, status
<1>1. CASE OnConnected(c)
  <2>1. SameTimers /\ SameNet /\ SameClients /\ OnStrand(c)
    BY <1>1 DEF OnConnected, SameTimers, Handlers, SameClients
  <2>2. PlaceStays \/ Prunes
    BY <1>1 DEF OnConnected, Prunes
  <2>3. Still
    BY <2>1, <2>2, StrandEffect DEF Still
  <2> QED BY <2>1, <2>3, StrandEffect DEF Effect
<1>2. CASE OnDisconnected(c)
  <2>1. /\ SameNet /\ OnStrand(c) /\ created' = created /\ expired' = expired
        /\ closing' = [closing EXCEPT ![c] = "none"]
        /\ st' = [st EXCEPT ![c] = "Disconnected"]
    BY <1>2 DEF OnDisconnected
  <2>2. \/ PlaceStays /\ timer' = timer
        \/ PlaceStays /\ c = cur /\ timer' = [kind |-> "reset", id |-> c]
        \/ Retires /\ c = cur /\ timer' = [kind |-> "rebuild", id |-> 0]
    <3>1. c # 0
      BY DEF Clients
    <3>2. CASE c # cur \/ stop
      BY <1>2, <3>2 DEF OnDisconnected
    <3>3. CASE c = cur /\ ~stop /\ pending
      <4>1. RetireCentrifugoClient /\ timer' = [kind |-> "rebuild", id |-> 0]
        BY <1>2, <3>3 DEF OnDisconnected
      <4>2. Retires
        BY <2>1, <3>1, <3>3, <4>1 DEF RetireCentrifugoClient, Retires
      <4> QED BY <3>3, <4>1, <4>2
    <3>4. CASE c = cur /\ ~stop /\ ~pending
      BY <1>2, <3>4 DEF OnDisconnected
    <3> QED BY <3>2, <3>3, <3>4
  <2>3. \/ PlaceStays /\ SameTimers
        \/ PlaceStays /\ c = cur /\ Handlers' \subseteq Handlers \cup {[kind |-> "reset", id |-> c]}
        \/ Retires /\ c = cur /\ Handlers' \subseteq Handlers \cup {[kind |-> "rebuild", id |-> 0]}
    BY <2>1, <2>2 DEF SameTimers, Handlers
  <2>4. CalledBack(c)
    BY <2>1, <2>3, StrandEffect DEF CalledBack
  <2> QED BY <2>1, <2>4, StrandEffect DEF Effect
<1> QED BY <1>1, <1>2 DEF Callbacks

LEMMA OtherEffects ==
  ASSUME Types,
         \/ TimerExpires \/ GracePasses \/ Stop \/ PostDisconnect \/ ShutdownDisconnect
         \/ CallbackReturns
  PROVE  Effect /\ (~overlapped' => ~overlapped)
<1> USE DEF SameNet, PlaceStays, SameClients, client, status
<1>1. CASE TimerExpires
  <2>1. Still
    BY <1>1 DEF TimerExpires, Still, SameTimers, Handlers
  <2> QED BY <1>1, <2>1 DEF TimerExpires, Effect
<1>2. CASE GracePasses
  <2>1. \E i \in DOMAIN retired : Ages(i)
    BY <1>2 DEF GracePasses, Ages, Free
  <2>2. Still
    BY <1>2, <2>1 DEF GracePasses, Still, SameTimers, Handlers
  <2> QED BY <1>2, <2>2 DEF GracePasses, Effect
<1>3. CASE Stop
  <2>1. ~overlapped' => ~overlapped /\ \A a \in Actors : pc[a] # "dial"
    BY <1>3, Zenon DEF Stop
  <2>2. stop'
    BY <1>3, Zenon DEF Stop
  <2>3. Stops
    BY <1>3, <2>1, <2>2 DEF Stop, Stops, SameTimers, Handlers
  <2> QED BY <2>1, <2>3 DEF Effect
<1>4. CASE PostDisconnect
  <2>1. Posts
    BY <1>4 DEF PostDisconnect, Posts, SameTimers, Handlers
  <2> QED BY <1>4, <2>1 DEF PostDisconnect, Effect
<1>5. CASE ShutdownDisconnect
  <2>1. HangsUp
    BY <1>5 DEF ShutdownDisconnect, HangsUp, SameTimers, Handlers
  <2> QED BY <1>5, <2>1 DEF ShutdownDisconnect, Effect
<1>6. CASE CallbackReturns
  <2>1. Still
    BY <1>6 DEF CallbackReturns, Still, SameTimers, Handlers
  <2> QED BY <1>6, <2>1 DEF CallbackReturns, Effect
<1> QED BY <1>1, <1>2, <1>3, <1>4, <1>5, <1>6

LEMMA NextEffects ==
  ASSUME Types, Next
  PROVE  Effect /\ (~overlapped' => ~overlapped)
<1>1. ASSUME NEW a \in Actors, Step(a) PROVE Effect /\ (~overlapped' => ~overlapped)
  BY <1>1, StepEffects
<1>2. ASSUME NEW a \in Pool, InitializeConnectionState(a)
      PROVE  Effect /\ (~overlapped' => ~overlapped)
  BY <1>2, RestartEffects DEF InitializeConnectionState, Actors
<1>3. CASE OnPaired \/ OnUnpaired
  BY <1>3, RestartEffects DEF OnPaired, OnUnpaired, Actors
<1> QED BY <1>1, <1>2, <1>3, PoolEffects, LibraryEffects, CallbackEffects, OtherEffects DEF Next

-----------------------------------------------------------------------------
(* The parts that hold whatever the actors do *)

LEMMA EffectPlaces ==
  ASSUME Effect
  PROVE  PlaceStep
  BY DEF Effect, ActorEffect, Dials, Idles, Retiring, SetsUp, Assigning, Parses, Enters, Walks,
         Links, Drops, CalledBack, HangsUp, Still, Stops, Posts, PlaceStep

\* At most one actor moves.
LEMMA OneMover ==
  ASSUME Effect
  PROVE  pc' = pc \/ \E a \in Actors : \E to \in Stages : Moves(a, to)
<1>1. \A x \in {"idle", "look", "setup", "flag", "disconnect", "retire", "dial", "assign",
                "connect", "parsed"} : x \in Stages
  BY DEF Stages
<1>2. ASSUME NEW a \in Actors, ActorEffect(a) PROVE \E to \in Stages : Moves(a, to)
  BY <1>1, <1>2 DEF ActorEffect, Dials, Idles, Retiring, SetsUp, Assigning, Parses, Enters, Walks
<1> QED BY <1>1, <1>2 DEF Effect, Links, Drops, CalledBack, HangsUp, Still, Stops, Posts

LEMMA PcAfter ==
  ASSUME Types, Effect
  PROVE  pc' \in [Actors -> Stages]
<1>1. pc \in [Actors -> Stages]
  BY DEF Types
<1> QED BY <1>1, OneMover DEF Moves

\* How the state of the clients changes.
ClientStep ==
    \/ SameClients
    \/ \E c \in Clients : Links(c) \/ Drops(c) \/ CalledBack(c)
    \/ Disconnect(cur) /\ PlaceStays
    \/ \E a \in Actors : Dials(a)

LEMMA EffectClients ==
  ASSUME Effect
  PROVE  ClientStep
  BY DEF Effect, ActorEffect, Idles, Retiring, SetsUp, Assigning, Parses, Enters, Walks,
         HangsUp, Still, Stops, Posts, ClientStep

LEMMA ClientsAfter ==
  ASSUME Types, Places, Unborn, CodesFinal, ClientStep, PlaceStep
  PROVE  /\ st' \in [Clients -> {"Disconnected", "Connecting", "Connected"}]
         /\ closing' \in [Clients -> Codes \cup {"none"}]
         /\ Unborn'
         /\ CodesFinal'
<1>1. created \in Nat /\ created' \in Nat /\ created <= created'
  BY PlacesKept DEF Types, PlaceStep, PlaceStays, Prunes, Retires, Assigns, Ages
<1>2. cur # 0 => cur \in Clients /\ cur <= created
  BY DEF Places, Types, Clients
<1>3. CASE SameClients
  BY <1>1, <1>3 DEF SameClients, Types, Unborn, CodesFinal, Clients
<1>4. ASSUME NEW c \in Clients, Links(c)
      PROVE  /\ st' \in [Clients -> {"Disconnected", "Connecting", "Connected"}]
             /\ closing' \in [Clients -> Codes \cup {"none"}]
             /\ Unborn' /\ CodesFinal'
  BY <1>1, <1>4 DEF Links, Types, Unborn, CodesFinal, Clients
<1>5. ASSUME NEW c \in Clients, Drops(c)
      PROVE  /\ st' \in [Clients -> {"Disconnected", "Connecting", "Connected"}]
             /\ closing' \in [Clients -> Codes \cup {"none"}]
             /\ Unborn' /\ CodesFinal'
  BY <1>1, <1>5 DEF Drops, Types, Unborn, CodesFinal, Clients, Codes
<1>6. ASSUME NEW c \in Clients, CalledBack(c)
      PROVE  /\ st' \in [Clients -> {"Disconnected", "Connecting", "Connected"}]
             /\ closing' \in [Clients -> Codes \cup {"none"}]
             /\ Unborn' /\ CodesFinal'
  BY <1>1, <1>6 DEF CalledBack, Types, Unborn, CodesFinal, Clients
<1>7. CASE Disconnect(cur) /\ PlaceStays
  BY <1>1, <1>2, <1>7 DEF Disconnect, PlaceStays, Types, Unborn, CodesFinal, Clients, Codes
<1>8. ASSUME NEW a \in Actors, Dials(a)
      PROVE  /\ st' \in [Clients -> {"Disconnected", "Connecting", "Connected"}]
             /\ closing' \in [Clients -> Codes \cup {"none"}]
             /\ Unborn' /\ CodesFinal'
  BY <1>1, <1>2, <1>8 DEF Dials, PlaceStays, Types, Unborn, CodesFinal, Clients
<1> QED BY <1>3, <1>4, <1>5, <1>6, <1>7, <1>8 DEF ClientStep

LEMMA HandlersAfter ==
  ASSUME Types, Places, HandlersBorn, Effect
  PROVE  HandlersBorn'
<1>1. created \in Nat /\ created' \in Nat /\ created <= created'
  BY EffectPlaces, PlacesKept DEF Types, PlaceStep, PlaceStays, Prunes, Retires, Assigns, Ages
<1>2. cur # 0 => cur <= created
  BY DEF Places, Types
<1>3. ASSUME NEW h \in Handlers' PROVE h \in Handlers \/ h.id = 0 \/ h.id = cur
  <2>1. CASE SameTimers
    BY <1>3, <2>1 DEF SameTimers, NoTimer
  <2>2. ASSUME NEW c \in Clients, CalledBack(c)
        PROVE  h \in Handlers \/ h.id = 0 \/ h.id = cur
    BY <1>3, <2>1, <2>2 DEF CalledBack
  <2> QED BY <2>1, <2>2 DEF Effect, ActorEffect, Dials, Idles, Retiring, SetsUp, Assigning,
             Parses, Enters, Walks, Links, Drops, HangsUp, Still, Stops, Posts
<1>4. ASSUME NEW h \in Handlers PROVE h.id \in Nat /\ h.id <= created
  BY <1>4 DEF Handlers, HandlersBorn, Types, Handler, NoTimer, Clients
<1>5. cur \in Nat
  BY <1>1 DEF Places
<1> QED BY <1>1, <1>2, <1>3, <1>4, <1>5 DEF HandlersBorn

LEMMA StopAfter ==
  ASSUME Types, dtor # "no" => stop, Effect
  PROVE  dtor' \in {"no", "stopping", "posted", "join"} /\ (dtor' # "no" => stop')
  BY DEF Types, Effect, ActorEffect, Dials, Idles, Retiring, SetsUp, Assigning,
         Parses, Enters, Walks, Links, Drops, CalledBack, HangsUp, Still, Stops, Posts, SameNet

LEMMA RestAfter ==
  ASSUME Types, Places, Next
  PROVE  /\ greeting' \subseteq Clients
         /\ timer' \in Handler \cup {NoTimer}
         /\ expired' \subseteq Handler
         /\ budget' \in [restarts: 0..MaxRestarts, drops: 0..MaxDrops]
<1> USE DEF client, status
<1>1. ASSUME NEW a \in Actors, Step(a) PROVE UNCHANGED <<greeting, timer, expired, budget>>
  BY <1>1 DEF Step, Look, Retire, Flag, AskDisconnect, Setup, Assign, CentrifugoConnect, Dial,
              ParsedPaired
<1>2. ASSUME NEW a \in Actors, Restart(a)
      PROVE  /\ greeting' = greeting /\ expired' = expired /\ timer' = NoTimer
             /\ budget' \in [restarts: 0..MaxRestarts, drops: 0..MaxDrops]
  BY <1>2, CentrifugoAssumption DEF Restart, Types
<1>3. ASSUME NEW a \in Pool, NEW p, ParseScorbitronObject(a, p)
      PROVE  UNCHANGED <<greeting, timer, expired, budget>>
  BY <1>3 DEF ParseScorbitronObject
<1>4. ASSUME NEW a \in Pool, NEW h \in expired, TimerHandler(a, h)
      PROVE  UNCHANGED <<greeting, timer, budget>> /\ expired' \subseteq expired
  BY <1>4 DEF TimerHandler
<1>5. ASSUME NEW c \in Clients, Library(c)
      PROVE  /\ greeting' \subseteq Clients /\ UNCHANGED <<timer, expired>>
             /\ budget' \in [restarts: 0..MaxRestarts, drops: 0..MaxDrops]
  <2>1. CASE Establish(c) \/ LinkLost(c)
    BY <2>1 DEF Establish, LinkLost, Types
  <2>2. ASSUME NEW code \in {"3500", "other"}, Drop(c, code)
        PROVE  /\ UNCHANGED <<greeting, timer, expired>>
               /\ budget' \in [restarts: 0..MaxRestarts, drops: 0..MaxDrops]
    BY <2>2, CentrifugoAssumption DEF Drop, Types
  <2> QED BY <1>5, <2>1, <2>2 DEF Library, Types
<1>6. ASSUME NEW c \in Clients, Callbacks(c)
      PROVE  /\ greeting' \subseteq Clients /\ UNCHANGED <<expired, budget>>
             /\ timer' \in Handler \cup {NoTimer}
  <2>1. [kind |-> "rebuild", id |-> 0] \in Handler /\ [kind |-> "reset", id |-> c] \in Handler
    BY DEF Handler
  <2> QED BY <1>6, <2>1 DEF Callbacks, OnConnected, OnDisconnected, Types
<1>7. CASE TimerExpires
  BY <1>7 DEF TimerExpires, Types
<1>8. CASE GracePasses \/ Stop \/ PostDisconnect \/ ShutdownDisconnect \/ CallbackReturns
  BY <1>8 DEF GracePasses, Stop, PostDisconnect, ShutdownDisconnect, CallbackReturns, Types
<1>9. CASE OnPaired \/ OnUnpaired \/ \E a \in Pool : InitializeConnectionState(a)
  BY <1>2, <1>9 DEF OnPaired, OnUnpaired, InitializeConnectionState, Actors, Types
<1> QED BY <1>1, <1>3, <1>4, <1>5, <1>6, <1>7, <1>8, <1>9 DEF Next, Types

LEMMA TypesKept ==
  ASSUME Types, Places, Unborn, CodesFinal, dtor # "no" => stop, Next
  PROVE  Types'
<1>1. Effect
  BY NextEffects
<1>2. ClientStep /\ PlaceStep
  BY <1>1, EffectClients, EffectPlaces
<1>3. created' \in 0..MaxClients
  BY <1>2, PlacesKept DEF Types
<1> QED BY <1>1, <1>2, <1>3, ClientsAfter, PcAfter, StopAfter, RestAfter DEF Types

-----------------------------------------------------------------------------
(* The credits status *)

\* Somebody is about to ask.
Asking == \E a \in Actors : pc[a] = "parsed"

\* The channel is known and the active client's onConnected has run.
Ready == cur # 0 /\ channel /\ ~stop /\ st[cur] = "Connected" /\ cur \notin greeting

LEMMA CreditsMeans == CreditsStatusNotMissed <=> (Ready /\ ~Asking => requested)
  BY DEF CreditsStatusNotMissed, Ready, Asking

\* Steps after which the client is ready only if it was before.
LEMMA CreditsCalm ==
  ASSUME CreditsStatusNotMissed, Ready' => Ready, ~Asking' => ~Asking,
         requested => requested'
  PROVE  CreditsStatusNotMissed'
<1>1. CreditsStatusNotMissed' <=> (Ready' /\ ~Asking' => requested')
  BY DEF CreditsStatusNotMissed, Ready, Asking
<1> QED BY <1>1, CreditsMeans

LEMMA CreditsKept ==
  ASSUME Types, Places, Unborn, CreditsStatusNotMissed, Next
  PROVE  CreditsStatusNotMissed'
<1> USE DEF client, status
<1>0. CreditsStatusNotMissed' <=> (Ready' /\ ~Asking' => requested')
  BY DEF CreditsStatusNotMissed, Ready, Asking
<1>1. ASSUME NEW a \in Actors, Look(a) \/ Flag(a) \/ Setup(a) \/ CentrifugoConnect(a)
      PROVE  CreditsStatusNotMissed'
  <2>1. /\ UNCHANGED <<cur, st, greeting, channel, stop, requested>>
        /\ \A b \in Actors : pc[b] = "parsed" => pc'[b] = "parsed"
    BY <1>1 DEF Look, Flag, Setup, CentrifugoConnect, Go, Types
  <2> QED BY <2>1, CreditsCalm DEF Ready, Asking
<1>2. ASSUME NEW a \in Actors, Retire(a) PROVE CreditsStatusNotMissed'
  BY <1>0, <1>2 DEF Retire, RetireCentrifugoClient, Ready
<1>3. ASSUME NEW a \in Actors, AskDisconnect(a) PROVE CreditsStatusNotMissed'
  <2>1. /\ UNCHANGED <<cur, greeting, channel, stop, requested>>
        /\ \A b \in Actors : pc[b] = "parsed" => pc'[b] = "parsed"
    BY <1>3 DEF AskDisconnect, Go, Types
  <2>2. cur # 0 /\ st'[cur] = "Connected" => st[cur] = "Connected"
    BY <1>3 DEF AskDisconnect, Disconnect, Types, Places, Clients
  <2> QED BY <2>1, <2>2, CreditsCalm DEF Ready, Asking
<1>4. ASSUME NEW a \in Actors, Assign(a) PROVE CreditsStatusNotMissed'
  <2>1. cur' \in Clients /\ cur' > created /\ st' = st
    BY <1>4, CentrifugoAssumption DEF Assign, Types, Clients
  <2>2. st'[cur'] = "Disconnected"
    BY <2>1 DEF Unborn
  <2> QED BY <1>0, <2>2 DEF Ready
<1>5. ASSUME NEW a \in Actors, Dial(a) PROVE CreditsStatusNotMissed'
  <2>1. /\ UNCHANGED <<cur, greeting, channel, stop, requested>>
        /\ \A b \in Actors : pc[b] = "parsed" => pc'[b] = "parsed"
    BY <1>5 DEF Dial, Go, Types
  <2>2. cur # 0 /\ st'[cur] = "Connected" => st[cur] = "Connected"
    BY <1>5 DEF Dial, Types, Places, Clients
  <2> QED BY <2>1, <2>2, CreditsCalm DEF Ready, Asking
<1>6. ASSUME NEW a \in Actors, ParsedPaired(a) PROVE CreditsStatusNotMissed'
  <2>1. UNCHANGED <<cur, st, greeting, channel, stop>>
    BY <1>6 DEF ParsedPaired
  <2>2. Ready => requested'
    BY <1>6, Zenon DEF ParsedPaired, RequestCreditsStatusIfReady, Ready
  <2> QED BY <1>0, <2>1, <2>2 DEF Ready
<1>7. ASSUME NEW a \in Pool, InitializeConnectionState(a) PROVE CreditsStatusNotMissed'
  <2>1. /\ UNCHANGED <<cur, st, greeting, channel, stop, requested>>
        /\ \A b \in Actors : pc[b] = "parsed" => pc'[b] = "parsed"
    BY <1>7 DEF InitializeConnectionState, Restart, Enter, Types
  <2> QED BY <2>1, CreditsCalm DEF Ready, Asking
<1>8. CASE OnPaired
  <2>1. /\ UNCHANGED <<cur, st, greeting, channel, stop, requested>>
        /\ \A b \in Actors : pc[b] = "parsed" => pc'[b] = "parsed"
    BY <1>8 DEF OnPaired, Restart, Enter, Types
  <2> QED BY <2>1, CreditsCalm DEF Ready, Asking
<1>9. CASE OnUnpaired
  <2>1. ~channel'
    BY <1>9, Zenon DEF OnUnpaired
  <2> QED BY <1>0, <2>1 DEF Ready
<1>10. ASSUME NEW a \in Pool, NEW p \in BOOLEAN, ParseScorbitronObject(a, p)
       PROVE  CreditsStatusNotMissed'
  <2>1. CASE p
    <3>1. a \in Actors /\ pc'[a] = "parsed"
      BY <1>10, <2>1 DEF ParseScorbitronObject, Go, Types, Actors
    <3> QED BY <1>0, <3>1 DEF Asking
  <2>2. CASE ~p
    <3>1. ~channel'
      BY <1>10, <2>2, Zenon DEF ParseScorbitronObject
    <3> QED BY <1>0, <3>1 DEF Ready
  <2> QED BY <2>1, <2>2
<1>11. ASSUME NEW a \in Pool, NEW h \in expired, TimerHandler(a, h) PROVE CreditsStatusNotMissed'
  <2>1. /\ UNCHANGED <<cur, st, greeting, channel, stop, requested>>
        /\ \A b \in Actors : pc[b] = "parsed" => pc'[b] = "parsed"
    BY <1>11 DEF TimerHandler, Enter, Types
  <2> QED BY <2>1, CreditsCalm DEF Ready, Asking
<1>12. ASSUME NEW c \in Clients, Establish(c) PROVE CreditsStatusNotMissed'
  <2>1. UNCHANGED <<cur, channel, stop, pc>> /\ greeting' = greeting \cup {c}
    BY <1>12 DEF Establish
  <2>2. CASE c = cur
    BY <1>0, <2>1, <2>2 DEF Ready
  <2>3. CASE c # cur
    <3>1. requested' = requested
      BY <1>12, <2>3 DEF Establish
    <3>2. cur # 0 => st'[cur] = st[cur]
      BY <1>12, <2>3 DEF Establish, Types, Places, Clients
    <3> QED BY <2>1, <3>1, <3>2, CreditsCalm DEF Ready, Asking
  <2> QED BY <2>2, <2>3
<1>13. ASSUME NEW c \in Clients, LinkLost(c) \/ \E code \in {"3500", "other"} : Drop(c, code)
       PROVE  CreditsStatusNotMissed'
  <2>1. UNCHANGED <<cur, channel, stop, pc, greeting, requested>>
    BY <1>13 DEF LinkLost, Drop
  <2>2. cur # 0 /\ st'[cur] = "Connected" => st[cur] = "Connected"
    <3>1. st' = [st EXCEPT ![c] = "Connecting"] \/ st' = [st EXCEPT ![c] = "Disconnected"]
      BY <1>13 DEF LinkLost, Drop
    <3>2. cur # 0 => cur \in Clients
      BY DEF Types, Places, Clients
    <3> QED BY <3>1, <3>2 DEF Types
  <2> QED BY <2>1, <2>2, CreditsCalm DEF Ready, Asking
<1>14. ASSUME NEW c \in Clients, OnConnected(c) PROVE CreditsStatusNotMissed'
  <2>1. UNCHANGED <<cur, st, channel, stop, pc>> /\ greeting' = greeting \ {c}
    BY <1>14 DEF OnConnected, OnStrand
  <2>2. CASE c = cur /\ ~stop
    <3>1. RequestCreditsStatusIfReady
      BY <1>14, <2>2 DEF OnConnected
    <3>2. cur # 0 /\ channel /\ ~stop /\ st[cur] = "Connected" => requested'
      BY <3>1, Zenon DEF RequestCreditsStatusIfReady
    <3> QED BY <1>0, <2>1, <3>2 DEF Ready
  <2>3. CASE ~(c = cur /\ ~stop)
    <3>1. requested' = requested
      BY <1>14, <2>3 DEF OnConnected
    <3> QED BY <2>1, <2>3, <3>1, CreditsCalm DEF Ready, Asking
  <2> QED BY <2>2, <2>3
<1>15. ASSUME NEW c \in Clients, OnDisconnected(c) PROVE CreditsStatusNotMissed'
  <2>1. /\ UNCHANGED <<channel, stop, pc, greeting, requested>>
        /\ st' = [st EXCEPT ![c] = "Disconnected"]
        /\ cur' = cur \/ cur' = 0
    BY <1>15 DEF OnDisconnected, OnStrand, RetireCentrifugoClient
  <2>2. cur' # 0 /\ st'[cur'] = "Connected" => st[cur] = "Connected"
    BY <2>1 DEF Types, Places, Clients
  <2> QED BY <2>1, <2>2, CreditsCalm DEF Ready, Asking
<1>16. CASE TimerExpires \/ GracePasses \/ PostDisconnect \/ CallbackReturns
  <2>1. UNCHANGED <<cur, st, greeting, channel, stop, requested, pc>>
    BY <1>16 DEF TimerExpires, GracePasses, PostDisconnect, CallbackReturns
  <2> QED BY <2>1, CreditsCalm DEF Ready, Asking
<1>17. CASE Stop
  <2>1. stop'
    BY <1>17, Zenon DEF Stop
  <2> QED BY <1>0, <2>1 DEF Ready
<1>18. CASE ShutdownDisconnect
  <2>1. UNCHANGED <<cur, greeting, channel, stop, requested, pc>>
    BY <1>18 DEF ShutdownDisconnect
  <2>2. cur # 0 /\ st'[cur] = "Connected" => st[cur] = "Connected"
    BY <1>18 DEF ShutdownDisconnect, Disconnect, Types, Places, Clients
  <2> QED BY <2>1, <2>2, CreditsCalm DEF Ready, Asking
<1> QED BY <1>1, <1>2, <1>3, <1>4, <1>5, <1>6, <1>7, <1>8, <1>9, <1>10, <1>11, <1>12, <1>13,
           <1>14, <1>15, <1>16, <1>17, <1>18 DEF Next, Step, Library, Callbacks

-----------------------------------------------------------------------------
(* The parts that hold as long as no two actors met *)

\* Where an actor gets to, and how.
LEMMA ActorMoves ==
  ASSUME Types, Effect, NEW a \in Actors
  PROVE  \/ pc'[a] = pc[a]
         \/ pc'[a] \in {"idle", "parsed"}
         \/ pc'[a] \in {"flag", "disconnect"} /\ Busy(a)
         \/ pc'[a] = "look" /\ Only(a)
         \/ pc'[a] = "retire" /\ Walks(a, "retire")
         \/ pc'[a] = "setup" /\ (Enters(a, "setup") \/ Walks(a, "setup") \/ Retiring(a))
         \/ pc'[a] = "assign" /\ SetsUp(a)
         \/ pc'[a] = "connect" /\ Assigning(a)
         \/ pc'[a] = "dial" /\ Walks(a, "dial")
<1> DEFINE Goal ==
         \/ pc'[a] = pc[a]
         \/ pc'[a] \in {"idle", "parsed"}
         \/ pc'[a] \in {"flag", "disconnect"} /\ Busy(a)
         \/ pc'[a] = "look" /\ Only(a)
         \/ pc'[a] = "retire" /\ Walks(a, "retire")
         \/ pc'[a] = "setup" /\ (Enters(a, "setup") \/ Walks(a, "setup") \/ Retiring(a))
         \/ pc'[a] = "assign" /\ SetsUp(a)
         \/ pc'[a] = "connect" /\ Assigning(a)
         \/ pc'[a] = "dial" /\ Walks(a, "dial")
<1>1. ASSUME NEW b \in Actors, NEW to, Moves(b, to), b # a PROVE pc'[a] = pc[a]
  BY <1>1 DEF Moves, Types
<1>2. ASSUME NEW to, Moves(a, to) PROVE pc'[a] = to
  BY <1>2 DEF Moves, Types
<1>3. ASSUME NEW b \in Actors, ActorEffect(b), b # a PROVE pc'[a] = pc[a]
  BY <1>1, <1>3 DEF ActorEffect, Dials, Idles, Retiring, SetsUp, Assigning, Parses, Enters, Walks
<1>4. CASE ActorEffect(a)
  <2>1. CASE Dials(a) \/ Idles(a) \/ Parses(a)
    BY <1>2, <2>1 DEF Dials, Idles, Parses
  <2>2. CASE Retiring(a) \/ SetsUp(a) \/ Assigning(a)
    BY <1>2, <2>2 DEF Retiring, SetsUp, Assigning
  <2>3. ASSUME NEW to \in {"look", "setup"}, Enters(a, to) PROVE Goal
    <3>1. pc'[a] = to /\ Only(a)
      BY <1>2, <2>3 DEF Enters
    <3> QED BY <2>3, <3>1
  <2>4. ASSUME NEW to \in {"flag", "disconnect", "retire", "setup", "dial"}, Walks(a, to) PROVE Goal
    <3>1. pc'[a] = to /\ Busy(a)
      BY <1>2, <2>4 DEF Walks
    <3> QED BY <2>4, <3>1
  <2> HIDE DEF Goal
  <2>5. Goal
    BY <1>4, <2>3, <2>4, <2>1, <2>2 DEF ActorEffect, Goal
  <2> QED BY <2>5 DEF Goal
<1>5. CASE \E c \in Clients : Links(c) \/ Drops(c) \/ CalledBack(c)
  BY <1>5 DEF Links, Drops, CalledBack
<1>6. CASE HangsUp
  <2>1. pc'[a] = pc[a] \/ pc'[a] = "idle"
    BY <1>1, <1>2, <1>6 DEF HangsUp
  <2> QED BY <2>1
<1>7. CASE Still \/ Stops \/ Posts
  BY <1>7 DEF Still, Stops, Posts
<1> QED BY <1>3, <1>4, <1>5, <1>6, <1>7 DEF Effect

\* The active client changes when it is retired or a new one is assigned.
LEMMA CurAfter ==
  ASSUME Effect
  PROVE  \/ cur' = cur /\ created' = created
         \/ cur' = 0
         \/ \E a \in Actors : Assigning(a)
<1>1. ASSUME ~\E a \in Actors : Assigning(a)
      PROVE  PlaceStays \/ Prunes \/ Retires \/ \E i \in DOMAIN retired : Ages(i)
  BY <1>1 DEF Effect, ActorEffect, Dials, Idles, Retiring, SetsUp, Parses, Enters, Walks,
         Links, Drops, CalledBack, HangsUp, Still, Stops, Posts
<1> QED BY <1>1 DEF PlaceStays, Prunes, Retires, Ages

\* The active client is retired by an actor or by its own callback.
LEMMA RetiredBy ==
  ASSUME Effect, Retires
  PROVE  \/ \E a \in Actors : Retiring(a)
         \/ \E c \in Clients : CalledBack(c) /\ c = cur
<1>1. ~PlaceStays /\ ~Prunes /\ ~(\E i \in DOMAIN retired : Ages(i))
  BY DEF Retires, PlaceStays, Prunes, Ages
<1>2. ASSUME NEW a \in Actors, Assigning(a) PROVE FALSE
  BY <1>2 DEF Assigning, Assigns, Retires
<1> QED BY <1>1, <1>2 DEF Effect, ActorEffect, Dials, Idles, SetsUp, Parses, Enters, Walks,
           Links, Drops, CalledBack, HangsUp, Still, Stops, Posts

\* A disconnected client stays so, unless somebody is inside connect().
LEMMA ClientRests ==
  ASSUME Types, Places, ClientStep, NEW c \in Clients, st[c] = "Disconnected",
         c # cur \/ \A a \in Actors : pc[a] # "dial"
  PROVE  st'[c] = "Disconnected" /\ (closing[c] = "none" => closing'[c] = "none")
<1>1. CASE SameClients
  BY <1>1 DEF SameClients
<1>2. ASSUME NEW d \in Clients, Links(d) \/ Drops(d)
      PROVE  st'[c] = st[c] /\ closing'[c] = closing[c]
  <2>1. d # c
    BY <1>2 DEF Links, Drops
  <2> QED BY <1>2, <2>1 DEF Links, Drops, Types
<1>3. ASSUME NEW d \in Clients, CalledBack(d)
      PROVE  st'[c] = "Disconnected" /\ (closing[c] = "none" => closing'[c] = "none")
  BY <1>3 DEF CalledBack, Types
<1>4. CASE Disconnect(cur)
  <2>1. CASE c = cur
    BY <1>4, <2>1 DEF Disconnect
  <2>2. CASE c # cur
    <3>1. cur = 0 \/ cur \in Clients
      BY DEF Places, Types, Clients
    <3> QED BY <1>4, <2>2, <3>1 DEF Disconnect, Types
  <2> QED BY <2>1, <2>2
<1>5. ASSUME NEW a \in Actors, Dials(a)
      PROVE  st'[c] = st[c] /\ closing'[c] = closing[c]
  <2>1. c # cur
    BY <1>5 DEF Dials
  <2> QED BY <1>5, <2>1 DEF Dials, Types
<1> QED BY <1>1, <1>2, <1>3, <1>4, <1>5 DEF ClientStep

\* What the proof of every part of Sequential starts from.
Undisturbed ==
    /\ Types /\ Places /\ Unborn /\ HandlersBorn /\ CodesFinal
    /\ dtor # "no" => stop
    /\ Sequential
    /\ Effect
    /\ ~overlapped'

LEMMA StaysSingle ==
  ASSUME Undisturbed
  PROVE  OneAtATime'
<1>1. Types /\ Effect /\ OneAtATime /\ ~overlapped'
  BY DEF Undisturbed, Sequential
<1>2. ASSUME NEW a \in Actors, Busy(a)', ~Busy(a) PROVE \A b \in Actors \ {a} : ~Busy(b)
  <2>1. Only(a)
    <3>1. pc'[a] # pc[a] /\ pc'[a] \notin {"idle", "parsed"} /\ pc[a] \in {"idle", "parsed"}
      BY <1>2 DEF Busy
    <3>2. \A to : ~Walks(a, to)
      BY <1>2 DEF Walks
    <3>3. ~Retiring(a) /\ ~SetsUp(a) /\ ~Assigning(a)
      BY <3>1 DEF Retiring, SetsUp, Assigning
    <3> QED BY <1>1, <1>2, <3>1, <3>2, <3>3, ActorMoves DEF Enters
  <2> QED BY <1>1, <2>1 DEF Only
<1>3. ASSUME NEW a \in Actors, ~Busy(a), Busy(a)', NEW b \in Actors, b # a PROVE ~Busy(b)'
  <2>1. ~Busy(b)
    BY <1>2, <1>3
  <2>2. pc'[a] # pc[a]
    BY <1>3 DEF Busy
  <2>3. pc'[b] = pc[b]
    BY <1>1, <1>3, <2>2, OneMover DEF Moves, Types
  <2> QED BY <2>1, <2>3 DEF Busy
<1>4. ASSUME NEW a \in Actors, NEW b \in Actors, Busy(a)', Busy(b)' PROVE a = b
  <2>1. CASE Busy(a) /\ Busy(b)
    BY <1>1, <2>1 DEF OneAtATime
  <2>2. CASE ~Busy(a) \/ ~Busy(b)
    BY <1>3, <1>4, <2>2
  <2> QED BY <2>1, <2>2
<1> QED BY <1>4 DEF OneAtATime, Busy

LEMMA PlacedClients ==
  ASSUME Types, Places, NEW c \in RetiredIds \cup destroyed
  PROVE  c \in Clients /\ c # cur
<1>1. c \in 1..created /\ c # cur
  BY DEF Places
<1>2. created \in Nat /\ MaxClients \in Nat /\ created <= MaxClients
  BY CentrifugoAssumption DEF Types
<1> QED BY <1>1, <1>2 DEF Clients

LEMMA StaysRetired ==
  ASSUME Undisturbed
  PROVE  RetiredUnwind'
<1>1. Types /\ Places /\ Effect /\ RetiredUnwind /\ RetireIdle
  BY DEF Undisturbed, Sequential
<1>2. PlaceStep /\ ClientStep
  BY <1>1, EffectPlaces, EffectClients
<1>3. ASSUME NEW j \in DOMAIN retired
      PROVE  /\ retired[j].id \in Clients /\ retired[j].id # cur
             /\ st'[retired[j].id] = "Disconnected"
             /\ closing[retired[j].id] = "none" => closing'[retired[j].id] = "none"
  <2>1. retired[j].id \in RetiredIds
    BY <1>3 DEF RetiredIds
  <2>2. retired[j].id \in Clients /\ retired[j].id # cur
    BY <1>1, <2>1, PlacedClients
  <2>3. st[retired[j].id] = "Disconnected"
    BY <1>1, <1>3 DEF RetiredUnwind
  <2> QED BY <1>1, <1>2, <2>2, <2>3, ClientRests
<1>4. Retires => st'[cur] = "Disconnected"
  <2>1. ASSUME NEW a \in Actors, Retiring(a), Retires PROVE st'[cur] = "Disconnected"
    BY <1>1, <2>1 DEF Retiring, Retires, RetireIdle, SameClients
  <2>2. ASSUME NEW c \in Clients, CalledBack(c), c = cur PROVE st'[cur] = "Disconnected"
    BY <1>1, <2>2 DEF CalledBack, Types
  <2> QED BY <1>1, <2>1, <2>2, RetiredBy
<1>5. ASSUME NEW k \in DOMAIN retired'
      PROVE  /\ st'[retired'[k].id] = "Disconnected"
             /\ retired'[k].old => closing'[retired'[k].id] = "none"
  <2>1. CASE \E j \in DOMAIN retired : retired'[k] = retired[j]
    BY <1>1, <1>3, <2>1 DEF RetiredUnwind
  <2>2. CASE Retires /\ retired'[k] = [id |-> cur, old |-> FALSE]
    BY <1>4, <2>2
  <2>3. CASE \E j \in DOMAIN retired :
               retired'[k].id = retired[j].id /\ closing[retired[j].id] = "none"
    BY <1>3, <2>3
  <2> QED BY <1>1, <1>2, <1>5, <2>1, <2>2, <2>3, RetiredAfter DEF Types
<1> QED BY <1>5 DEF RetiredUnwind

LEMMA StaysDestroyed ==
  ASSUME Undisturbed
  PROVE  DestroyedQuiet'
<1>1. Types /\ Places /\ Effect /\ RetiredUnwind /\ DestroyedQuiet /\ SetupQuiet
  BY DEF Undisturbed, Sequential
<1>2. PlaceStep /\ ClientStep
  BY <1>1, EffectPlaces, EffectClients
<1>3. ASSUME NEW c \in Clients, c # cur, Quiet(c) PROVE Quiet(c)'
  BY <1>1, <1>2, <1>3, ClientRests DEF Quiet
<1>4. ASSUME NEW c \in destroyed PROVE Quiet(c)'
  BY <1>1, <1>3, <1>4, PlacedClients DEF DestroyedQuiet
<1>5. ASSUME NEW c \in Pruned PROVE Quiet(c)'
  <2>1. PICK j \in DOMAIN retired : retired[j].id = c /\ retired[j].old
    BY <1>1, <1>5, PrunedOld DEF Places, Entry
  <2>2. c \in RetiredIds
    BY <2>1 DEF RetiredIds
  <2>3. c \in Clients /\ c # cur
    BY <1>1, <2>2, PlacedClients
  <2>4. Quiet(c)
    BY <1>1, <2>1 DEF RetiredUnwind, Quiet
  <2> QED BY <1>3, <2>3, <2>4
<1>6. ASSUME Assigns, cur # 0 PROVE st'[cur] = "Disconnected" /\ closing'[cur] = "none"
  <2>1. PICK a \in Actors : Assigning(a)
    <3>1. cur' # cur /\ cur' # 0
      BY <1>1, <1>6 DEF Assigns, Places, Types
    <3> QED BY <1>1, <3>1, CurAfter
  <2> QED BY <1>1, <1>6, <2>1 DEF Assigning, SameClients, SetupQuiet, Quiet
<1>7. ASSUME NEW c \in destroyed' PROVE Quiet(c)'
  <2>1. c \in destroyed \/ c \in Pruned \/ (Assigns /\ cur # 0 /\ c = cur)
    BY <1>2, <1>7 DEF PlaceStep, PlaceStays, Prunes, PruneRetiredCentrifugoClients, Retires,
                      Assigns, Ages
  <2> QED BY <1>4, <1>5, <1>6, <2>1 DEF Quiet
<1> QED BY <1>7 DEF DestroyedQuiet

\* While a busy actor is not the one who assigns, the client in its hands stays.
LEMMA HeldClient ==
  ASSUME Undisturbed, NEW a \in Actors, pc[a] \in {"retire", "setup", "assign"},
         pc'[a] # "connect", cur' # 0
  PROVE  /\ cur' = cur /\ cur \in Clients
         /\ st[cur] = "Disconnected"
              => st'[cur] = "Disconnected" /\ (closing[cur] = "none" => closing'[cur] = "none")
<1>1. Types /\ Places /\ Effect /\ OneAtATime
  BY DEF Undisturbed, Sequential
<1>2. ASSUME NEW b \in Actors, pc[b] \in {"assign", "dial"} PROVE b = a /\ pc[a] = "assign"
  BY <1>1, <1>2 DEF OneAtATime, Busy
<1>3. ASSUME NEW b \in Actors, Assigning(b) PROVE FALSE
  <2>1. b = a
    BY <1>2, <1>3 DEF Assigning
  <2> QED BY <1>1, <1>3, <2>1 DEF Assigning, Moves, Types
<1>4. cur' = cur
  BY <1>1, <1>3, CurAfter
<1>5. cur \in Clients
  BY <1>1, <1>4 DEF Places, Types, Clients
<1>6. \A b \in Actors : pc[b] # "dial"
  BY <1>2
<1> QED BY <1>1, <1>4, <1>5, <1>6, ClientRests, EffectClients

LEMMA StaysRetireIdle ==
  ASSUME Undisturbed
  PROVE  RetireIdle'
<1>1. Types /\ Effect /\ RetireIdle
  BY DEF Undisturbed, Sequential
<1>2. ASSUME NEW a \in Actors, pc'[a] = "retire", cur' # 0 PROVE st'[cur'] = "Disconnected"
  <2>1. CASE pc[a] = "retire"
    <3>1. cur' = cur /\ cur \in Clients
      BY <1>2, <2>1, HeldClient
    <3>2. st[cur] = "Disconnected"
      BY <1>1, <2>1, <3>1, <1>2 DEF RetireIdle
    <3> QED BY <1>2, <2>1, <3>1, <3>2, HeldClient
  <2>2. CASE pc[a] # "retire"
    <3>1. Walks(a, "retire")
      BY <1>1, <1>2, <2>2, ActorMoves
    <3> QED BY <3>1 DEF Walks, SameClients, PlaceStays
  <2> QED BY <2>1, <2>2
<1> QED BY <1>2 DEF RetireIdle

LEMMA StaysSetupQuiet ==
  ASSUME Undisturbed
  PROVE  SetupQuiet'
<1>1. Types /\ Effect /\ SetupQuiet /\ ResetQuiet
  BY DEF Undisturbed, Sequential
<1>2. ASSUME NEW a \in Actors, pc'[a] \in {"setup", "assign"}, cur' # 0
      PROVE  st'[cur'] = "Disconnected" /\ closing'[cur'] = "none"
  <2>1. CASE pc[a] \in {"setup", "assign"}
    <3>1. cur' = cur /\ cur \in Clients
      BY <1>2, <2>1, HeldClient
    <3>2. st[cur] = "Disconnected" /\ closing[cur] = "none"
      BY <1>1, <1>2, <2>1, <3>1 DEF SetupQuiet, Quiet
    <3> QED BY <1>2, <2>1, <3>1, <3>2, HeldClient
  <2>2. CASE pc[a] \notin {"setup", "assign"}
    <3>1. Enters(a, "setup") \/ Walks(a, "setup") \/ Retiring(a)
      BY <1>1, <1>2, <2>2, ActorMoves DEF SetsUp
    <3>2. Enters(a, "setup") /\ cur' = cur
      BY <1>2, <3>1 DEF Enters, Walks, Retiring, Retires, PlaceStays
    <3> QED BY <1>1, <1>2, <3>2 DEF Enters, Handlers, ResetQuiet, Quiet, SameClients
  <2> QED BY <2>1, <2>2
<1> QED BY <1>2 DEF SetupQuiet, Quiet

\* The client a handler resets is not replaced before the handler runs.
LEMMA ResetHolds ==
  ASSUME Types, HandlersBorn, Effect, NEW h \in Handlers, h.kind = "reset", h.id = cur'
  PROVE  /\ cur' = cur /\ cur \in Clients
         /\ \A a \in Actors : ~Assigning(a)
<1>1. h.id \in Clients /\ h.id <= created
  BY DEF Handlers, HandlersBorn, Types, Handler, NoTimer
<1>2. cur' # 0
  BY <1>1 DEF Clients
<1>3. ASSUME NEW a \in Actors, Assigning(a) PROVE FALSE
  BY <1>1, <1>3 DEF Assigning, Assigns, Types, Clients
<1>4. cur' = cur
  BY <1>2, <1>3, CurAfter
<1> QED BY <1>1, <1>3, <1>4

LEMMA StaysResetQuiet ==
  ASSUME Undisturbed
  PROVE  ResetQuiet'
<1>1. Types /\ Places /\ Effect /\ HandlersBorn /\ ResetQuiet /\ ~overlapped'
  BY DEF Undisturbed, Sequential
<1>2. ASSUME NEW h \in Handlers', h.kind = "reset", h.id = cur'
      PROVE  /\ st'[cur'] = "Disconnected" /\ closing'[cur'] = "none"
             /\ \A a \in Actors : pc'[a] \notin {"connect", "dial"}
  <2>1. \/ h \in Handlers
        \/ h = NoTimer
        \/ \E c \in Clients : CalledBack(c) /\ PlaceStays /\ c = cur
        \/ h = [kind |-> "rebuild", id |-> 0]
    <3>1. CASE SameTimers
      BY <1>2, <3>1 DEF SameTimers
    <3>2. ASSUME NEW c \in Clients, CalledBack(c)
          PROVE  \/ h \in Handlers
                 \/ h = NoTimer
                 \/ PlaceStays /\ c = cur
                 \/ h = [kind |-> "rebuild", id |-> 0]
      <4>1. \/ Handlers' \subseteq Handlers \cup {NoTimer}
            \/ Handlers' \subseteq Handlers \cup {[kind |-> "rebuild", id |-> 0]}
            \/ PlaceStays /\ c = cur
        BY <3>2 DEF CalledBack, SameTimers
      <4> QED BY <1>2, <4>1
    <3> QED BY <1>1, <3>1, <3>2 DEF Effect, ActorEffect, Dials, Idles, Retiring, SetsUp,
               Assigning, Parses, Enters, Walks, Links, Drops, HangsUp, Still, Stops, Posts
  <2>2. ASSUME NEW c \in Clients, CalledBack(c), PlaceStays, c = cur
        PROVE  /\ st'[cur'] = "Disconnected" /\ closing'[cur'] = "none"
               /\ \A a \in Actors : pc'[a] \notin {"connect", "dial"}
    BY <1>1, <2>2 DEF CalledBack, Types, PlaceStays, Alone, Busy
  <2>3. CASE h \in Handlers
    <3>1. cur' = cur /\ cur \in Clients /\ \A a \in Actors : ~Assigning(a)
      BY <1>1, <1>2, <2>3, ResetHolds
    <3>2. Quiet(cur) /\ \A a \in Actors : pc[a] \notin {"connect", "dial"}
      BY <1>1, <1>2, <2>3, <3>1 DEF ResetQuiet
    <3>3. st'[cur] = "Disconnected" /\ closing'[cur] = "none"
      BY <1>1, <3>1, <3>2, ClientRests, EffectClients DEF Quiet
    <3>4. ASSUME NEW a \in Actors PROVE pc'[a] \notin {"connect", "dial"}
      <4>1. ~Assigning(a) /\ ~Walks(a, "dial")
        BY <3>1, <3>2 DEF Walks
      <4> QED BY <1>1, <3>2, <4>1, ActorMoves
    <3> QED BY <3>1, <3>3, <3>4
  <2>4. h # NoTimer /\ h # [kind |-> "rebuild", id |-> 0]
    BY <1>2 DEF NoTimer
  <2> QED BY <2>1, <2>2, <2>3, <2>4
<1> QED BY <1>2 DEF ResetQuiet, Quiet, Handlers

LEMMA StaysStopped ==
  ASSUME Undisturbed
  PROVE  StopNoDial'
<1>1. Types /\ Effect /\ StopNoDial /\ ~overlapped'
  BY DEF Undisturbed, Sequential
<1>2. ASSUME stop', NEW a \in Actors, pc'[a] = "dial" PROVE FALSE
  <2>1. CASE pc[a] = "dial"
    <3>1. ~Stops
      BY <1>1, <2>1 DEF Stops
    <3>2. stop' = stop
      BY <1>1, <3>1 DEF Effect, ActorEffect, Dials, Idles, Retiring, SetsUp, Assigning, Parses,
         Enters, Walks, Links, Drops, CalledBack, HangsUp, Still, Posts, SameNet
    <3> QED BY <1>1, <1>2, <2>1, <3>2 DEF StopNoDial
  <2>2. CASE pc[a] # "dial"
    <3>1. Walks(a, "dial")
      BY <1>1, <1>2, <2>2, ActorMoves
    <3> QED BY <1>2, <3>1 DEF Walks, SameNet
  <2> QED BY <2>1, <2>2
<1> QED BY <1>2 DEF StopNoDial

LEMMA StaysClosed ==
  ASSUME Undisturbed
  PROVE  Closed'
<1>1. Types /\ Places /\ Unborn /\ CodesFinal /\ Effect /\ StopNoDial /\ Closed
  BY DEF Undisturbed, Sequential
<1>2. dtor # "no" => stop
  BY DEF Undisturbed
<1> SUFFICES ASSUME dtor' = "join", cur' # 0
             PROVE  st'[cur'] = "Disconnected" \/ closing'[cur'] = "asked"
  BY DEF Closed
<1>3. ASSUME NEW a \in Actors, Assigning(a) PROVE st'[cur'] = "Disconnected"
  <2>1. cur' \in Clients /\ cur' > created /\ st' = st
    BY <1>1, <1>3, CentrifugoAssumption DEF Assigning, Assigns, SameClients, Types, Clients
  <2> QED BY <1>1, <2>1 DEF Unborn
<1>4. CASE cur' = cur /\ ~\E a \in Actors : Assigning(a)
  <2>1. cur \in Clients
    BY <1>1, <1>4 DEF Places, Types, Clients
  <2>2. CASE HangsUp /\ dtor = "posted"
    <3>1. st[cur] # "Disconnected" => closing[cur] \in {"none", "asked"}
      BY <1>1, <2>1 DEF CodesFinal, Types, Codes
    <3>2. Disconnect(cur)
      BY <2>2 DEF HangsUp
    <3>3. CASE st[cur] = "Disconnected"
      BY <1>4, <3>2, <3>3 DEF Disconnect
    <3>4. CASE st[cur] # "Disconnected"
      <4>1. closing' = [closing EXCEPT ![cur] = IF @ = "none" THEN "asked" ELSE @]
        BY <2>1, <3>2, <3>4 DEF Disconnect, Clients
      <4>2. closing'[cur] = "asked"
        BY <1>1, <2>1, <3>1, <3>4, <4>1 DEF Types
      <4> QED BY <1>4, <4>2
    <3> QED BY <3>3, <3>4
  <2>3. CASE ~(HangsUp /\ dtor = "posted")
    <3>1. dtor = "join"
      BY <1>1, <1>4, <2>3 DEF Effect, ActorEffect, Dials, Idles, Retiring, SetsUp, Assigning,
         Parses, Enters, Walks, Links, Drops, CalledBack, HangsUp, Still, Stops, Posts, SameNet
    <3>2. st[cur] = "Disconnected" \/ closing[cur] = "asked"
      BY <1>1, <1>4, <3>1 DEF Closed
    <3>3. \A a \in Actors : pc[a] # "dial"
      BY <1>1, <1>2, <3>1 DEF StopNoDial
    <3>4. CASE st[cur] = "Disconnected"
      BY <1>1, <1>4, <2>1, <3>3, <3>4, ClientRests, EffectClients
    <3>5. CASE closing[cur] = "asked"
      <4>1. CASE SameClients
        BY <1>4, <3>5, <4>1 DEF SameClients
      <4>2. ASSUME NEW c \in Clients, Links(c) \/ Drops(c) \/ CalledBack(c)
            PROVE  st'[cur] = "Disconnected" \/ closing'[cur] = "asked"
        <5>1. CASE c = cur
          BY <1>1, <2>1, <3>5, <4>2, <5>1 DEF Links, Drops, CalledBack, Types
        <5>2. CASE c # cur
          BY <1>1, <2>1, <3>5, <4>2, <5>2 DEF Links, Drops, CalledBack, Types
        <5> QED BY <5>1, <5>2
      <4>3. CASE Disconnect(cur)
        BY <1>1, <1>4, <2>1, <3>5, <4>3 DEF Disconnect, Types
      <4>4. ASSUME NEW a \in Actors, Dials(a) PROVE FALSE
        BY <3>3, <4>4 DEF Dials
      <4> QED BY <1>1, <1>4, <4>1, <4>2, <4>3, <4>4, EffectClients DEF ClientStep
    <3> QED BY <3>2, <3>4, <3>5
  <2> QED BY <2>2, <2>3
<1> QED BY <1>1, <1>3, <1>4, CurAfter

LEMMA SequentialKept ==
  ASSUME Undisturbed
  PROVE  Sequential'
  BY StaysSingle, StaysRetired, StaysDestroyed, StaysRetireIdle, StaysSetupQuiet,
     StaysResetQuiet, StaysStopped, StaysClosed DEF Sequential

-----------------------------------------------------------------------------
(* The invariant holds *)

LEMMA InitInv == Init => IInv
<1> SUFFICES ASSUME Init PROVE IInv
  OBVIOUS
<1> USE DEF Init
<1>0. MaxClients \in Nat /\ MaxClients # 0 /\ 1 \in Clients
  BY CentrifugoAssumption DEF Clients
<1>1. Types
  <2>1. budget \in [restarts: 0..MaxRestarts, drops: 0..MaxDrops]
    BY CentrifugoAssumption
  <2>2. pc \in [Actors -> Stages]
    BY DEF Stages
  <2> QED BY <1>0, <2>1, <2>2 DEF Types
<1>2. retired \in Seq([id: Clients, old: BOOLEAN]) /\ RetiredIds = {}
  BY DEF RetiredIds
<1>3. Places
  BY <1>2 DEF Places
<1>4. Handlers = {NoTimer}
  BY DEF Handlers
<1>5. Unborn /\ HandlersBorn /\ CodesFinal
  BY <1>4 DEF Unborn, HandlersBorn, CodesFinal, NoTimer
<1>6. CreditsStatusNotMissed
  <2>1. ~channel
    BY Zenon
  <2> QED BY <2>1 DEF CreditsStatusNotMissed
<1>7. ~stop
  BY Zenon
<1>8. Sequential
  <2>1. \A a \in Actors : pc[a] = "idle"
    OBVIOUS
  <2>2. OneAtATime /\ RetireIdle /\ SetupQuiet /\ StopNoDial
    BY <2>1 DEF OneAtATime, Busy, RetireIdle, SetupQuiet, StopNoDial
  <2>3. RetiredUnwind /\ DestroyedQuiet
    BY DEF RetiredUnwind, DestroyedQuiet
  <2>4. ResetQuiet /\ Closed
    BY <1>4 DEF ResetQuiet, NoTimer, Closed
  <2> QED BY <2>2, <2>3, <2>4 DEF Sequential
<1> QED BY <1>1, <1>3, <1>5, <1>6, <1>8 DEF IInv

LEMMA NextInv == IInv /\ Next => IInv'
<1> SUFFICES ASSUME IInv, Next PROVE IInv'
  OBVIOUS
<1>1. /\ Types /\ Places /\ Unborn /\ HandlersBorn /\ CodesFinal
      /\ (dtor # "no" => stop) /\ CreditsStatusNotMissed
  BY DEF IInv
<1>2. Effect /\ (~overlapped' => ~overlapped)
  BY <1>1, NextEffects
<1>3. PlaceStep /\ ClientStep
  BY <1>2, EffectPlaces, EffectClients
<1>4. Types'
  BY <1>1, TypesKept
<1>5. Places'
  BY <1>1, <1>3, PlacesKept DEF Types
<1>6. Unborn' /\ CodesFinal'
  BY <1>1, <1>3, ClientsAfter
<1>7. HandlersBorn' /\ (dtor' # "no" => stop')
  BY <1>1, <1>2, HandlersAfter, StopAfter
<1>8. CreditsStatusNotMissed'
  BY <1>1, CreditsKept
<1>9. ASSUME ~overlapped' PROVE Sequential'
  <2>1. Sequential
    BY <1>2, <1>9 DEF IInv
  <2>2. Undisturbed
    BY <1>1, <1>2, <1>9, <2>1 DEF Undisturbed
  <2> QED BY <2>2, SequentialKept
<1> QED BY <1>4, <1>5, <1>6, <1>7, <1>8, <1>9 DEF IInv

LEMMA StutterInv == IInv /\ UNCHANGED vars => IInv'
<1> SUFFICES ASSUME IInv, UNCHANGED vars PROVE IInv'
  OBVIOUS
<1> USE DEF vars, client, status
<1>1. RetiredIds' = RetiredIds /\ Handlers' = Handlers
  BY DEF RetiredIds, Handlers
<1>2. Types' /\ Places'
  BY <1>1 DEF IInv, Types, Places
<1>3. Unborn' /\ HandlersBorn' /\ CodesFinal' /\ (dtor' # "no" => stop') /\ CreditsStatusNotMissed'
  BY <1>1 DEF IInv, Unborn, HandlersBorn, CodesFinal, CreditsStatusNotMissed
<1>4. ASSUME ~overlapped' PROVE Sequential'
  <2>1. Sequential
    BY <1>4 DEF IInv
  <2>2. OneAtATime' /\ RetiredUnwind' /\ DestroyedQuiet' /\ RetireIdle' /\ SetupQuiet'
    BY <2>1 DEF Sequential, OneAtATime, Busy, RetiredUnwind, DestroyedQuiet, RetireIdle,
                SetupQuiet, Quiet
  <2>3. ResetQuiet' /\ StopNoDial' /\ Closed'
    BY <1>1, <2>1 DEF Sequential, ResetQuiet, Quiet, StopNoDial, Closed
  <2> QED BY <2>2, <2>3 DEF Sequential
<1> QED BY <1>2, <1>3, <1>4 DEF IInv

-----------------------------------------------------------------------------
(* The flags *)

Flags ==
    /\ pending \in BOOLEAN
    /\ channel \in BOOLEAN
    /\ requested \in BOOLEAN
    /\ stop \in BOOLEAN
    /\ gaveUp \in BOOLEAN
    /\ overlapped \in BOOLEAN

LEMMA FlagsKept ==
  ASSUME Flags, Next
  PROVE  Flags'
<1> USE DEF Flags, client, status
<1>1. ASSUME NEW a \in Actors, Step(a) PROVE Flags'
  <2>1. CASE Look(a) \/ Retire(a) \/ Flag(a) \/ AskDisconnect(a)
    BY <2>1, Zenon DEF Look, Retire, Flag, AskDisconnect
  <2>2. CASE Setup(a) \/ Assign(a) \/ CentrifugoConnect(a) \/ Dial(a)
    BY <2>2, Zenon DEF Setup, Assign, CentrifugoConnect, Dial
  <2>3. CASE ParsedPaired(a)
    BY <2>3, Zenon DEF ParsedPaired, RequestCreditsStatusIfReady
  <2> QED BY <1>1, <2>1, <2>2, <2>3 DEF Step
<1>2. ASSUME NEW a \in Actors, NEW to, Enter(a, to) PROVE overlapped' \in BOOLEAN
  BY <1>2, Zenon DEF Enter
<1>3. ASSUME NEW a \in Actors, Restart(a), UNCHANGED status \/ OnUnpaired PROVE Flags'
  <2>1. overlapped' \in BOOLEAN
    BY <1>2, <1>3 DEF Restart
  <2>2. channel' \in BOOLEAN /\ requested' \in BOOLEAN
    BY <1>3, Zenon DEF OnUnpaired
  <2>3. UNCHANGED <<pending, stop, gaveUp>>
    BY <1>3 DEF Restart
  <2> QED BY <2>1, <2>2, <2>3
<1>4. ASSUME NEW a \in Pool, NEW p \in BOOLEAN, ParseScorbitronObject(a, p) PROVE Flags'
  BY <1>4, Zenon DEF ParseScorbitronObject
<1>5. ASSUME NEW a \in Pool, NEW h \in expired, TimerHandler(a, h) PROVE Flags'
  <2>1. overlapped' \in BOOLEAN
    BY <1>2, <1>5 DEF TimerHandler, Actors
  <2> QED BY <1>5, <2>1 DEF TimerHandler
<1>6. ASSUME NEW c \in Clients, Library(c) PROVE Flags'
  <2>1. CASE Establish(c)
    BY <2>1, Zenon DEF Establish
  <2>2. CASE LinkLost(c) \/ \E code \in {"3500", "other"} : Drop(c, code)
    BY <2>2 DEF LinkLost, Drop
  <2> QED BY <1>6, <2>1, <2>2 DEF Library
<1>7. ASSUME NEW c \in Clients, OnConnected(c) PROVE Flags'
  BY <1>7, Zenon DEF OnConnected, OnStrand, RequestCreditsStatusIfReady
<1>8. ASSUME NEW c \in Clients, OnDisconnected(c) PROVE Flags'
  <2>1. overlapped' \in BOOLEAN
    BY <1>8, Zenon DEF OnDisconnected, OnStrand
  <2>2. gaveUp' \in BOOLEAN
    BY <1>8, Zenon DEF OnDisconnected
  <2>3. pending' \in BOOLEAN
    BY <1>8, Zenon DEF OnDisconnected
  <2> QED BY <1>8, <2>1, <2>2, <2>3 DEF OnDisconnected
<1>9. CASE TimerExpires \/ GracePasses \/ PostDisconnect \/ ShutdownDisconnect \/ CallbackReturns
  BY <1>9 DEF TimerExpires, GracePasses, PostDisconnect, ShutdownDisconnect, CallbackReturns
<1>10. CASE Stop
  BY <1>10, Zenon DEF Stop
<1>11. CASE OnPaired \/ OnUnpaired \/ \E a \in Pool : InitializeConnectionState(a)
  BY <1>3, <1>11 DEF OnPaired, OnUnpaired, InitializeConnectionState, Actors
<1> HIDE DEF Flags
<1> QED BY <1>1, <1>4, <1>5, <1>6, <1>7, <1>8, <1>9, <1>10, <1>11 DEF Next, Callbacks

-----------------------------------------------------------------------------
(* Callbacks under way *)

\* What the strand has still to do for a client: not for one that is destroyed or past its
\* grace period, nor for the active one once it is about to be replaced in place.  When the
\* timer's handler has expired, the callback that started the timer has returned.
Unwinding ==
    /\ \A i \in DOMAIN retired : retired[i].old => Free(retired[i].id)
    /\ \A c \in destroyed : Free(c)
    /\ \A a \in Actors : pc[a] \in {"setup", "assign"} /\ cur # 0 => Free(cur)
    /\ \A h \in Handlers : h.kind = "reset" /\ h.id = cur => cur \notin greeting
    /\ \A h \in expired : h.kind = "reset" /\ h.id = cur => frame # cur

FInv ==
    /\ frame \in {0} \cup Clients
    /\ ~overlapped => Unwinding

\* Something of c can still reach the strand.
Stirs(c) ==
    c \notin destroyed /\ (st[c] # "Disconnected" \/ closing[c] # "none" \/ c \in greeting)

\* Whose callback is queued or begins.
FrameStep ==
    /\ \A c \in greeting' : c \in greeting \/ Stirs(c)
    /\ frame' \in {0, frame} \/ (frame' \in Clients /\ Stirs(frame'))

\* A reset is for the active client with its callbacks run, and expires with them returned.
HandlerStep ==
    /\ \A h \in Handlers' :
         \/ h \in Handlers \/ h.kind # "reset"
         \/ h.id = cur /\ cur \notin greeting /\ greeting' = greeting
    /\ \A h \in expired' :
         \/ h \in expired
         \/ /\ h \in Handlers /\ (h.kind = "reset" => frame # h.id)
            /\ UNCHANGED <<cur, greeting, frame>>

LEMMA FramesStay ==
  ASSUME UNCHANGED <<greeting, frame>>, expired' \subseteq expired, timer' \in {timer, NoTimer}
  PROVE  FrameStep /\ HandlerStep
<1>1. \A h \in Handlers' : h \in Handlers \/ h = NoTimer
  BY DEF Handlers
<1>2. NoTimer.kind # "reset"
  BY DEF NoTimer
<1> QED BY <1>1, <1>2 DEF FrameStep, HandlerStep

LEMMA FramesNext ==
  ASSUME Types, Places, Next
  PROVE  FrameStep /\ HandlerStep
<1> USE DEF client, status
<1>0. NoTimer.kind # "reset"
  BY DEF NoTimer
<1>1. ASSUME NEW a \in Actors, Step(a) PROVE FrameStep /\ HandlerStep
  <2>1. UNCHANGED <<greeting, frame, expired, timer>>
    BY <1>1 DEF Step, Look, Retire, Flag, AskDisconnect, Setup, Assign, CentrifugoConnect, Dial,
                ParsedPaired
  <2> QED BY <2>1, FramesStay
<1>2. ASSUME NEW a \in Pool, InitializeConnectionState(a) PROVE FrameStep /\ HandlerStep
  <2>1. UNCHANGED <<greeting, frame, expired>> /\ timer' = NoTimer
    BY <1>2 DEF InitializeConnectionState, Restart
  <2> QED BY <2>1, FramesStay
<1>3. ASSUME NEW a \in Pool, NEW p, ParseScorbitronObject(a, p) PROVE FrameStep /\ HandlerStep
  BY <1>3, FramesStay DEF ParseScorbitronObject
<1>4. ASSUME NEW a \in Pool, NEW h \in expired, TimerHandler(a, h)
      PROVE  FrameStep /\ HandlerStep
  BY <1>4, FramesStay DEF TimerHandler
<1>5. CASE OnPaired \/ OnUnpaired
  <2>1. UNCHANGED <<greeting, expired>> /\ timer' = NoTimer /\ Publication
    BY <1>5 DEF OnPaired, OnUnpaired, Restart
  <2>2. cur \in Clients /\ cur \notin destroyed
    BY <2>1 DEF Publication, Types, Places, Clients
  <2>3. frame' \in Clients /\ Stirs(frame')
    BY <2>1, <2>2 DEF Publication, Begins, Stirs
  <2>4. \A h \in Handlers' : h \in Handlers \/ h = NoTimer
    BY <2>1 DEF Handlers
  <2> QED BY <1>0, <2>1, <2>3, <2>4 DEF FrameStep, HandlerStep
<1>6. ASSUME NEW c \in Clients, Library(c) PROVE FrameStep /\ HandlerStep
  <2>1. UNCHANGED <<frame, expired, timer>> /\ (greeting' = greeting \/ Establish(c))
    BY <1>6 DEF Library, Establish, LinkLost, Drop
  <2>2. Establish(c) => Stirs(c) /\ greeting' = greeting \cup {c}
    BY DEF Establish, Stirs
  <2>3. FrameStep
    BY <2>1, <2>2 DEF FrameStep
  <2> QED BY <2>1, <2>3 DEF HandlerStep, Handlers
<1>7. ASSUME NEW c \in Clients, OnConnected(c) PROVE FrameStep /\ HandlerStep
  <2>1. UNCHANGED <<expired, timer>> /\ greeting' = greeting \ {c} /\ frame' = c /\ Stirs(c)
    BY <1>7 DEF OnConnected, OnStrand, Begins, Stirs
  <2> QED BY <2>1 DEF FrameStep, HandlerStep, Handlers
<1>8. ASSUME NEW c \in Clients, OnDisconnected(c) PROVE FrameStep /\ HandlerStep
  <2>1. UNCHANGED <<expired, greeting>> /\ frame' = c /\ Stirs(c) /\ c \notin greeting
    BY <1>8 DEF OnDisconnected, OnStrand, Begins, Stirs
  <2>2. \/ timer' = timer
        \/ timer' = [kind |-> "rebuild", id |-> 0]
        \/ timer' = [kind |-> "reset", id |-> c] /\ c = cur
    BY <1>8 DEF OnDisconnected
  <2>3. ASSUME NEW h \in Handlers'
        PROVE  \/ h \in Handlers \/ h.kind # "reset"
               \/ h.id = cur /\ cur \notin greeting /\ greeting' = greeting
    BY <2>1, <2>2 DEF Handlers
  <2> QED BY <2>1, <2>3 DEF FrameStep, HandlerStep
<1>9. CASE TimerExpires
  <2>1. /\ UNCHANGED <<cur, greeting, frame>>
        /\ expired' = expired \cup {timer} /\ timer' = NoTimer
        /\ timer.kind = "reset" => frame # timer.id
    BY <1>9 DEF TimerExpires
  <2>2. \A h \in Handlers' : h \in Handlers \/ h = NoTimer
    BY <2>1 DEF Handlers
  <2>3. HandlerStep
    BY <1>0, <2>1, <2>2 DEF HandlerStep, Handlers
  <2> QED BY <2>1, <2>3 DEF FrameStep
<1>10. CASE GracePasses \/ Stop \/ PostDisconnect \/ ShutdownDisconnect
  BY <1>10, FramesStay DEF GracePasses, Stop, PostDisconnect, ShutdownDisconnect
<1>11. CASE CallbackReturns
  <2>1. UNCHANGED <<greeting, expired, timer>> /\ frame' = 0
    BY <1>11 DEF CallbackReturns
  <2> QED BY <2>1 DEF FrameStep, HandlerStep, Handlers
<1> QED BY <1>1, <1>2, <1>3, <1>4, <1>5, <1>6, <1>7, <1>8, <1>9, <1>10, <1>11
        DEF Next, Callbacks

\* A client with nothing left on the strand stays so.
LEMMA StaysFree ==
  ASSUME FrameStep, NEW c \in Clients, ~Stirs(c)
  PROVE  /\ c \notin greeting => c \notin greeting'
         /\ frame # c => frame' # c
<1>1. c # 0
  BY DEF Clients
<1> QED BY <1>1 DEF FrameStep

LEMMA UnwindingKept ==
  ASSUME Undisturbed, Unwinding, FrameStep, HandlerStep
  PROVE  Unwinding'
<1>1. /\ Types /\ Places /\ HandlersBorn /\ Effect
      /\ RetiredUnwind /\ DestroyedQuiet /\ SetupQuiet /\ ResetQuiet
  BY DEF Undisturbed, Sequential
<1>2. PlaceStep
  BY <1>1, EffectPlaces
<1>3. ASSUME NEW c \in Clients, ~Stirs(c), Free(c) PROVE c \notin greeting' /\ frame' # c
  BY <1>3, StaysFree DEF Free
<1>4. ASSUME NEW j \in DOMAIN retired, retired[j].old
      PROVE  retired[j].id \notin greeting' /\ frame' # retired[j].id
  <2>1. retired[j].id \in Clients
    BY <1>1, PlacedClients DEF RetiredIds
  <2>2. Free(retired[j].id)
    BY <1>4 DEF Unwinding
  <2>3. ~Stirs(retired[j].id)
    BY <1>1, <1>4, <2>2 DEF RetiredUnwind, Stirs, Free
  <2> QED BY <1>3, <2>1, <2>2, <2>3
<1>5. ASSUME NEW k \in DOMAIN retired', retired'[k].old
      PROVE  retired'[k].id \notin greeting' /\ frame' # retired'[k].id
  <2>1. CASE \E j \in DOMAIN retired : retired'[k] = retired[j]
    BY <1>4, <1>5, <2>1
  <2>2. CASE retired'[k] = [id |-> cur, old |-> FALSE]
    BY <1>5, <2>2
  <2>3. CASE \E j \in DOMAIN retired :
               /\ retired'[k].id = retired[j].id /\ Free(retired[j].id)
               /\ UNCHANGED <<greeting, frame>>
    BY <2>3 DEF Free
  <2> QED BY <1>1, <1>2, <1>5, <2>1, <2>2, <2>3, RetiredAfter DEF Types
<1>6. ASSUME NEW a \in Actors, pc[a] \in {"setup", "assign"}, cur # 0
      PROVE  cur \notin greeting' /\ frame' # cur
  <2>1. cur \in Clients
    BY <1>1, <1>6 DEF Places, Types, Clients
  <2>2. Free(cur)
    BY <1>6 DEF Unwinding
  <2>3. ~Stirs(cur)
    BY <1>1, <1>6, <2>2 DEF SetupQuiet, Quiet, Stirs, Free
  <2> QED BY <1>3, <2>1, <2>2, <2>3
<1>7. ASSUME NEW h \in Handlers, h.kind = "reset", h.id = cur'
      PROVE  cur' = cur /\ cur \in Clients /\ cur \notin greeting /\ ~Stirs(cur)
  <2>1. cur' = cur /\ cur \in Clients
    BY <1>1, <1>7, ResetHolds
  <2>2. cur \notin greeting
    BY <1>7, <2>1 DEF Unwinding
  <2> QED BY <1>1, <1>7, <2>1, <2>2 DEF ResetQuiet, Quiet, Stirs
<1>8. ASSUME NEW c \in destroyed' PROVE c \notin greeting' /\ frame' # c
  <2>1. c \in destroyed \/ c \in Pruned \/ (Assigns /\ cur # 0 /\ c = cur)
    BY <1>2, <1>8 DEF PlaceStep, PlaceStays, Prunes, PruneRetiredCentrifugoClients, Retires,
                      Assigns, Ages
  <2>2. CASE c \in destroyed
    <3>1. c \in Clients
      BY <1>1, <2>2, PlacedClients
    <3> QED BY <1>3, <2>2, <3>1 DEF Unwinding, Stirs
  <2>3. CASE c \in Pruned
    <3>1. PICK j \in DOMAIN retired : retired[j].id = c /\ retired[j].old
      BY <1>1, <2>3, PrunedOld DEF Places, Entry
    <3> QED BY <1>4, <3>1
  <2>4. CASE Assigns /\ cur # 0 /\ c = cur
    <3>1. cur' # cur /\ cur' # 0
      BY <1>1, <2>4 DEF Assigns, Places, Types
    <3>2. PICK a \in Actors : Assigning(a)
      BY <1>1, <3>1, CurAfter
    <3> QED BY <1>6, <2>4, <3>2 DEF Assigning
  <2> QED BY <2>1, <2>2, <2>3, <2>4
<1>9. ASSUME NEW a \in Actors, pc'[a] \in {"setup", "assign"}, cur' # 0
      PROVE  cur' \notin greeting' /\ frame' # cur'
  <2>1. CASE pc[a] \in {"setup", "assign"}
    <3>1. cur' = cur /\ cur \in Clients
      BY <1>9, <2>1, HeldClient
    <3> QED BY <1>6, <1>9, <2>1, <3>1
  <2>2. CASE pc[a] \notin {"setup", "assign"}
    <3>1. Enters(a, "setup") \/ Walks(a, "setup") \/ Retiring(a)
      BY <1>1, <1>9, <2>2, ActorMoves DEF SetsUp
    <3>2. Enters(a, "setup") /\ cur' = cur
      BY <1>9, <3>1 DEF Enters, Walks, Retiring, Retires, PlaceStays
    <3>3. PICK h \in expired : h.kind = "reset" /\ h.id = cur
      BY <1>9, <3>2 DEF Enters
    <3>4. cur \in Clients /\ cur \notin greeting /\ ~Stirs(cur)
      BY <1>7, <3>2, <3>3 DEF Handlers
    <3>5. frame # cur
      BY <3>3 DEF Unwinding
    <3> QED BY <1>3, <3>2, <3>4, <3>5 DEF Free
  <2> QED BY <2>1, <2>2
<1>10. ASSUME NEW h \in Handlers', h.kind = "reset", h.id = cur' PROVE cur' \notin greeting'
  <2>1. CASE h \in Handlers
    BY <1>7, <1>10, <2>1, StaysFree
  <2>2. CASE h \notin Handlers
    BY <1>10, <2>2 DEF HandlerStep
  <2> QED BY <2>1, <2>2
<1>11. ASSUME NEW h \in expired', h.kind = "reset", h.id = cur' PROVE frame' # cur'
  <2>1. CASE h \in expired
    <3>1. cur' = cur /\ cur \in Clients /\ ~Stirs(cur)
      BY <1>7, <1>11, <2>1 DEF Handlers
    <3>2. frame # cur
      BY <1>11, <2>1, <3>1 DEF Unwinding
    <3> QED BY <3>1, <3>2, StaysFree
  <2>2. CASE h \notin expired
    BY <1>11, <2>2 DEF HandlerStep
  <2> QED BY <2>1, <2>2
<1> QED BY <1>5, <1>8, <1>9, <1>10, <1>11 DEF Unwinding, Free

LEMMA FramesInit == Init => FInv
  BY DEF Init, FInv, Unwinding, Handlers, NoTimer

LEMMA FramesKept == IInv /\ FInv /\ [Next]_vars => FInv'
<1>1. ASSUME IInv, FInv, UNCHANGED vars PROVE FInv'
  <2>1. Unwinding => Unwinding'
    BY <1>1 DEF vars, client, Unwinding, Free, Handlers
  <2> QED BY <1>1, <2>1 DEF FInv, vars
<1>2. ASSUME IInv, FInv, Next PROVE FInv'
  <2>1. /\ Types /\ Places /\ Unborn /\ HandlersBorn /\ CodesFinal
        /\ (dtor # "no" => stop)
    BY <1>2 DEF IInv
  <2>2. FrameStep /\ HandlerStep
    BY <1>2, <2>1, FramesNext
  <2>3. Effect /\ (~overlapped' => ~overlapped)
    BY <1>2, <2>1, NextEffects
  <2>4. ASSUME ~overlapped' PROVE Unwinding'
    <3>1. Sequential /\ Unwinding
      BY <1>2, <2>3, <2>4 DEF IInv, FInv
    <3>2. Undisturbed
      BY <2>1, <2>3, <2>4, <3>1 DEF Undisturbed
    <3> QED BY <2>2, <3>1, <3>2, UnwindingKept
  <2>5. frame' \in {0} \cup Clients
    BY <1>2, <2>2 DEF FrameStep, FInv
  <2> QED BY <2>4, <2>5 DEF FInv
<1> QED BY <1>1, <1>2

-----------------------------------------------------------------------------
(* The theorems *)

\* The inductive invariant: every client is in one place, nothing has happened to one that
\* is not created yet, and as long as no two actors met inside these functions, whoever
\* retires, replaces or resets the client finds it disconnected.
THEOREM Invariance == Spec => []IInv
<1>1. IInv /\ [Next]_vars => IInv'
  BY NextInv, StutterInv
<1> QED BY <1>1, InitInv, PTL DEF Spec

\* What holds of the callbacks under way, from the invariant: nobody destroys a client while
\* the strand has something to do for it.
THEOREM FramesInvariance == Spec => []FInv
  BY Invariance, FramesInit, FramesKept, PTL DEF Spec

\* Every reachable state is well typed, and each client created so far is in exactly one
\* place: m_centrifugo, m_retiredCentrifugoClients or destroyed.
THEOREM TypeCorrect == Spec => []TypeOK
<1>1. Init => Flags
  BY Zenon DEF Init, Flags
<1>2. Flags /\ [Next]_vars => Flags'
  <2>1. Flags /\ UNCHANGED vars => Flags'
    BY DEF vars, status, Flags
  <2> QED BY <2>1, FlagsKept
<1>3. IInv /\ FInv /\ Flags => TypeOK
  <2> SUFFICES ASSUME IInv, FInv, Flags PROVE TypeOK
    OBVIOUS
  <2>1. Types /\ Places
    BY DEF IInv
  <2>2. cur \in 0..created /\ destroyed \subseteq Clients
    BY <2>1, PlacedClients DEF Types, Places
  <2>3. {pending, channel, requested, stop, gaveUp, overlapped} \subseteq BOOLEAN
    BY Zenon DEF Flags
  <2> QED BY <2>1, <2>2, <2>3 DEF Types, Places, FInv, TypeOK, Stages
<1> QED BY <1>1, <1>2, <1>3, Invariance, FramesInvariance, PTL DEF Spec

\* No client is destroyed while a callback of it is queued, onConnected or onDisconnected, or
\* the strand is still inside one (retirement and its grace period; make_unique only over a
\* client whose onDisconnected has returned, because only that callback starts the timer),
\* unless two actors were inside these functions at once.
THEOREM NoDanglingCallback == Spec => []DestroyedUnwound
<1>1. IInv /\ FInv => DestroyedUnwound
  BY DEF IInv, FInv, Sequential, DestroyedQuiet, Quiet, Unwinding, Free, DestroyedUnwound
<1> QED BY <1>1, Invariance, FramesInvariance, PTL

\* Whichever of the connection and the machine's channel comes last, the credits status is
\* requested (onConnected and parseScorbitronObject), also when two threads interleave.
THEOREM CreditsAskedFor == Spec => []CreditsStatusNotMissed
<1>1. IInv => CreditsStatusNotMissed
  BY DEF IInv
<1> QED BY <1>1, Invariance, PTL

\* When ~Net joins the threads and they are idle, every client that exists is disconnected
\* or about to be, whatever was retired, assigned or restarted before.
THEOREM NothingLeftOpen == Spec => []ShutdownQuiet
<1>1. IInv => ShutdownQuiet
  <2> SUFFICES ASSUME IInv, dtor = "join", ~overlapped, NEW c \in Clients \ destroyed
               PROVE  st[c] = "Disconnected" \/ closing[c] = "asked"
    BY DEF ShutdownQuiet
  <2>1. Types /\ Places /\ Unborn /\ RetiredUnwind /\ Closed
    BY DEF IInv, Sequential
  <2>2. CASE c > created
    BY <2>1, <2>2 DEF Unborn
  <2>3. CASE c = cur
    BY <2>1, <2>3 DEF Closed, Clients
  <2>4. CASE ~(c > created) /\ c # cur
    <3>1. c \in 1..created
      BY <2>1, <2>4 DEF Types, Clients
    <3>2. c \in RetiredIds
      BY <2>1, <2>4, <3>1 DEF Places
    <3>3. PICK i \in DOMAIN retired : retired[i].id = c
      BY <3>2 DEF RetiredIds
    <3> QED BY <2>1, <3>3 DEF RetiredUnwind
  <2> QED BY <2>2, <2>3, <2>4
<1> QED BY <1>1, Invariance, PTL

=============================================================================
