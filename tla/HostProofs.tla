----------------------------- MODULE HostProofs -----------------------------
(***************************************************************************)
(* Proofs about Host and Remote: the callbacks a handle points to outlive  *)
(* its threads, no diagnostics archive is left behind, a diagnostic probe  *)
(* is answered once while its id is remembered, and the callback of a      *)
(* request is called once at most and, for one of the main thread, before  *)
(* its handle is gone; for any number of handles, objects, calls and       *)
(* messages.                                                               *)
(***************************************************************************)
EXTENDS Host, FiniteSetTheorems, TLAPS

-----------------------------------------------------------------------------
(* The objects that own callbacks *)

HandleSet == [st: {"none", "open", "closing", "joined", "stopping", "gone"}, ptr: [Kinds -> Nat],
              covered: BOOLEAN]
ConfigSet == [alive: BOOLEAN, own: SUBSET Nat, ptr: [Kinds -> Nat], key: BOOLEAN, valid: BOOLEAN]
StateSet  == [own: SUBSET Nat, h: Nets \cup {0}]
MainSet   == [h: Nets \cup {0}, slot: Slots \cup {0}]

ObjectTypes ==
    /\ config \in ConfigSet
    /\ state \in [Slots -> StateSet]
    /\ handle \in [Nets -> HandleSet]
    /\ main \in MainSet
    /\ next \in Nat

\* A GameState object owns what its handle points to.
Owns(s, h) ==
    /\ state[s].h = h
    /\ \A k \in Kinds : handle[h].ptr[k] \in state[s].own \cup {0}

Owned == \A h \in Nets : Threads(h) /\ handle[h].covered => \E s \in Slots : Owns(s, h)

\* An object's handle has not been destroyed, and no other object has it.
Attached == \A s \in Slots : state[s].h # 0 => Threads(state[s].h)
OneObject == \A s, r \in Slots : state[s].h = state[r].h /\ state[s].h # 0 => s = r

\* The object that the main thread is destroying is the one with the handle it waits for; a
\* move assignment has taken the handle from its object.
MainOwns ==
    /\ main.slot # 0 => state[main.slot].h = main.h
    /\ main.slot = 0 /\ main.h # 0 => \A s \in Slots : state[s].h # main.h

ObjectInv == ObjectTypes /\ Owned /\ Attached /\ OneObject /\ MainOwns

\* A step of the handle's life that leaves the objects alone.
Ages(h, st) ==
    /\ handle' = [handle EXCEPT ![h].st = st]
    /\ UNCHANGED <<config, state, next>>

ObjectStep ==
    \/ UNCHANGED <<state, handle, main>>
    \/ \E s \in Slots, h \in Nets : CreateGameState(s, h)
    \/ \E s \in Slots : \E lang \in {"cpp", "python"} : DestroyGameState(s, lang)
    \/ \E s, r \in Slots : MoveAssign(s, r)
    \/ \E h \in Nets : HandleDestroyed(h)
    \/ \E h \in Nets : \/ handle[h].st \in {"open", "closing"} /\ Ages(h, "joined") /\ main' = main
                       \/ handle[h].st = "joined" /\ Ages(h, "stopping") /\ main' = main

LEMMA NextObjects ==
  ASSUME Next
  PROVE  ObjectStep
<1>1. CASE CppSetsValues \/ PythonSetsValues \/ SetEncryptedKey \/ PythonSetsSigner
  BY <1>1 DEF ObjectStep, CppSetsValues, PythonSetsValues, SetValues, SetEncryptedKey, PythonSetsSigner,
              SetCallback
<1>2. ASSUME NEW k \in Kinds, CppSetsCallback(k) \/ PythonSetsCallback(k) PROVE ObjectStep
  BY <1>2 DEF ObjectStep, CppSetsCallback, PythonSetsCallback, SetCallback
<1>3. CASE DestroyConfig \/ InterpreterExits \/ SecondPasses
  BY <1>3 DEF ObjectStep, DestroyConfig, InterpreterExits, SecondPasses
<1>4. ASSUME NEW s \in Slots,
             CppDestroys(s) \/ PythonDestroys(s) \/ (\E r \in Slots : MoveAssign(s, r))
               \/ \E h \in Nets : CreateGameState(s, h)
      PROVE  ObjectStep
  BY <1>4 DEF ObjectStep, CppDestroys, PythonDestroys
<1>5. ASSUME NEW h \in Nets, DispatcherJoined(h) \/ HandleDestroyed(h) PROVE ObjectStep
  BY <1>5 DEF ObjectStep, DispatcherJoined, Ages
<1>6. ASSUME NEW h \in Nets, NEW kind, CppCalls(h, kind) \/ PythonCalls(h, kind) PROVE ObjectStep
  BY <1>6 DEF ObjectStep, CppCalls, PythonCalls, MainCalls
<1>7. ASSUME NEW h \in Nets, DispatchMain(h) PROVE ObjectStep
  BY <1>7 DEF ObjectStep, DispatchMain, Ages
<1>8. ASSUME NEW h \in Nets, DispatchOther(h) \/ StrandReply(h) PROVE ObjectStep
  BY <1>8 DEF ObjectStep, DispatchOther, StrandReply
<1>9. ASSUME NEW h \in Nets, NEW i, Deliver(h, i) PROVE ObjectStep
  BY <1>9 DEF ObjectStep, Deliver
<1>10. ASSUME NEW h \in Nets, Publication(h) \/ Authentication(h) PROVE ObjectStep
  BY <1>10 DEF ObjectStep, Publication, Authentication
<1>11. ASSUME UNCHANGED hostVars PROVE ObjectStep
  BY <1>11 DEF ObjectStep, hostVars
<1>12. ASSUME NEW t, Reply(t) PROVE ObjectStep
  BY <1>12 DEF ObjectStep, Reply
<1> QED BY <1>1, <1>2, <1>3, <1>4, <1>5, <1>6, <1>7, <1>8, <1>9, <1>10, <1>11, <1>12 DEF Next

LEMMA SetCallbackTypes ==
  ASSUME ObjectTypes, NEW k \in Kinds, NEW own \in SUBSET Nat, SetCallback(k, own)
  PROVE  config' \in ConfigSet /\ next' \in Nat
<1> PICK key : key = (config.key /\ k # "signer")
  OBVIOUS
<1> PICK ptr : ptr = [config.ptr EXCEPT ![k] = next]
  OBVIOUS
<1>0. config \in ConfigSet /\ next \in Nat
  BY DEF ObjectTypes
<1>1. key \in BOOLEAN
  BY <1>0, Zenon DEF ConfigSet
<1>2. ptr \in [Kinds -> Nat]
  BY <1>0 DEF ConfigSet
<1>3. config' = [config EXCEPT !.own = own, !.ptr = ptr, !.key = key] /\ next' = next + 1
  BY DEF SetCallback
<1> HIDE DEF SetCallback
<1>4. config' \in ConfigSet
  BY <1>0, <1>1, <1>2, <1>3 DEF ConfigSet
<1> QED BY <1>0, <1>3, <1>4

LEMMA ConfigAfter ==
  ASSUME ObjectTypes, Next
  PROVE  config' \in ConfigSet /\ next' \in Nat
<1> DEFINE Goal == config' \in ConfigSet /\ next' \in Nat
<1> SUFFICES Goal
  OBVIOUS
<1>0. ASSUME UNCHANGED <<config, next>> PROVE Goal
  BY <1>0 DEF ObjectTypes
<1>1. CASE CppSetsValues \/ PythonSetsValues
  BY <1>1 DEF CppSetsValues, PythonSetsValues, SetValues, ObjectTypes, ConfigSet
<1>2. CASE SetEncryptedKey
  BY <1>2 DEF SetEncryptedKey, ObjectTypes, ConfigSet, Kinds
<1>3. CASE PythonSetsSigner
  <2>1. "signer" \in Kinds /\ config.own \cup {next} \in SUBSET Nat
    BY DEF Kinds, ObjectTypes, ConfigSet
  <2> QED BY <1>3, <2>1, SetCallbackTypes DEF PythonSetsSigner
<1>4. ASSUME NEW k \in Kinds, CppSetsCallback(k) \/ PythonSetsCallback(k) PROVE Goal
  <2>1. /\ config.own \cup {next} \in SUBSET Nat
        /\ (config.own \ {config.ptr[k]}) \cup {next} \in SUBSET Nat
    BY DEF ObjectTypes, ConfigSet
  <2> QED BY <1>4, <2>1, SetCallbackTypes DEF CppSetsCallback, PythonSetsCallback
<1>5. CASE DestroyConfig
  BY <1>5 DEF DestroyConfig, ObjectTypes, ConfigSet
<1>6. CASE InterpreterExits \/ SecondPasses
  BY <1>0, <1>6 DEF InterpreterExits, SecondPasses
<1>7. ASSUME NEW s \in Slots, CppDestroys(s) \/ PythonDestroys(s) \/ \E r \in Slots : MoveAssign(s, r)
      PROVE  Goal
  BY <1>0, <1>7 DEF CppDestroys, PythonDestroys, DestroyGameState, MoveAssign
<1>8. ASSUME NEW s \in Slots, NEW h \in Nets, CreateGameState(s, h) PROVE Goal
  BY <1>8 DEF CreateGameState, CppTakes, PythonTakes, ObjectTypes, ConfigSet
<1>9. ASSUME NEW h \in Nets,
             \/ DispatcherJoined(h) \/ HandleDestroyed(h) \/ DispatchMain(h) \/ DispatchOther(h)
             \/ StrandReply(h) \/ Publication(h) \/ Authentication(h)
      PROVE  Goal
  BY <1>0, <1>9 DEF DispatcherJoined, HandleDestroyed, DispatchMain, DispatchOther, StrandReply,
                    Publication, Authentication
<1>10. ASSUME NEW h \in Nets, NEW kind, CppCalls(h, kind) \/ PythonCalls(h, kind) PROVE Goal
  BY <1>0, <1>10 DEF CppCalls, PythonCalls, MainCalls
<1>11. ASSUME NEW h \in Nets, NEW i, Deliver(h, i) PROVE Goal
  BY <1>0, <1>11 DEF Deliver
<1>12. ASSUME UNCHANGED hostVars PROVE Goal
  BY <1>0, <1>12 DEF hostVars
<1>13. ASSUME NEW t, Reply(t) PROVE Goal
  BY <1>0, <1>13 DEF Reply
<1> HIDE DEF Goal
<1> QED
  BY <1>1, <1>2, <1>3, <1>4, <1>5, <1>6, <1>7, <1>8, <1>9, <1>10, <1>11, <1>12, <1>13 DEF Next

\* A change of a handle's status other than its creation.
LEMMA StatusChange ==
  ASSUME ObjectTypes, NEW h \in Nets, NEW x \in {"closing", "joined", "stopping", "gone"},
         handle' = [handle EXCEPT ![h].st = x]
  PROVE  /\ handle' \in [Nets -> HandleSet]
         /\ handle'[h].st = x
         /\ \A g \in Nets : /\ handle'[g].ptr = handle[g].ptr
                            /\ handle'[g].covered = handle[g].covered
                            /\ g # h => handle'[g].st = handle[g].st
  BY DEF ObjectTypes, HandleSet

\* Nothing is created and no object loses its callbacks.
LEMMA OwnedStays ==
  ASSUME Owned, state' = state,
         \A g \in Nets : /\ handle'[g].ptr = handle[g].ptr
                         /\ handle'[g].covered = handle[g].covered
                         /\ Threads(g)' => Threads(g)
  PROVE  Owned'
<1> SUFFICES ASSUME NEW g \in Nets, Threads(g)', handle'[g].covered
             PROVE  \E s \in Slots : /\ state'[s].h = g
                                     /\ \A k \in Kinds : handle'[g].ptr[k] \in state'[s].own \cup {0}
  BY DEF Owned, Owns
<1>1. PICK s \in Slots : Owns(s, g)
  BY DEF Owned
<1> QED BY <1>1 DEF Owns

LEMMA ObjectsSame ==
  ASSUME ObjectInv, UNCHANGED <<state, handle, main>>
  PROVE  /\ handle' \in [Nets -> HandleSet] /\ state' \in [Slots -> StateSet] /\ main' \in MainSet
         /\ Owned' /\ Attached' /\ OneObject' /\ MainOwns'
<1>1. Owned'
  BY OwnedStays DEF ObjectInv, Threads
<1> QED BY <1>1 DEF ObjectInv, ObjectTypes, Attached, OneObject, MainOwns, Threads

LEMMA ObjectMade ==
  ASSUME ObjectInv, NEW s \in Slots, NEW h \in Nets, CreateGameState(s, h)
  PROVE  /\ handle' \in [Nets -> HandleSet] /\ state' \in [Slots -> StateSet] /\ main' \in MainSet
         /\ Owned' /\ Attached' /\ OneObject' /\ MainOwns'
<1> PICK cov : cov = (\A k \in Kinds : config.ptr[k] \in config.own \cup {0})
  OBVIOUS
<1>0. cov \in BOOLEAN
  BY Zenon
<1> PICK new : new = [st |-> "open", ptr |-> config.ptr, covered |-> cov]
  OBVIOUS
<1>1. handle' = [handle EXCEPT ![h] = new] /\ handle[h].st = "none"
  BY DEF CreateGameState
<1>2. /\ config \in ConfigSet /\ handle \in [Nets -> HandleSet] /\ state \in [Slots -> StateSet]
      /\ main \in MainSet /\ Attached /\ OneObject /\ 0 \notin Nets
  BY HostAssumption DEF ObjectInv, ObjectTypes
<1>3. new \in HandleSet /\ new.ptr = config.ptr /\ new.covered = cov /\ new.st = "open"
  BY <1>0, <1>2 DEF HandleSet, ConfigSet
<1>4. state' = [state EXCEPT ![s] = [own |-> config.own, h |-> h]]
  BY DEF CreateGameState, CppTakes, PythonTakes
<1>5. state[s].h = 0 /\ main' = main /\ main.h = 0 /\ main.slot = 0
  BY DEF CreateGameState, Ready, NoState, Idle
<1>6. handle' \in [Nets -> HandleSet] /\ state' \in [Slots -> StateSet]
  BY <1>1, <1>2, <1>3, <1>4 DEF ConfigSet, StateSet
<1>7. /\ handle'[h] = new /\ \A g \in Nets : g # h => handle'[g] = handle[g]
      /\ state'[s].h = h /\ state'[s].own = config.own
      /\ \A r \in Slots : r # s => state'[r] = state[r]
  BY <1>1, <1>2, <1>4
<1>8. ASSUME NEW g \in Nets, Threads(g)', handle'[g].covered
      PROVE  \E r \in Slots : /\ state'[r].h = g
                              /\ \A k \in Kinds : handle'[g].ptr[k] \in state'[r].own \cup {0}
  <2>1. CASE g = h
    <3>1. cov
      BY <1>3, <1>7, <1>8, <2>1
    <3> QED BY <1>3, <1>7, <2>1, <3>1
  <2>2. CASE g # h
    <3>1. handle'[g] = handle[g]
      BY <1>7, <2>2
    <3>2. Threads(g) /\ handle[g].covered
      BY <1>8, <3>1 DEF Threads
    <3>3. PICK r \in Slots : Owns(r, g)
      BY <3>2 DEF ObjectInv, Owned
    <3>4. r # s
      BY <1>2, <1>5, <3>3 DEF Owns
    <3> QED BY <1>7, <3>1, <3>3, <3>4 DEF Owns
  <2> QED BY <2>1, <2>2
<1>9. Owned'
  BY <1>8 DEF Owned, Owns
<1>10. ASSUME NEW r \in Slots, r # s, state[r].h # 0 PROVE state[r].h # h /\ state[r].h \in Nets
  BY <1>1, <1>2, <1>10 DEF Attached, Threads, StateSet
<1>11. Attached'
  <2>1. ASSUME NEW r \in Slots, state'[r].h # 0 PROVE handle'[state'[r].h].st \in {"open", "closing", "joined", "stopping"}
    BY <1>2, <1>3, <1>7, <1>10, <2>1 DEF Attached, Threads
  <2> QED BY <2>1 DEF Attached, Threads
<1>12. OneObject'
  BY <1>2, <1>7, <1>10 DEF OneObject
<1>13. MainOwns'
  BY <1>5 DEF MainOwns
<1> QED BY <1>2, <1>5, <1>6, <1>9, <1>11, <1>12, <1>13

\* The begin of a destruction, and a step of the threads.
LEMMA ObjectEnding ==
  ASSUME ObjectInv, NEW h \in Nets, NEW x \in {"closing", "joined", "stopping"}, Threads(h),
         handle' = [handle EXCEPT ![h].st = x], state' = state, main' \in MainSet, MainOwns'
  PROVE  /\ handle' \in [Nets -> HandleSet] /\ state' \in [Slots -> StateSet] /\ main' \in MainSet
         /\ Owned' /\ Attached' /\ OneObject' /\ MainOwns'
<1>1. ObjectTypes /\ Owned /\ Attached /\ OneObject
  BY DEF ObjectInv
<1>2. /\ handle' \in [Nets -> HandleSet] /\ handle'[h].st = x
      /\ \A g \in Nets : /\ handle'[g].ptr = handle[g].ptr
                         /\ handle'[g].covered = handle[g].covered
                         /\ g # h => handle'[g].st = handle[g].st
  BY <1>1, StatusChange
<1>3. \A g \in Nets : Threads(g)' <=> Threads(g)
  BY <1>2 DEF Threads
<1>4. Owned'
  BY <1>1, <1>2, <1>3, OwnedStays
<1>5. Attached'
  <2>1. \A r \in Slots : state[r].h # 0 => state[r].h \in Nets
    BY <1>1 DEF ObjectTypes, StateSet
  <2>2. \A r \in Slots : state[r].h # 0 => handle'[state[r].h].st \in {"open", "closing", "joined", "stopping"}
    BY <1>1, <1>3, <2>1 DEF Attached, Threads
  <2> QED BY <2>2 DEF Attached, Threads
<1>6. OneObject'
  BY <1>1 DEF OneObject
<1> QED BY <1>1, <1>2, <1>4, <1>5, <1>6 DEF ObjectTypes

LEMMA ObjectUnmade ==
  ASSUME ObjectInv, NEW s \in Slots, NEW lang, DestroyGameState(s, lang)
  PROVE  /\ handle' \in [Nets -> HandleSet] /\ state' \in [Slots -> StateSet] /\ main' \in MainSet
         /\ Owned' /\ Attached' /\ OneObject' /\ MainOwns'
<1> PICK h : h = state[s].h
  OBVIOUS
<1>1. h \in Nets /\ h # 0 /\ Threads(h)
  BY DEF ObjectInv, ObjectTypes, StateSet, Attached, DestroyGameState
<1>2. /\ handle' = [handle EXCEPT ![h].st = "closing"] /\ state' = state
      /\ main' = [h |-> h, slot |-> s]
  BY DEF DestroyGameState, BeginDestroy
<1>3. main' \in MainSet
  BY <1>1, <1>2 DEF MainSet
<1>4. MainOwns'
  BY <1>2, HostAssumption DEF MainOwns
<1> QED BY <1>1, <1>2, <1>3, <1>4, ObjectEnding

LEMMA ObjectMoved ==
  ASSUME ObjectInv, NEW s \in Slots, NEW r \in Slots, MoveAssign(s, r)
  PROVE  /\ handle' \in [Nets -> HandleSet] /\ state' \in [Slots -> StateSet] /\ main' \in MainSet
         /\ Owned' /\ Attached' /\ OneObject' /\ MainOwns'
<1> PICK h : h = state[s].h
  OBVIOUS
<1>1. /\ ObjectTypes /\ Owned /\ Attached /\ OneObject /\ 0 \notin Nets
      /\ s # r /\ h # 0 /\ state[r].h # 0
  BY HostAssumption DEF ObjectInv, MoveAssign
<1>2. h \in Nets /\ Threads(h)
  BY <1>1 DEF ObjectTypes, StateSet, Attached
<1>3. /\ state' = [state EXCEPT ![s] = state[r], ![r] = NoState]
      /\ handle' = [handle EXCEPT ![h].st = "closing", ![h].covered = FALSE]
      /\ main' = [h |-> h, slot |-> 0]
  BY DEF MoveAssign
<1>4. /\ handle' \in [Nets -> HandleSet] /\ handle'[h].st = "closing" /\ ~handle'[h].covered
      /\ \A g \in Nets : g # h => handle'[g] = handle[g]
  <2>1. handle' \in [Nets -> HandleSet]
    BY <1>1, <1>2, <1>3 DEF ObjectTypes, HandleSet
  <2>2. handle'[h].st = "closing" /\ ~handle'[h].covered
    BY <1>1, <1>2, <1>3 DEF ObjectTypes, HandleSet
  <2>3. \A g \in Nets : g # h => handle'[g] = handle[g]
    BY <1>1, <1>2, <1>3 DEF ObjectTypes
  <2> QED BY <2>1, <2>2, <2>3
<1>5. /\ state' \in [Slots -> StateSet] /\ state'[s] = state[r] /\ state'[r].h = 0
      /\ \A q \in Slots : q # s /\ q # r => state'[q] = state[q]
  <2>1. NoState \in StateSet /\ NoState.h = 0
    BY DEF NoState, StateSet
  <2> QED BY <1>1, <1>3, <2>1 DEF ObjectTypes
<1>6. main' \in MainSet
  BY <1>2, <1>3 DEF MainSet
<1>7. \A q \in Slots : q # s => state[q].h # h
  BY <1>1 DEF OneObject
<1>8. MainOwns'
  BY <1>1, <1>3, <1>5, <1>7 DEF MainOwns
<1>9. OneObject'
  BY <1>1, <1>5 DEF OneObject
<1>10. \A g \in Nets : Threads(g)' <=> Threads(g)
  BY <1>2, <1>4 DEF Threads
<1>11. Attached'
  <2>1. ASSUME NEW q \in Slots, state'[q].h # 0
        PROVE  state'[q].h \in Nets /\ Threads(state'[q].h)
    BY <1>1, <1>5, <2>1 DEF Attached, ObjectTypes, StateSet
  <2>2. \A q \in Slots : state'[q].h # 0 => handle'[state'[q].h].st \in {"open", "closing", "joined", "stopping"}
    BY <1>10, <2>1 DEF Threads
  <2> QED BY <2>2 DEF Attached, Threads
<1>12. ASSUME NEW g \in Nets, Threads(g)', handle'[g].covered
       PROVE  \E q \in Slots : /\ state'[q].h = g
                               /\ \A k \in Kinds : handle'[g].ptr[k] \in state'[q].own \cup {0}
  <2>1. g # h
    BY <1>4, <1>12
  <2>2. handle'[g] = handle[g]
    BY <1>4, <2>1
  <2>3. PICK q \in Slots : Owns(q, g)
    BY <1>1, <1>10, <1>12, <2>2 DEF Owned
  <2>4. q # s
    BY <2>1, <2>3 DEF Owns
  <2>5. CASE q = r
    BY <1>5, <2>2, <2>3, <2>5 DEF Owns
  <2>6. CASE q # r
    BY <1>5, <2>2, <2>3, <2>4, <2>6 DEF Owns
  <2> QED BY <2>5, <2>6
<1>13. Owned'
  BY <1>12 DEF Owned, Owns
<1> QED BY <1>4, <1>5, <1>6, <1>8, <1>9, <1>11, <1>13

LEMMA ObjectEnded ==
  ASSUME ObjectInv, NEW h \in Nets, HandleDestroyed(h)
  PROVE  /\ handle' \in [Nets -> HandleSet] /\ state' \in [Slots -> StateSet] /\ main' \in MainSet
         /\ Owned' /\ Attached' /\ OneObject' /\ MainOwns'
<1>1. ObjectTypes /\ Owned /\ Attached /\ OneObject /\ MainOwns /\ 0 \notin Nets
  BY HostAssumption DEF ObjectInv
<1>2. /\ handle' = [handle EXCEPT ![h].st = "gone"]
      /\ state' = (IF main.slot = 0 THEN state ELSE [state EXCEPT ![main.slot] = NoState])
      /\ main' = Idle /\ main.h = h
  BY DEF HandleDestroyed
<1>3. /\ handle' \in [Nets -> HandleSet] /\ handle'[h].st = "gone"
      /\ \A g \in Nets : /\ handle'[g].ptr = handle[g].ptr
                         /\ handle'[g].covered = handle[g].covered
                         /\ g # h => handle'[g].st = handle[g].st
  BY <1>1, <1>2, StatusChange
<1>4. /\ state' \in [Slots -> StateSet]
      /\ \A q \in Slots : state[q].h = h \/ state[q].h = 0 => state'[q].h = 0
      /\ \A q \in Slots : state[q].h # h => state'[q] = state[q]
  <2>1. NoState \in StateSet /\ NoState.h = 0
    BY DEF NoState, StateSet
  <2>2. CASE main.slot = 0
    <3>1. \A q \in Slots : state[q].h # h
      BY <1>1, <1>2, <2>2 DEF MainOwns
    <3> QED BY <1>1, <1>2, <2>2, <3>1 DEF ObjectTypes
  <2>3. CASE main.slot # 0
    <3>1. main.slot \in Slots /\ state[main.slot].h = h
      BY <1>1, <1>2, <2>3 DEF MainOwns, ObjectTypes, MainSet
    <3>2. \A q \in Slots : state[q].h = h => q = main.slot
      BY <1>1, <3>1 DEF OneObject
    <3> QED BY <1>1, <1>2, <2>1, <2>3, <3>1, <3>2 DEF ObjectTypes
  <2> QED BY <2>2, <2>3
<1>5. main' \in MainSet /\ MainOwns'
  BY <1>2 DEF Idle, MainSet, MainOwns
<1>6. OneObject'
  BY <1>1, <1>4 DEF OneObject
<1>7. \A g \in Nets : g # h => (Threads(g)' <=> Threads(g))
  BY <1>3 DEF Threads
<1>8. Attached'
  <2>1. ASSUME NEW q \in Slots, state'[q].h # 0
        PROVE  state'[q].h \in Nets /\ state'[q].h # h /\ Threads(state'[q].h)
    <3>1. state[q].h # h
      BY <1>4, <2>1
    <3> QED BY <1>1, <1>4, <2>1, <3>1 DEF Attached, ObjectTypes, StateSet
  <2>2. \A q \in Slots : state'[q].h # 0 => handle'[state'[q].h].st \in {"open", "closing", "joined", "stopping"}
    BY <1>7, <2>1 DEF Threads
  <2> QED BY <2>2 DEF Attached, Threads
<1>9. ASSUME NEW g \in Nets, Threads(g)', handle'[g].covered
      PROVE  \E q \in Slots : /\ state'[q].h = g
                              /\ \A k \in Kinds : handle'[g].ptr[k] \in state'[q].own \cup {0}
  <2>1. g # h
    BY <1>3, <1>9 DEF Threads
  <2>2. PICK q \in Slots : Owns(q, g)
    BY <1>1, <1>3, <1>7, <1>9, <2>1 DEF Owned
  <2> QED BY <1>3, <1>4, <2>1, <2>2 DEF Owns
<1>10. Owned'
  BY <1>9 DEF Owned, Owns
<1> QED BY <1>3, <1>4, <1>5, <1>6, <1>8, <1>10

LEMMA ObjectsKept ==
  ASSUME ObjectInv, Next
  PROVE  ObjectInv'
<1> DEFINE Goal == /\ handle' \in [Nets -> HandleSet] /\ state' \in [Slots -> StateSet] /\ main' \in MainSet
                   /\ Owned' /\ Attached' /\ OneObject' /\ MainOwns'
<1>1. Goal
  <2>1. ASSUME NEW h \in Nets, NEW x \in {"joined", "stopping"}, Threads(h), Ages(h, x), main' = main
        PROVE  Goal
    <3>1. main' \in MainSet /\ MainOwns'
      BY <2>1 DEF Ages, ObjectInv, ObjectTypes, MainOwns
    <3> QED BY <2>1, <3>1, ObjectEnding DEF Ages
  <2>2. ASSUME NEW h \in Nets, handle[h].st \in {"open", "closing", "joined"} PROVE Threads(h)
    BY <2>2 DEF Threads
  <2>3. ObjectStep
    BY NextObjects
  <2>4. CASE UNCHANGED <<state, handle, main>>
    BY <2>4, ObjectsSame
  <2> HIDE DEF Goal
  <2>5. ASSUME NEW s \in Slots, NEW h \in Nets, CreateGameState(s, h) PROVE Goal
    BY <2>5, ObjectMade DEF Goal
  <2>6. ASSUME NEW s \in Slots, NEW lang, DestroyGameState(s, lang) PROVE Goal
    BY <2>6, ObjectUnmade DEF Goal
  <2>7. ASSUME NEW s \in Slots, NEW r \in Slots, MoveAssign(s, r) PROVE Goal
    BY <2>7, ObjectMoved DEF Goal
  <2>8. ASSUME NEW h \in Nets, HandleDestroyed(h) PROVE Goal
    BY <2>8, ObjectEnded DEF Goal
  <2> QED BY <2>1, <2>2, <2>3, <2>4, <2>5, <2>6, <2>7, <2>8 DEF ObjectStep
<1>2. ObjectTypes
  BY DEF ObjectInv
<1>3. config' \in ConfigSet /\ next' \in Nat
  BY <1>2, ConfigAfter
<1> QED BY <1>1, <1>3 DEF ObjectInv, ObjectTypes

LEMMA ObjectsInit ==
  ASSUME Init
  PROVE  ObjectInv
<1> USE DEF Init
<1>1. NoPtr \in [Kinds -> Nat] /\ Idle \in MainSet /\ NoState \in StateSet
  BY DEF NoPtr, Idle, MainSet, NoState, StateSet
<1>2. config \in ConfigSet
  BY <1>1 DEF ConfigSet
<1>3. NoHandle \in HandleSet /\ NoHandle.st = "none"
  BY <1>1 DEF NoHandle, HandleSet
<1>4. ObjectTypes
  BY <1>1, <1>2, <1>3 DEF ObjectTypes
<1>5. \A h \in Nets : ~Threads(h)
  BY <1>3 DEF Threads
<1>6. (\A s \in Slots : state[s].h = 0) /\ main.slot = 0 /\ main.h = 0
  BY DEF NoState, Idle
<1> QED BY <1>4, <1>5, <1>6 DEF ObjectInv, Owned, Attached, OneObject, MainOwns

\* The callbacks a handle points to exist as long as its threads (GameState, Config): an object
\* takes what the configuration owns when the handle is made (CreateGameState), keeps it while
\* the handle's threads run, and a later setter replaces only what the configuration still has.
THEOREM CallbacksOutliveThreads == Spec => []CallbackAlive
<1>1. Init => ObjectInv
  BY ObjectsInit
<1>2. ObjectInv /\ [Next]_vars => ObjectInv'
  <2> SUFFICES ASSUME ObjectInv, Next \/ UNCHANGED vars
               PROVE  ObjectInv'
    OBVIOUS
  <2>1. CASE Next
    BY <2>1, ObjectsKept
  <2>2. CASE UNCHANGED vars
    <3>1. UNCHANGED <<config, state, handle, main, next>>
      BY <2>2 DEF vars, hostVars
    <3> QED BY <3>1, ObjectsSame DEF ObjectInv, ObjectTypes
  <2> QED BY <2>1, <2>2
<1>3. ObjectInv => CallbackAlive
  <2> SUFFICES ASSUME ObjectInv, NEW h \in Nets, Threads(h), handle[h].covered, NEW k \in Kinds
               PROVE  handle[h].ptr[k] \in Alive \cup {0}
    BY DEF CallbackAlive
  <2>1. PICK s \in Slots : Owns(s, h)
    BY DEF ObjectInv, Owned
  <2> QED BY <2>1 DEF Owns, Alive
<1> QED BY <1>1, <1>2, <1>3, PTL DEF Spec

-----------------------------------------------------------------------------
(* Jobs and tasks that hold the callback of a request *)

SeqHas(s, c)  == \E i \in DOMAIN s : s[i].cb = c
SeqOnce(s, c) == \A i, k \in DOMAIN s : s[i].cb = c /\ s[k].cb = c => i = k

BagHas(B, c)  == \E x \in BagToSet(B) : x.cb = c
BagOnce(B, c) == \A x \in BagToSet(B) : x.cb = c => B[x] = 1 /\ \A y \in BagToSet(B) : y.cb = c => x = y

LEMMA SeqAppended ==
  ASSUME NEW X, NEW s \in Seq(X), NEW x \in X, NEW c
  PROVE  /\ SeqHas(Append(s, x), c) <=> SeqHas(s, c) \/ x.cb = c
         /\ SeqOnce(s, c) /\ x.cb # c => SeqOnce(Append(s, x), c)
         /\ ~SeqHas(s, c) => SeqOnce(Append(s, x), c)
<1> PICK n \in Nat : n = Len(s)
  OBVIOUS
<1> PICK z : z = Append(s, x)
  OBVIOUS
<1>1. /\ DOMAIN s = 1..n /\ DOMAIN z = 1..(n + 1)
      /\ z[n + 1] = x /\ \A i \in 1..n : z[i] = s[i]
  OBVIOUS
<1>2. \A i \in DOMAIN z : i \in DOMAIN s \/ i = n + 1
  BY <1>1
<1>3. SeqHas(z, c) <=> SeqHas(s, c) \/ x.cb = c
  BY <1>1, <1>2 DEF SeqHas
<1>4. SeqOnce(s, c) /\ x.cb # c => SeqOnce(z, c)
  BY <1>1, <1>2 DEF SeqOnce
<1>5. ~SeqHas(s, c) => SeqOnce(z, c)
  BY <1>1, <1>2 DEF SeqOnce, SeqHas
<1> QED BY <1>3, <1>4, <1>5

LEMMA SeqTailed ==
  ASSUME NEW X, NEW s \in Seq(X), s # <<>>, NEW c
  PROVE  /\ SeqHas(Tail(s), c) => SeqHas(s, c)
         /\ SeqHas(s, c) /\ Head(s).cb # c => SeqHas(Tail(s), c)
         /\ SeqOnce(s, c) => SeqOnce(Tail(s), c)
         /\ SeqOnce(s, c) /\ Head(s).cb = c => ~SeqHas(Tail(s), c)
<1> PICK n \in Nat : n = Len(s)
  OBVIOUS
<1> PICK z : z = Tail(s)
  OBVIOUS
<1>1. /\ n > 0 /\ DOMAIN s = 1..n /\ DOMAIN z = 1..(n - 1)
      /\ Head(s) = s[1] /\ \A i \in 1..(n - 1) : z[i] = s[i + 1]
  OBVIOUS
<1>2. \A i \in DOMAIN z : i + 1 \in DOMAIN s /\ i + 1 # 1 /\ z[i] = s[i + 1]
  BY <1>1
<1>3. \A i \in DOMAIN s : i # 1 => i - 1 \in DOMAIN z /\ z[i - 1] = s[i]
  BY <1>1
<1>4. SeqHas(z, c) => SeqHas(s, c)
  BY <1>2 DEF SeqHas
<1>5. SeqHas(s, c) /\ Head(s).cb # c => SeqHas(z, c)
  BY <1>1, <1>3 DEF SeqHas
<1>6. SeqOnce(s, c) => SeqOnce(z, c)
  <2> SUFFICES ASSUME SeqOnce(s, c), NEW i \in DOMAIN z, NEW k \in DOMAIN z, z[i].cb = c, z[k].cb = c
               PROVE  i = k
    BY DEF SeqOnce
  <2>1. i + 1 = k + 1
    BY <1>2 DEF SeqOnce
  <2> QED BY <1>1, <2>1
<1>7. SeqOnce(s, c) /\ Head(s).cb = c => ~SeqHas(z, c)
  BY <1>1, <1>2 DEF SeqOnce, SeqHas
<1> QED BY <1>4, <1>5, <1>6, <1>7

\* The first task changes, but not the callback it holds.
LEMMA SeqRestaged ==
  ASSUME NEW X, NEW s \in Seq(X), s # <<>>, NEW y, y.cb = s[1].cb, NEW c
  PROVE  /\ SeqHas([s EXCEPT ![1] = y], c) <=> SeqHas(s, c)
         /\ SeqOnce(s, c) => SeqOnce([s EXCEPT ![1] = y], c)
<1> PICK z : z = [s EXCEPT ![1] = y]
  OBVIOUS
<1>1. DOMAIN z = DOMAIN s /\ \A i \in DOMAIN s : z[i].cb = s[i].cb
  OBVIOUS
<1> QED BY <1>1 DEF SeqHas, SeqOnce

LEMMA BagAdded ==
  ASSUME NEW B, NEW x, NEW c
  PROVE  /\ BagToSet(BagAdd(B, x)) = BagToSet(B) \cup {x}
         /\ BagHas(BagAdd(B, x), c) <=> BagHas(B, c) \/ x.cb = c
         /\ BagOnce(B, c) /\ x.cb # c => BagOnce(BagAdd(B, x), c)
         /\ ~BagHas(B, c) => BagOnce(BagAdd(B, x), c)
<1> PICK A : A = BagAdd(B, x)
  OBVIOUS
<1>1. DOMAIN A = DOMAIN B \cup {x} /\ (x \notin DOMAIN B => A[x] = 1)
      /\ \A y \in DOMAIN B : y # x => A[y] = B[y]
  BY DEF BagAdd
<1>2. BagHas(A, c) <=> BagHas(B, c) \/ x.cb = c
  BY <1>1 DEF BagHas, BagToSet
<1>3. BagOnce(B, c) /\ x.cb # c => BagOnce(A, c)
  BY <1>1 DEF BagOnce, BagToSet
<1>4. ~BagHas(B, c) => BagOnce(A, c)
  BY <1>1 DEF BagOnce, BagHas, BagToSet
<1> QED BY <1>1, <1>2, <1>3, <1>4 DEF BagToSet

LEMMA BagRemoved ==
  ASSUME NEW B, NEW x, NEW c
  PROVE  /\ BagToSet(BagRemove(B, x)) \subseteq BagToSet(B)
         /\ BagToSet(B) \ {x} \subseteq BagToSet(BagRemove(B, x))
         /\ BagHas(BagRemove(B, x), c) => BagHas(B, c)
         /\ BagHas(B, c) /\ x.cb # c => BagHas(BagRemove(B, x), c)
         /\ BagOnce(B, c) /\ x.cb # c => BagOnce(BagRemove(B, x), c)
         /\ BagOnce(B, c) /\ x.cb = c /\ x \in BagToSet(B) => ~BagHas(BagRemove(B, x), c)
<1> PICK A : A = BagRemove(B, x)
  OBVIOUS
<1>1. /\ DOMAIN A \subseteq DOMAIN B /\ DOMAIN B \ {x} \subseteq DOMAIN A
      /\ \A y \in DOMAIN A : y # x => A[y] = B[y]
      /\ x \in DOMAIN B /\ B[x] = 1 => x \notin DOMAIN A
  BY DEF BagRemove
<1>2. BagHas(A, c) => BagHas(B, c)
  BY <1>1 DEF BagHas, BagToSet
<1>3. BagHas(B, c) /\ x.cb # c => BagHas(A, c)
  BY <1>1 DEF BagHas, BagToSet
<1>4. BagOnce(B, c) /\ x.cb # c => BagOnce(A, c)
  BY <1>1 DEF BagOnce, BagToSet
<1>5. BagOnce(B, c) /\ x.cb = c /\ x \in BagToSet(B) => ~BagHas(A, c)
  BY <1>1 DEF BagOnce, BagHas, BagToSet
<1> QED BY <1>1, <1>2, <1>3, <1>4, <1>5 DEF BagToSet

-----------------------------------------------------------------------------
(* Tasks of the pool and of the strands *)

NetSet == [running: BOOLEAN, scorbitron: BOOLEAN, status: Statuses, stop: BOOLEAN, code: BOOLEAN,
           seen: SUBSET Traces]

TaskKinds == Requested \cup {"firmwares", "publish", "pairCode", "download", "downloadBuffer"}
Stages == {"wait", "send", "init", "reply", "run", "collect", "write", "check"}
TaskSet == [h: Nets, kind: TaskKinds, stage: Stages, tries: Nat, cb: Nat, file: Nat]

\* A task of the pool: only some kinds hold a callback, and those alone stop at a reply; an
\* upload has a file from the moment its archive is opened.
PoolTask(t) ==
    /\ t \in TaskSet
    /\ t.cb # 0 => t.kind \in {"unpair", "pairMachine"}
    /\ t.stage \in {"init", "reply"} => t.cb # 0
    /\ t.kind = "upload" /\ t.stage = "collect" => t.file = 0

\* A task just posted.
NewTask(t) == PoolTask(t) /\ t.file = 0

LEMMA TaskIsNew ==
  ASSUME NEW h \in Nets, NEW kind, NEW stage, NEW cb \in Nat,
         \/ kind \in {"object", "config", "plain", "capabilities"} /\ stage = "wait" /\ cb = 0
         \/ kind \in {"unpair", "pairMachine"} /\ stage = "wait"
         \/ kind = "publish" /\ stage = "run" /\ cb = 0
         \/ kind = "upload" /\ stage = "collect" /\ cb = 0
  PROVE  /\ NewTask(Task(h, kind, stage, cb))
         /\ Task(h, kind, stage, cb).h = h /\ Task(h, kind, stage, cb).cb = cb
  BY RemoteAssumption DEF Task, NewTask, PoolTask, TaskSet, TaskKinds, Stages, Requested

LEMMA TaskIsQueued ==
  ASSUME NEW h \in Nets, NEW kind \in TaskKinds, NEW cb \in Nat
  PROVE  /\ Task(h, kind, "wait", cb) \in TaskSet
         /\ Task(h, kind, "wait", cb).h = h /\ Task(h, kind, "wait", cb).cb = cb
  BY RemoteAssumption DEF Task, TaskSet, Stages

\* What a step does to a task of the pool, and to the archives with it: it goes on as another
\* one, or ends.
GoesOnAs(t, u) == PoolTask(u) /\ u.h = t.h /\ u.kind = t.kind /\ u.cb = t.cb

GoesOn(t, u) ==
    /\ GoesOnAs(t, u)
    /\ pool' = BagAdd(BagRemove(pool, t), u)
    /\ \/ u.file = t.file /\ files' \subseteq files
       \/ t.kind = "upload" /\ t.file = 0 /\ files' \subseteq files \cup {u.file}
    /\ botched' = botched

Ends(t) ==
    /\ pool' = BagRemove(pool, t)
    /\ files' \subseteq files /\ botched \subseteq botched'
    /\ t.kind = "upload" => t.file \notin files' \/ t.file \in botched'

\* The tasks after an authentication.
Connects(h, B) ==
    /\ pool' = BagAdd(BagAdd(B, Task(h, "object", "wait", 0)), Task(h, "config", "wait", 0))
    /\ UNCHANGED <<files, botched>>
    /\ \/ strand' = strand
       \/ strand' = [strand EXCEPT ![h] = Append(@, Task(h, "firmwares", "wait", 0))]

StatusSet(h) == net' = net \/ \E s \in Statuses : net' = [net EXCEPT ![h].status = s]

TaskStep(t) ==
    /\ \/ (\E u : GoesOn(t, u)) /\ strand' = strand
       \/ Ends(t) /\ t.cb = 0 /\ strand' = strand
       \/ \E u : /\ GoesOnAs(t, u) /\ u.file = t.file
                 /\ Connects(t.h, BagAdd(BagRemove(pool, t), u))
    /\ StatusSet(t.h)
    /\ files' \subseteq Nat \ {0}
    /\ UNCHANGED <<second, answers>>

LEMMA RequestEnded ==
  ASSUME NEW t, PoolTask(t), t.kind \in Requested, t.stage \in {"wait", "send"},
         net \in [Nets -> NetSet], files \subseteq Nat \ {0},
         NEW err, AfterRequest(t, err), UNCHANGED <<strand, second, botched, answers>>
  PROVE  TaskStep(t)
<1>1. StatusSet(t.h)
  <2>1. net[t.h].status \in Statuses
    BY DEF NetSet, PoolTask, TaskSet
  <2>2. {"Unpaired", "Paired"} \subseteq Statuses
    BY DEF Statuses
  <2> QED BY <2>1, <2>2 DEF AfterRequest, StatusSet
<1>2. files' \subseteq files /\ (t.kind = "upload" => t.file \notin files')
  BY DEF AfterRequest, FilesAfter
<1>3. CASE t.cb = 0
  <2>1. Ends(t)
    BY <1>2, <1>3 DEF AfterRequest, Ends, Ended
  <2> QED BY <1>1, <1>2, <1>3, <2>1 DEF TaskStep
<1>4. CASE t.cb # 0
  <2> PICK x : x = IF t.kind = "pairMachine" /\ err = "Success" THEN "init" ELSE "reply"
    OBVIOUS
  <2> PICK u : u = [t EXCEPT !.stage = x]
    OBVIOUS
  <2>1. pool' = BagAdd(BagRemove(pool, t), u)
    BY <1>4 DEF AfterRequest, Advance
  <2>2. GoesOnAs(t, u) /\ u.file = t.file
    BY <1>4 DEF GoesOnAs, PoolTask, TaskSet, Stages
  <2>3. GoesOn(t, u)
    BY <1>2, <2>1, <2>2 DEF GoesOn
  <2> QED BY <1>1, <1>2, <2>3 DEF TaskStep
<1> QED BY <1>3, <1>4

LEMMA TaskStays ==
  ASSUME NEW t, NEW u, GoesOnAs(t, u), u.file = t.file, Advance(t, u), files \subseteq Nat \ {0},
         UNCHANGED <<net, files, strand, second, botched, answers>>
  PROVE  TaskStep(t)
<1>1. GoesOn(t, u)
  BY DEF GoesOn, Advance
<1> QED BY <1>1 DEF TaskStep, StatusSet

LEMMA TaskGone ==
  ASSUME NEW t, Ended(t), t.cb = 0, t.kind = "upload" => t.file \notin files \/ t.file \in botched',
         files \subseteq Nat \ {0}, botched \subseteq botched', UNCHANGED <<net, files, strand, second, answers>>
  PROVE  TaskStep(t)
<1>1. Ends(t)
  BY DEF Ends, Ended
<1> QED BY <1>1 DEF TaskStep, StatusSet

LEMMA PoolRan ==
  ASSUME NEW t, PoolTask(t), net \in [Nets -> NetSet], files \subseteq Nat \ {0}, second \in Nat \ {0},
         \/ RequestWakes(t) \/ RequestAnswered(t) \/ MachinePaired(t) \/ Publishes(t)
         \/ NothingToUpload(t) \/ ArchiveOpens(t) \/ ArchiveWritten(t) \/ ArchiveChecked(t)
  PROVE  TaskStep(t)
<1>0. t \in TaskSet
  BY DEF PoolTask
<1> DEFINE Staged(x) == [t EXCEPT !.stage = x]
<1>1. ASSUME NEW x \in {"wait", "send", "write", "check"}
      PROVE  GoesOnAs(t, Staged(x)) /\ Staged(x).file = t.file
  BY <1>0 DEF GoesOnAs, PoolTask, TaskSet, Stages
<1> HIDE DEF Staged
<1>2. ASSUME RequestWakes(t) PROVE TaskStep(t)
  <2>1. CASE net[t.h].status \in Allowed(t.kind)
    <3>1. Advance(t, Staged("send")) /\ UNCHANGED <<net, files, strand, second, botched, answers>>
      BY <1>2, <2>1 DEF RequestWakes, Staged
    <3> QED BY <1>1, <3>1, TaskStays
  <2>2. CASE net[t.h].status \notin Allowed(t.kind)
    <3>1. PICK err : AfterRequest(t, err)
      BY <1>2, <2>2 DEF RequestWakes
    <3>2. UNCHANGED <<strand, second, botched, answers>> /\ t.kind \in Requested /\ t.stage = "wait"
      BY <1>2 DEF RequestWakes
    <3> QED BY <3>1, <3>2, RequestEnded
  <2> QED BY <2>1, <2>2
<1>3. ASSUME RequestAnswered(t) PROVE TaskStep(t)
  <2>0. UNCHANGED <<strand, second, botched, answers>> /\ t.kind \in Requested /\ t.stage = "send"
    BY <1>3 DEF RequestAnswered
  <2>1. ASSUME NEW err, AfterRequest(t, err) PROVE TaskStep(t)
    BY <2>0, <2>1, RequestEnded
  <2>2. ASSUME t.tries > 1, Advance(t, [t EXCEPT !.stage = "wait", !.tries = @ - 1]), UNCHANGED <<net, events, files>>
        PROVE  TaskStep(t)
    <3> PICK u : u = [t EXCEPT !.stage = "wait", !.tries = @ - 1]
      OBVIOUS
    <3>1. u = [t EXCEPT !.stage = "wait", !.tries = t.tries - 1] /\ t.tries - 1 \in Nat
      BY <1>0, <2>2 DEF TaskSet
    <3>2. GoesOnAs(t, u) /\ u.file = t.file
      BY <1>0, <3>1 DEF GoesOnAs, PoolTask, TaskSet, Stages
    <3> QED BY <2>0, <2>2, <3>2, TaskStays
  <2> QED BY <1>3, <2>1, <2>2 DEF RequestAnswered
<1>4. ASSUME MachinePaired(t) PROVE TaskStep(t)
  <2> PICK u : u = [t EXCEPT !.stage = "reply"]
    OBVIOUS
  <2>0. t.stage = "init" /\ UNCHANGED <<net, events, files, second, botched, answers>>
        /\ InitializeConnectionState(t.h, BagAdd(BagRemove(pool, t), u))
    BY <1>4 DEF MachinePaired
  <2>1. GoesOnAs(t, u) /\ u.file = t.file
    BY <1>0, <2>0 DEF GoesOnAs, PoolTask, TaskSet, Stages
  <2>2. Task(t.h, "firmwares", "wait", 0).h = t.h
    BY DEF Task
  <2>3. Connects(t.h, BagAdd(BagRemove(pool, t), u))
    BY <2>0, <2>2 DEF InitializeConnectionState, RequestFirmwaresList, PostQueue, Connects
  <2> QED BY <2>0, <2>1, <2>3 DEF TaskStep, StatusSet
<1>5. ASSUME Publishes(t) PROVE TaskStep(t)
  <2>1. t.cb = 0 /\ t.kind # "upload"
    BY <1>5 DEF Publishes, PoolTask
  <2> QED BY <1>5, <2>1, TaskGone DEF Publishes
<1>6. ASSUME t.kind = "upload", Ended(t), t.file \notin files \/ t.file \in botched', botched \subseteq botched',
             UNCHANGED <<net, files, strand, second, answers>>
      PROVE  TaskStep(t)
  BY <1>6, TaskGone DEF PoolTask
<1>7. ASSUME NothingToUpload(t) PROVE TaskStep(t)
  <2>1. t.file \notin files
    BY <1>7 DEF NothingToUpload, PoolTask
  <2> QED BY <1>6, <1>7, <2>1 DEF NothingToUpload
<1>8. ASSUME ArchiveOpens(t) PROVE TaskStep(t)
  <2>0. t.kind = "upload" /\ t.file = 0 /\ UNCHANGED <<net, strand, second, botched, answers>>
    BY <1>8 DEF ArchiveOpens, PoolTask
  <2>1. CASE Ended(t) /\ UNCHANGED files
    BY <1>6, <2>0, <2>1
  <2>2. CASE files' = files \cup {second} /\ Advance(t, [t EXCEPT !.stage = "write", !.file = second])
    <3> PICK u : u = [t EXCEPT !.stage = "write", !.file = second]
      OBVIOUS
    <3>1. GoesOnAs(t, u) /\ u.file = second
      BY <1>0, <2>0 DEF GoesOnAs, PoolTask, TaskSet, Stages
    <3>2. GoesOn(t, u)
      BY <2>0, <2>2, <3>1 DEF GoesOn, Advance
    <3> QED BY <2>0, <2>2, <3>2 DEF TaskStep, StatusSet
  <2> QED BY <1>8, <2>1, <2>2 DEF ArchiveOpens
<1>9. ASSUME ArchiveWritten(t) PROVE TaskStep(t)
  <2>0. t.kind = "upload" /\ UNCHANGED <<net, strand, files, second, answers>>
    BY <1>9 DEF ArchiveWritten
  <2>1. CASE Advance(t, [t EXCEPT !.stage = "check"]) /\ UNCHANGED <<events, botched>>
    BY <1>1, <2>0, <2>1, TaskStays DEF Staged
  <2>2. CASE Ended(t) /\ botched' = botched \cup {t.file}
    BY <1>6, <2>0, <2>2
  <2> QED BY <1>9, <2>1, <2>2 DEF ArchiveWritten
<1>10. ASSUME ArchiveChecked(t) PROVE TaskStep(t)
  <2>0. t.kind = "upload" /\ UNCHANGED <<net, strand, files, second, botched, answers>>
    BY <1>10 DEF ArchiveChecked
  <2>1. CASE t.file \in files
    <3>1. Advance(t, Staged("wait"))
      BY <1>10, <2>1 DEF ArchiveChecked, Staged
    <3> QED BY <1>1, <2>0, <3>1, TaskStays
  <2>2. CASE t.file \notin files
    BY <1>6, <1>10, <2>0, <2>2 DEF ArchiveChecked
  <2> QED BY <2>1, <2>2
<1> QED BY <1>2, <1>3, <1>4, <1>5, <1>7, <1>8, <1>9, <1>10

-----------------------------------------------------------------------------
(* Jobs, and the callbacks of single requests *)

SceneSet == [lang: {"cpp", "python"}, scorbitron: BOOLEAN, calls: SUBSET (Commands \cup Asks),
             msgs: SUBSET Messages, make: Nat, sets: Nat, ask: Nat, chain: Nat, msg: Nat, auth: Nat,
             ticks: Nat, drop: BOOLEAN]

\* Only a job that asks for something holds a callback.
CallSet == {j \in [kind: Commands \cup Asks, cb: Nat] : j.cb # 0 => j.kind \in Asks}
Poison == [kind |-> "poison", cb |-> 0]
JobSet == CallSet \cup {Poison}
JobBags == UNION {[D -> Nat \ {0}] : D \in SUBSET CallSet}
ShotSet == [h: Nets, from: {"main", "other"}, st: {"held", "freed"}, called: Nat]

LEMMA BagOfJobs ==
  ASSUME NEW B \in JobBags
  PROVE  /\ \A x \in CallSet : BagAdd(B, x) \in JobBags
         /\ \A x : BagRemove(B, x) \in JobBags
         /\ BagToSet(B) \subseteq CallSet
<1>1. PICK D \in SUBSET CallSet : B \in [D -> Nat \ {0}]
  BY DEF JobBags
<1>2. ASSUME NEW x \in CallSet PROVE BagAdd(B, x) \in JobBags
  <2>1. BagAdd(B, x) \in [D \cup {x} -> Nat \ {0}]
    BY <1>1 DEF BagAdd
  <2>2. D \cup {x} \in SUBSET CallSet
    OBVIOUS
  <2> QED BY <2>1, <2>2 DEF JobBags
<1>3. ASSUME NEW x PROVE BagRemove(B, x) \in JobBags
  <2>1. CASE x \in D /\ B[x] # 1
    <3>1. BagRemove(B, x) \in [D -> Nat \ {0}]
      BY <1>1, <2>1 DEF BagRemove
    <3> QED BY <3>1 DEF JobBags
  <2>2. CASE x \in D /\ B[x] = 1
    <3>1. BagRemove(B, x) \in [D \ {x} -> Nat \ {0}] /\ D \ {x} \in SUBSET CallSet
      BY <1>1, <2>2 DEF BagRemove
    <3> QED BY <3>1 DEF JobBags
  <2>3. CASE x \notin D
    BY <1>1, <2>3 DEF BagRemove
  <2> QED BY <2>1, <2>2, <2>3
<1> QED BY <1>1, <1>2, <1>3 DEF BagToSet

LEMMA UsedScene ==
  ASSUME scene \in SceneSet, NEW b \in {"make", "sets", "ask", "chain", "msg", "auth", "ticks"},
         scene[b] > 0, Used(b)
  PROVE  scene' \in SceneSet
<1> PICK n : n = scene[b] - 1
  OBVIOUS
<1>1. n \in Nat
  BY DEF SceneSet
<1>2. scene' = [scene EXCEPT ![b] = n]
  BY DEF Used
<1> HIDE DEF Used
<1> QED BY <1>1, <1>2 DEF SceneSet

JobQueues == [main: Seq(JobSet), other: JobBags]
StrandSet == {t \in TaskSet : t.kind = "firmwares" => t.cb = 0}

WorkTypes ==
    /\ scene \in SceneSet
    /\ net \in [Nets -> NetSet]
    /\ jobs \in [Nets -> JobQueues]
    /\ shots \in Seq(ShotSet)
    /\ strand \in [Nets -> Seq(StrandSet)]

\* The task a job becomes.
Posted(h, c) == \E x : NewTask(x) /\ x.h = h /\ x.cb = c /\ pool' = BagAdd(pool, x) /\ strand' = strand
Queued(h, c) == \E x \in StrandSet : x.cb = c /\ strand' = [strand EXCEPT ![h] = Append(@, x)] /\ pool' = pool

Forwarded(h, c) == Posted(h, c) \/ Queued(h, c) \/ (c = 0 /\ UNCHANGED <<pool, strand>>)

LEMMA JobForwarded ==
  ASSUME NEW h \in Nets, NEW j \in CallSet, Forward(h, j)
  PROVE  Forwarded(h, j.cb)
<1>0. /\ j.cb \in Nat /\ j.kind \in Commands \cup Asks
      /\ j.kind \in Commands => j.cb = 0
  BY DEF CallSet, Commands, GameCalls, Asks
<1>1. ASSUME NEW kind, NEW stage, NewTask(Task(h, kind, stage, j.cb)), Task(h, kind, stage, j.cb).h = h,
             Task(h, kind, stage, j.cb).cb = j.cb, Post(Task(h, kind, stage, j.cb)), strand' = strand
      PROVE  Posted(h, j.cb)
  BY <1>1 DEF Posted, Post
<1>2. ASSUME NEW kind \in {"pairCode", "download", "downloadBuffer"}, PostQueue(Task(h, kind, "wait", j.cb)), pool' = pool
      PROVE  Queued(h, j.cb)
  <2>1. /\ Task(h, kind, "wait", j.cb) \in TaskSet /\ Task(h, kind, "wait", j.cb).h = h
        /\ Task(h, kind, "wait", j.cb).cb = j.cb /\ Task(h, kind, "wait", j.cb).kind = kind
    <3>1. kind \in TaskKinds
      BY DEF TaskKinds
    <3> QED BY <1>0, <3>1, TaskIsQueued DEF Task
  <2>2. Task(h, kind, "wait", j.cb) \in StrandSet
    BY <2>1 DEF StrandSet
  <2> QED BY <1>2, <2>1, <2>2 DEF Queued, PostQueue
<1>3. CASE j.kind = "unpair" \/ j.kind = "pairMachine"
  <2>1. Post(Task(h, j.kind, "wait", j.cb)) /\ strand' = strand
    BY <1>3 DEF Forward, RequestUnpair, RequestPairMachine
  <2> QED BY <1>0, <1>1, <1>3, <2>1, TaskIsNew DEF Forwarded
<1>4. CASE j.kind = "pairCode" \/ j.kind = "download" \/ j.kind = "downloadBuffer"
  <2>1. PostQueue(Task(h, j.kind, "wait", j.cb)) /\ pool' = pool
    BY <1>4 DEF Forward, RequestPairCode, Download
  <2> QED BY <1>2, <1>4, <2>1 DEF Forwarded
<1>5. CASE j.kind \in Commands
  <2>0. j.cb = 0
    BY <1>0, <1>5
  <2>1. CASE UNCHANGED <<pool, strand>>
    BY <2>0, <2>1 DEF Forwarded
  <2>2. ASSUME NEW kind \in {"capabilities", "plain"}, Post(Task(h, kind, "wait", 0)), strand' = strand
        PROVE  Posted(h, j.cb)
    BY <1>0, <1>1, <2>0, <2>2, TaskIsNew
  <2>3. ASSUME Post(Task(h, "publish", "run", 0)), strand' = strand PROVE Posted(h, j.cb)
    BY <1>0, <1>1, <2>0, <2>3, TaskIsNew
  <2>4. ASSUME Post(Task(h, "upload", "collect", 0)), strand' = strand PROVE Posted(h, j.cb)
    BY <1>0, <1>1, <2>0, <2>4, TaskIsNew
  <2>5. CASE j.kind = "capabilities"
    BY <2>1, <2>2, <2>5 DEF Forward, SetCapabilities, Forwarded
  <2>6. CASE j.kind = "creditsDropped"
    BY <2>2, <2>6 DEF Forward, SetCreditsDropped, Forwarded
  <2>7. CASE j.kind = "creditsStatus"
    BY <2>3, <2>7 DEF Forward, SetCreditsStatus, Forwarded
  <2>8. CASE j.kind = "upload"
    BY <2>4, <2>8 DEF Forward, UploadDiagnostics, Forwarded
  <2>9. CASE j.kind = "game"
    BY <2>1, <2>9 DEF Forward
  <2> QED BY <1>5, <2>5, <2>6, <2>7, <2>8, <2>9 DEF Commands, GameCalls
<1> QED BY <1>0, <1>3, <1>4, <1>5 DEF Asks

\* The application's function has returned: it may have made a call, whose job is lost or with
\* the other threads' jobs.
AppAsks(h, sh, js) ==
    \E j \in CallSet :
        /\ \/ j.cb = 0 /\ shots' = sh
           \/ j.cb = Len(sh) + 1 /\ shots' = Append(sh, NewShot(h, "other"))
        /\ jobs' = js \/ jobs' = [js EXCEPT ![h].other = BagAdd(@, j)]

Returned(h, sh, js) == (shots' = sh /\ jobs' = js) \/ AppAsks(h, sh, js)

LEMMA CallbackMade ==
  ASSUME NEW h \in Nets, NEW kind \in Commands \cup Asks, NEW sh \in Seq(ShotSet), NEW js,
         CallbackCalls(h, kind, sh, js)
  PROVE  AppAsks(h, sh, js)
<1> PICK cb : cb = IF kind \in Asks THEN Len(sh) + 1 ELSE 0
  OBVIOUS
<1> PICK j : j = [kind |-> kind, cb |-> cb]
  OBVIOUS
<1>1. j \in CallSet /\ j.cb = cb
  BY DEF CallSet
<1>2. /\ shots' = IF kind \in Asks THEN Append(sh, NewShot(h, "other")) ELSE sh
      /\ jobs' = js \/ jobs' = [js EXCEPT ![h].other = BagAdd(@, j)]
  BY DEF CallbackCalls
<1> HIDE DEF CallbackCalls
<1> QED BY <1>1, <1>2 DEF AppAsks

LEMMA AppReturned ==
  ASSUME scene \in SceneSet, NEW h \in Nets, NEW sh \in Seq(ShotSet), NEW js, AppReturns(h, sh, js)
  PROVE  Returned(h, sh, js) /\ scene' \in SceneSet
<1>1. CASE shots' = sh /\ jobs' = js /\ UNCHANGED scene
  BY <1>1 DEF Returned
<1>2. ASSUME scene.chain > 0, Used("chain"), NEW kind \in scene.calls, CallbackCalls(h, kind, sh, js)
      PROVE  Returned(h, sh, js) /\ scene' \in SceneSet
  <2>1. kind \in Commands \cup Asks
    BY DEF SceneSet
  <2>2. AppAsks(h, sh, js)
    BY <1>2, <2>1, CallbackMade
  <2>3. scene["chain"] > 0
    BY <1>2
  <2> QED BY <1>2, <2>2, <2>3, UsedScene DEF Returned
<1> QED BY <1>1, <1>2 DEF AppReturns

LEMMA ReturnedTypes ==
  ASSUME NEW h \in Nets, NEW sh \in Seq(ShotSet), NEW js \in [Nets -> JobQueues], Returned(h, sh, js)
  PROVE  shots' \in Seq(ShotSet) /\ jobs' \in [Nets -> JobQueues]
<1>1. CASE shots' = sh /\ jobs' = js
  BY <1>1
<1>2. CASE AppAsks(h, sh, js)
  <2>1. PICK j \in CallSet :
          /\ \/ j.cb = 0 /\ shots' = sh
             \/ j.cb = Len(sh) + 1 /\ shots' = Append(sh, NewShot(h, "other"))
          /\ jobs' = js \/ jobs' = [js EXCEPT ![h].other = BagAdd(@, j)]
    BY <1>2 DEF AppAsks
  <2>2. NewShot(h, "other") \in ShotSet
    BY DEF NewShot, ShotSet
  <2>3. shots' \in Seq(ShotSet)
    BY <2>1, <2>2
  <2>4. BagAdd(js[h].other, j) \in JobBags
    BY BagOfJobs DEF JobQueues
  <2>5. jobs' \in [Nets -> JobQueues]
    BY <2>1, <2>4 DEF JobQueues
  <2> QED BY <2>3, <2>5
<1> QED BY <1>1, <1>2 DEF Returned

\* What a call of a callback changes in what the wrapper knows of it.
LEMMA CalledShots ==
  ASSUME shots \in Seq(ShotSet), NEW cb
  PROVE  /\ Called(cb) \in Seq(ShotSet) /\ DOMAIN Called(cb) = DOMAIN shots
         /\ Len(Called(cb)) = Len(shots)
         /\ \A c \in DOMAIN shots : /\ Called(cb)[c].h = shots[c].h
                                    /\ Called(cb)[c].from = shots[c].from
                                    /\ c # cb => Called(cb)[c].called = shots[c].called
                                    /\ c = cb => Called(cb)[c].called = shots[c].called + 1
<1>1. CASE cb \in DOMAIN shots
  <2> PICK n : n = shots[cb].called + 1
    OBVIOUS
  <2>0. shots[cb] \in ShotSet
    BY <1>1
  <2>1. PICK y \in ShotSet : /\ Called(cb) = [shots EXCEPT ![cb] = y]
                             /\ y.h = shots[cb].h /\ y.from = shots[cb].from /\ y.called = n
    <3>0. n \in Nat
      BY <2>0 DEF ShotSet
    <3>1. [shots[cb] EXCEPT !.called = n] \in ShotSet /\ [shots[cb] EXCEPT !.called = n, !.st = "freed"] \in ShotSet
      BY <2>0, <3>0 DEF ShotSet
    <3>2. CppCalled(cb) = [shots EXCEPT ![cb] = [shots[cb] EXCEPT !.called = n, !.st = "freed"]]
      BY <1>1, <2>0 DEF CppCalled, ShotSet
    <3>3. PythonCalled(cb) = [shots EXCEPT ![cb] = [shots[cb] EXCEPT !.called = n]]
      BY <1>1, <2>0 DEF PythonCalled, ShotSet
    <3> QED BY <2>0, <3>1, <3>2, <3>3 DEF Called, ShotSet
  <2> QED BY <1>1, <2>1
<1>2. CASE cb \notin DOMAIN shots
  <2>1. Called(cb) = shots
    BY <1>2 DEF Called, CppCalled, PythonCalled
  <2> QED BY <1>2, <2>1
<1> QED BY <1>1, <1>2

\* The steps of the threads, by what they do to jobs, tasks and callbacks.
RanJob(h, c, js) ==
    /\ UNCHANGED <<net, files, second, botched, answers>>
    /\ \/ UNCHANGED <<pool, strand>> /\ Returned(h, Called(c), js)
       \/ Forwarded(h, c) /\ jobs' = js /\ shots' = shots

LEMMA JobRun ==
  ASSUME WorkTypes, NEW h \in Nets, NEW j \in CallSet, NEW js, RunJob(h, j, js)
  PROVE  RanJob(h, j.cb, js) /\ scene' \in SceneSet
<1>0. scene \in SceneSet /\ Called(j.cb) \in Seq(ShotSet)
  BY CalledShots DEF WorkTypes
<1>1. CASE AtOnce(h, j)
  <2>1. AppReturns(h, Called(j.cb), js) /\ UNCHANGED <<pool, strand>>
    BY <1>1 DEF RunJob
  <2>2. Returned(h, Called(j.cb), js) /\ scene' \in SceneSet
    BY <1>0, <2>1, AppReturned
  <2> QED BY <2>1, <2>2 DEF RanJob, RunJob
<1>2. CASE ~AtOnce(h, j)
  <2>1. Forward(h, j) /\ jobs' = js /\ UNCHANGED <<shots, scene>>
    BY <1>2 DEF RunJob
  <2>2. Forwarded(h, j.cb)
    BY <2>1, JobForwarded
  <2> QED BY <1>0, <2>1, <2>2 DEF RanJob, RunJob
<1> QED BY <1>1, <1>2

\* The job a thread takes, and the queues without it.
TakesMain(h, j, js) ==
    /\ jobs[h].main # <<>> /\ j = Head(jobs[h].main)
    /\ js = [jobs EXCEPT ![h].main = Tail(jobs[h].main)]

TakesOther(h, j, js) ==
    /\ j \in BagToSet(jobs[h].other)
    /\ js = [jobs EXCEPT ![h].other = BagRemove(jobs[h].other, j)]

LEMMA JobTaken ==
  ASSUME WorkTypes, NEW h \in Nets, NEW j, NEW js, TakesMain(h, j, js) \/ TakesOther(h, j, js)
  PROVE  /\ js \in [Nets -> JobQueues]
         /\ TakesMain(h, j, js) => j \in JobSet
         /\ TakesOther(h, j, js) => j \in CallSet
<1>1. jobs \in [Nets -> JobQueues] /\ jobs[h].main \in Seq(JobSet) /\ jobs[h].other \in JobBags
  BY DEF WorkTypes, JobQueues
<1>2. ASSUME TakesMain(h, j, js) PROVE js \in [Nets -> JobQueues] /\ j \in JobSet
  <2>1. j \in JobSet /\ Tail(jobs[h].main) \in Seq(JobSet)
    BY <1>1, <1>2 DEF TakesMain
  <2> QED BY <1>1, <1>2, <2>1 DEF TakesMain, JobQueues
<1>3. ASSUME TakesOther(h, j, js) PROVE js \in [Nets -> JobQueues] /\ j \in CallSet
  <2>1. j \in CallSet /\ BagRemove(jobs[h].other, j) \in JobBags
    BY <1>1, <1>3, BagOfJobs DEF TakesOther
  <2> QED BY <1>1, <1>3, <2>1 DEF TakesOther, JobQueues
<1> QED BY <1>2, <1>3

LEMMA DispatchedMain ==
  ASSUME WorkTypes, NEW h \in Nets, DispatchMain(h)
  PROVE  /\ scene' \in SceneSet
         /\ \E j, js : /\ TakesMain(h, j, js)
                       /\ \/ RanJob(h, j.cb, js) /\ handle' = handle /\ j.kind # "poison"
                          \/ /\ j.kind = "poison" /\ jobs' = js /\ UNCHANGED <<remoteVars, shots>>
                             /\ handle' = [handle EXCEPT ![h].st = "joined"]
<1> PICK j : j = Head(jobs[h].main)
  OBVIOUS
<1> PICK js : js = [jobs EXCEPT ![h].main = Tail(jobs[h].main)]
  OBVIOUS
<1>1. TakesMain(h, j, js)
  BY DEF TakesMain, DispatchMain
<1>2. j \in JobSet
  BY <1>1, JobTaken
<1>3. js = [jobs EXCEPT ![h].main = Tail(@)]
  OBVIOUS
<1>4. CASE j.kind = "poison"
  <2>1. /\ jobs' = js /\ UNCHANGED <<remoteVars, shots, scene>>
        /\ handle' = [handle EXCEPT ![h].st = "joined"]
    BY <1>3, <1>4 DEF DispatchMain
  <2> QED BY <1>1, <1>4, <2>1 DEF WorkTypes
<1>5. CASE j.kind # "poison"
  <2>1. RunJob(h, j, js) /\ handle' = handle
    BY <1>3, <1>5 DEF DispatchMain
  <2>2. j \in CallSet
    BY <1>2, <1>5 DEF JobSet, Poison
  <2> QED BY <1>1, <1>5, <2>1, <2>2, JobRun
<1> QED BY <1>4, <1>5

LEMMA DispatchedOther ==
  ASSUME WorkTypes, NEW h \in Nets, DispatchOther(h)
  PROVE  /\ scene' \in SceneSet
         /\ \E j, js : TakesOther(h, j, js) /\ RanJob(h, j.cb, js) /\ handle' = handle
<1>1. PICK j \in BagToSet(jobs[h].other) : RunJob(h, j, [jobs EXCEPT ![h].other = BagRemove(@, j)])
  BY DEF DispatchOther
<1> PICK js : js = [jobs EXCEPT ![h].other = BagRemove(jobs[h].other, j)]
  OBVIOUS
<1>2. RunJob(h, j, js) /\ TakesOther(h, j, js)
  BY <1>1 DEF TakesOther
<1>3. j \in CallSet
  BY <1>2, JobTaken
<1> QED BY <1>2, <1>3, JobRun DEF DispatchOther

LEMMA Replied ==
  ASSUME WorkTypes, NEW t, t.h \in Nets, Reply(t)
  PROVE  /\ scene' \in SceneSet
         /\ pool' = BagRemove(pool, t) /\ Returned(t.h, Called(t.cb), jobs)
<1>1. Called(t.cb) \in Seq(ShotSet)
  BY CalledShots DEF WorkTypes
<1> QED BY <1>1, AppReturned DEF WorkTypes, Reply, Ended

LEMMA StrandReplied ==
  ASSUME WorkTypes, NEW h \in Nets, StrandReply(h)
  PROVE  /\ scene' \in SceneSet /\ strand[h] # <<>>
         /\ strand' = [strand EXCEPT ![h] = Tail(strand[h])]
         /\ Returned(h, Called(Head(strand[h]).cb), jobs)
<1>1. Called(Head(strand[h]).cb) \in Seq(ShotSet)
  BY CalledShots DEF WorkTypes
<1> QED BY <1>1, AppReturned DEF WorkTypes, StrandReply, StrandTask, StrandNext

LEMMA Delivered ==
  ASSUME WorkTypes, NEW h \in Nets, NEW i, Deliver(h, i)
  PROVE  Returned(h, shots, jobs)
<1>1. \/ UNCHANGED <<jobs, shots>>
      \/ \E kind \in {"creditsDropped", "creditsStatus", "upload", "game"} : CallbackCalls(h, kind, shots, jobs)
  BY DEF Deliver
<1>2. \A kind \in {"creditsDropped", "creditsStatus", "upload", "game"} : kind \in Commands \cup Asks
  BY DEF Commands, GameCalls
<1> QED BY <1>1, <1>2, CallbackMade DEF WorkTypes, Returned

Published(h) ==
    \/ \E id \in Traces : HandleDiagnosticProbe(h, id)
    \/ /\ UNCHANGED <<net, answers>>
       /\ Posted(h, 0) \/ UNCHANGED <<pool, strand>>

LEMMA MessageHandled ==
  ASSUME NEW h \in Nets, NEW msg, OnPublication(h, msg)
  PROVE  Published(h)
<1>1. \/ \E id \in Traces : HandleDiagnosticProbe(h, id)
      \/ /\ UNCHANGED <<net, answers>>
         /\ \/ RequestSessionData(h)
            \/ GetConfig(h)
            \/ UNCHANGED <<pool, strand>>
  BY DEF OnPublication
<1>2. ASSUME NEW kind \in {"plain", "config"}, Post(Task(h, kind, "wait", 0)), strand' = strand
      PROVE  Posted(h, 0)
  <2>1. NewTask(Task(h, kind, "wait", 0)) /\ Task(h, kind, "wait", 0).h = h /\ Task(h, kind, "wait", 0).cb = 0
    BY TaskIsNew
  <2> QED BY <1>2, <2>1 DEF Posted, Post
<1>3. RequestSessionData(h) \/ GetConfig(h) => Posted(h, 0)
  BY <1>2 DEF RequestSessionData, GetConfig
<1> QED BY <1>1, <1>3 DEF Published

\* The first task of a strand goes on, or it is a list of firmwares and has ended.
StrandMoves(h) ==
    /\ strand[h] # <<>>
    /\ \/ strand' = [strand EXCEPT ![h] = Tail(strand[h])] /\ Head(strand[h]).cb = 0
       \/ \E y \in StrandSet : /\ y.cb = strand[h][1].cb
                               /\ strand' = [strand EXCEPT ![h] = [strand[h] EXCEPT ![1] = y]]

LEMMA StrandRan ==
  ASSUME WorkTypes, NEW h \in Nets, StrandRuns(h)
  PROVE  StrandMoves(h)
<1>0. strand[h] # <<>> /\ strand[h] \in Seq(StrandSet) /\ strand \in [Nets -> Seq(StrandSet)]
  BY DEF WorkTypes, StrandRuns
<1> PICK t : t = strand[h][1]
  OBVIOUS
<1>1. t \in StrandSet /\ t = Head(strand[h])
  BY <1>0
<1>2. ASSUME StrandStage(h, "reply") PROVE StrandMoves(h)
  <2> PICK y : y = [t EXCEPT !.stage = "reply"]
    OBVIOUS
  <2>1. y \in StrandSet /\ y.cb = t.cb
    BY <1>1 DEF StrandSet, TaskSet, Stages
  <2>2. strand' = [strand EXCEPT ![h] = [strand[h] EXCEPT ![1] = y]]
    BY <1>0, <1>2 DEF StrandStage
  <2> QED BY <1>0, <2>1, <2>2 DEF StrandMoves
<1>3. ASSUME TryAgain(h) PROVE StrandMoves(h)
  <2> PICK y : y = [t EXCEPT !.tries = t.tries - 1]
    OBVIOUS
  <2>0. t.tries > 1 /\ t.tries \in Nat
    BY <1>1, <1>3 DEF TryAgain, StrandTask, StrandSet, TaskSet
  <2>1. y \in StrandSet /\ y.cb = t.cb
    BY <1>1, <2>0 DEF StrandSet, TaskSet
  <2>2. strand' = [strand EXCEPT ![h] = [strand[h] EXCEPT ![1] = y]]
    BY <1>0, <1>3 DEF TryAgain
  <2> QED BY <1>0, <2>1, <2>2 DEF StrandMoves
<1>4. ASSUME FirmwaresListed(h) PROVE StrandMoves(h)
  <2>1. strand' = [strand EXCEPT ![h] = Tail(strand[h])] /\ t.kind = "firmwares"
    BY <1>1, <1>4 DEF FirmwaresListed, StrandNext, StrandTask
  <2>2. Head(strand[h]).cb = 0
    BY <1>1, <2>1 DEF StrandSet
  <2> QED BY <1>0, <2>1, <2>2 DEF StrandMoves
<1> QED BY <1>2, <1>3, <1>4 DEF StrandRuns, PairCodeArrives, FileTried, BufferTried

-----------------------------------------------------------------------------
(* Archives and probes *)

\* Tasks belong to handles that were made, and a worker that does not run has opened no archive.
Housed ==
    /\ \A t \in BagToSet(pool) : /\ PoolTask(t) /\ handle[t.h].st # "none"
                                 /\ ~net[t.h].running => t.file = 0
    /\ \A h \in Nets : net[h].running => handle[h].st # "none"
    /\ files \subseteq Nat \ {0} /\ second \in Nat \ {0}

NetStays ==
    /\ net' \in [Nets -> NetSet]
    /\ \A g \in Nets : net'[g].running = net[g].running /\ net'[g].seen = net[g].seen

NetStep ==
    \/ NetStays /\ answers' = answers
    \/ \E s \in Slots, h \in Nets : CreateGameState(s, h)
    \/ \E h \in Nets : \E id \in Traces : HandleDiagnosticProbe(h, id) /\ net[h].running

LEMMA StatusStays ==
  ASSUME net \in [Nets -> NetSet], NEW h \in Nets, StatusSet(h)
  PROVE  NetStays
<1>1. CASE net' = net
  BY <1>1 DEF NetStays
<1>2. ASSUME NEW s \in Statuses, net' = [net EXCEPT ![h].status = s] PROVE NetStays
  BY <1>2 DEF NetStays, NetSet
<1> QED BY <1>1, <1>2 DEF StatusSet

\* The steps of Next in which the Net objects and the answers stay as they are.
LEMMA NetUntouched ==
  ASSUME Next
  PROVE  \/ UNCHANGED <<net, answers>>
         \/ \E s \in Slots, h \in Nets : CreateGameState(s, h)
         \/ \E h \in Nets : DispatcherJoined(h) \/ Publication(h) \/ Authentication(h) \/ ShortCodeCached(h)
         \/ PoolRuns
<1> DEFINE Goal == \/ UNCHANGED <<net, answers>>
                   \/ \E s \in Slots, h \in Nets : CreateGameState(s, h)
                   \/ \E h \in Nets : \/ DispatcherJoined(h) \/ Publication(h) \/ Authentication(h)
                                      \/ ShortCodeCached(h)
                   \/ PoolRuns
<1> SUFFICES Goal
  BY Zenon
<1>1. CASE CppSetsValues \/ PythonSetsValues \/ SetEncryptedKey \/ PythonSetsSigner
  BY <1>1 DEF CppSetsValues, PythonSetsValues, SetValues, SetEncryptedKey, PythonSetsSigner, SetCallback,
              remoteVars
<1>2. ASSUME NEW k \in Kinds, CppSetsCallback(k) \/ PythonSetsCallback(k) PROVE Goal
  BY <1>2 DEF CppSetsCallback, PythonSetsCallback, SetCallback, remoteVars
<1>3. CASE DestroyConfig \/ InterpreterExits \/ SecondPasses
  BY <1>3 DEF DestroyConfig, InterpreterExits, SecondPasses, remoteVars
<1>4. ASSUME NEW s \in Slots, CppDestroys(s) \/ PythonDestroys(s) \/ (\E r \in Slots : MoveAssign(s, r))
      PROVE  Goal
  BY <1>4 DEF CppDestroys, PythonDestroys, DestroyGameState, MoveAssign, remoteVars
<1>5. ASSUME NEW h \in Nets, HandleDestroyed(h) \/ StrandReply(h) \/ StrandRuns(h) PROVE Goal
  BY <1>5 DEF HandleDestroyed, StrandReply, StrandRuns
<1>6. ASSUME NEW h \in Nets, NEW kind, CppCalls(h, kind) \/ PythonCalls(h, kind) PROVE Goal
  BY <1>6 DEF CppCalls, PythonCalls, MainCalls, remoteVars
<1>7. ASSUME NEW h \in Nets, DispatchMain(h) \/ DispatchOther(h) PROVE Goal
  BY <1>7 DEF DispatchMain, DispatchOther, RunJob, remoteVars
<1>8. ASSUME NEW h \in Nets, NEW i, Deliver(h, i) PROVE Goal
  BY <1>8 DEF Deliver
<1>9. ASSUME NEW t, Reply(t) PROVE Goal
  BY <1>9 DEF Reply
<1> HIDE DEF Goal
<1>10. ASSUME NEW s \in Slots, NEW h \in Nets, CreateGameState(s, h) PROVE Goal
  BY <1>10 DEF Goal
<1>11. ASSUME NEW h \in Nets,
              DispatcherJoined(h) \/ Publication(h) \/ Authentication(h) \/ ShortCodeCached(h)
       PROVE  Goal
  BY <1>11 DEF Goal
<1>12. CASE PoolRuns
  BY <1>12 DEF Goal
<1> QED BY <1>1, <1>2, <1>3, <1>4, <1>5, <1>6, <1>7, <1>8, <1>9, <1>10, <1>11, <1>12 DEF Next

LEMMA NetChanges ==
  ASSUME WorkTypes, Housed, Next
  PROVE  NetStep
<1>0. net \in [Nets -> NetSet]
  BY DEF WorkTypes
<1>1. CASE UNCHANGED <<net, answers>>
  BY <1>0, <1>1 DEF NetStep, NetStays
<1>2. ASSUME NEW h \in Nets, DispatcherJoined(h) PROVE NetStep
  <2>1. net' = [net EXCEPT ![h].stop = TRUE] /\ answers' = answers
    BY <1>2 DEF DispatcherJoined, StopNet
  <2>2. NetStays
    BY <1>0, <2>1 DEF NetStays, NetSet
  <2> QED BY <2>1, <2>2 DEF NetStep
<1>3. ASSUME NEW h \in Nets, ShortCodeCached(h) PROVE NetStep
  <2>1. net' = [net EXCEPT ![h].code = TRUE] /\ answers' = answers
    BY <1>3 DEF ShortCodeCached
  <2>2. NetStays
    BY <1>0, <2>1 DEF NetStays, NetSet
  <2> QED BY <2>1, <2>2 DEF NetStep
<1>4. ASSUME NEW h \in Nets, Authentication(h) PROVE NetStep
  <2>1. StatusSet(h) /\ answers' = answers
    BY <1>4 DEF Authentication, StatusChanges, StatusSet
  <2> QED BY <1>0, <2>1, StatusStays DEF NetStep
<1>5. ASSUME NEW h \in Nets, Publication(h) PROVE NetStep
  <2>1. PICK msg : OnPublication(h, msg)
    BY <1>5 DEF Publication
  <2>2. net[h].running
    BY <2>1 DEF OnPublication
  <2>3. Published(h)
    BY <2>1, MessageHandled
  <2> QED BY <1>0, <2>2, <2>3 DEF Published, NetStep, NetStays
<1>6. CASE PoolRuns
  <2>1. PICK t \in BagToSet(pool) :
           \/ RequestWakes(t) \/ RequestAnswered(t) \/ MachinePaired(t) \/ Publishes(t)
           \/ NothingToUpload(t) \/ ArchiveOpens(t) \/ ArchiveWritten(t) \/ ArchiveChecked(t)
    BY <1>6 DEF PoolRuns
  <2>2. PoolTask(t) /\ t.h \in Nets
    BY DEF Housed, PoolTask, TaskSet
  <2>3. TaskStep(t)
    BY <1>0, <2>1, <2>2, PoolRan DEF Housed
  <2>4. StatusSet(t.h) /\ answers' = answers
    BY <2>3 DEF TaskStep
  <2> QED BY <1>0, <2>2, <2>4, StatusStays DEF NetStep
<1> QED BY <1>1, <1>2, <1>3, <1>4, <1>5, <1>6, NetUntouched DEF NetStep

LEMMA HandlesStay ==
  ASSUME ObjectInv, Next, NEW h \in Nets, handle[h].st # "none"
  PROVE  handle'[h].st # "none"
<1>1. ObjectStep /\ handle \in [Nets -> HandleSet]
  BY NextObjects DEF ObjectInv, ObjectTypes
<1>2. ASSUME NEW g \in Nets, NEW x \in {"closing", "joined", "stopping", "gone"},
             handle' = [handle EXCEPT ![g].st = x]
      PROVE  handle'[h].st # "none"
  BY <1>1, <1>2 DEF HandleSet
<1>3. ASSUME NEW s \in Slots, NEW g \in Nets, CreateGameState(s, g) PROVE handle'[h].st # "none"
  <2>1. g # h
    BY <1>3 DEF CreateGameState
  <2> QED BY <1>1, <1>3, <2>1 DEF CreateGameState
<1>4. ASSUME NEW s \in Slots, NEW lang, DestroyGameState(s, lang) PROVE handle'[h].st # "none"
  <2>1. state[s].h \in Nets /\ handle' = [handle EXCEPT ![state[s].h].st = "closing"]
    BY <1>4 DEF DestroyGameState, BeginDestroy, ObjectInv, ObjectTypes, StateSet
  <2> QED BY <1>2, <2>1
<1>5. ASSUME NEW s \in Slots, NEW r \in Slots, MoveAssign(s, r) PROVE handle'[h].st # "none"
  <2> PICK g : g = state[s].h
    OBVIOUS
  <2>1. handle' = [handle EXCEPT ![g].st = "closing", ![g].covered = FALSE]
    BY <1>5 DEF MoveAssign
  <2> QED BY <1>1, <2>1 DEF HandleSet
<1>6. ASSUME NEW g \in Nets, HandleDestroyed(g) PROVE handle'[h].st # "none"
  BY <1>2, <1>6 DEF HandleDestroyed
<1>7. ASSUME NEW g \in Nets, NEW x \in {"joined", "stopping"}, Ages(g, x) PROVE handle'[h].st # "none"
  BY <1>2, <1>7 DEF Ages
<1> QED BY <1>1, <1>3, <1>4, <1>5, <1>6, <1>7 DEF ObjectStep

LEMMA MadeNet ==
  ASSUME WorkTypes, ObjectTypes, NEW s \in Slots, NEW h \in Nets, CreateGameState(s, h)
  PROVE  /\ net' \in [Nets -> NetSet] /\ net'[h].seen = {}
         /\ handle[h].st = "none" /\ handle'[h].st = "open"
         /\ answers' = answers
         /\ \A g \in Nets : g # h => net'[g] = net[g] /\ handle'[g] = handle[g]
<1> PICK n : n = NewNet(config.valid, scene.scorbitron)
  OBVIOUS
<1>1. config.valid \in BOOLEAN /\ scene.scorbitron \in BOOLEAN
  BY DEF ObjectTypes, ConfigSet, WorkTypes, SceneSet
<1>2. n \in NetSet /\ n.seen = {}
  BY <1>1 DEF NewNet, NetSet, Statuses
<1>3. net' = [net EXCEPT ![h] = n] /\ handle[h].st = "none" /\ answers' = answers
  BY DEF CreateGameState
<1>4. PICK new : handle' = [handle EXCEPT ![h] = new] /\ new.st = "open"
  <2> PICK cov : cov = (\A k \in Kinds : config.ptr[k] \in config.own \cup {0})
    OBVIOUS
  <2> PICK new : new = [st |-> "open", ptr |-> config.ptr, covered |-> cov]
    OBVIOUS
  <2>1. handle' = [handle EXCEPT ![h] = new]
    BY DEF CreateGameState
  <2>2. new.st = "open"
    OBVIOUS
  <2> QED BY <2>1, <2>2, Zenon
<1> QED BY <1>2, <1>3, <1>4 DEF WorkTypes, ObjectTypes

LEMMA ProbeRemembered ==
  ASSUME WorkTypes, NEW h \in Nets, NEW id \in Traces, HandleDiagnosticProbe(h, id)
  PROVE  \/ UNCHANGED <<net, answers>>
         \/ \E sn \in Remembered(net[h].seen \cup {id}) :
               /\ id \notin net[h].seen /\ sn \in SUBSET Traces
               /\ net' = [net EXCEPT ![h].seen = sn]
               /\ answers' = [answers EXCEPT ![h] = Append(answers[h], id)]
<1>1. ASSUME NEW sn \in Remembered(net[h].seen \cup {id}) PROVE sn \in SUBSET Traces
  BY <1>1 DEF Remembered, WorkTypes, NetSet
<1> QED BY <1>1 DEF HandleDiagnosticProbe

LEMMA NetTypes ==
  ASSUME WorkTypes, ObjectTypes, Housed, Next
  PROVE  /\ net' \in [Nets -> NetSet]
         /\ \A g \in Nets : net'[g].running = net[g].running \/ (handle[g].st = "none" /\ handle'[g].st = "open")
<1>0. net \in [Nets -> NetSet]
  BY DEF WorkTypes
<1>1. CASE NetStays
  BY <1>1 DEF NetStays
<1>2. ASSUME NEW s \in Slots, NEW h \in Nets, CreateGameState(s, h)
      PROVE  /\ net' \in [Nets -> NetSet]
             /\ \A g \in Nets : net'[g].running = net[g].running \/ (handle[g].st = "none" /\ handle'[g].st = "open")
  BY <1>2, MadeNet
<1>3. ASSUME NEW h \in Nets, NEW sn \in SUBSET Traces, net' = [net EXCEPT ![h].seen = sn]
      PROVE  net' \in [Nets -> NetSet] /\ \A g \in Nets : net'[g].running = net[g].running
  BY <1>0, <1>3 DEF NetSet
<1>4. ASSUME NEW h \in Nets, NEW id \in Traces, HandleDiagnosticProbe(h, id)
      PROVE  net' \in [Nets -> NetSet] /\ \A g \in Nets : net'[g].running = net[g].running
  BY <1>0, <1>3, <1>4, ProbeRemembered
<1> QED BY <1>1, <1>2, <1>4, NetChanges DEF NetStep

\* Until the set of trace ids overflows it holds exactly the ids answered.
ProbesOf(h) ==
    /\ answers[h] \in Seq(Traces)
    /\ handle[h].st = "none" => answers[h] = <<>>
    /\ Len(answers[h]) <= SeenCap => /\ IsFiniteSet(net[h].seen)
                                     /\ Cardinality(net[h].seen) = Len(answers[h])
                                     /\ \A i \in DOMAIN answers[h] : answers[h][i] \in net[h].seen
    /\ \A i, j \in DOMAIN answers[h] : i < j /\ answers[h][i] = answers[h][j] => j > SeenCap + 1

ProbeInv == answers \in [Nets -> Seq(Traces)] /\ \A h \in Nets : ProbesOf(h)

LEMMA ProbeAnswered ==
  ASSUME WorkTypes, ProbeInv, NEW h \in Nets, NEW id, id \notin net[h].seen,
         NEW sn \in Remembered(net[h].seen \cup {id}), NEW a \in Seq(Traces), a = Append(answers[h], id)
  PROVE  /\ Len(a) <= SeenCap => /\ IsFiniteSet(sn)
                                 /\ Cardinality(sn) = Len(a)
                                 /\ \A i \in DOMAIN a : a[i] \in sn
         /\ \A i, j \in DOMAIN a : i < j /\ a[i] = a[j] => j > SeenCap + 1
<1> PICK b : b = answers[h]
  OBVIOUS
<1> PICK old : old = net[h].seen
  OBVIOUS
<1>0. /\ b \in Seq(Traces) /\ SeenCap \in Nat
      /\ Len(b) <= SeenCap => /\ IsFiniteSet(old) /\ Cardinality(old) = Len(b)
                              /\ \A i \in DOMAIN b : b[i] \in old
      /\ \A i, j \in DOMAIN b : i < j /\ b[i] = b[j] => j > SeenCap + 1
  BY RemoteAssumption DEF ProbeInv, ProbesOf
<1> PICK n \in Nat : n = Len(b)
  BY <1>0
<1>1. /\ DOMAIN a = 1..(n + 1) /\ DOMAIN b = 1..n /\ a[n + 1] = id /\ Len(a) = n + 1
      /\ \A i \in 1..n : a[i] = b[i]
  BY <1>0
<1>2. ASSUME n + 1 <= SeenCap
      PROVE  /\ IsFiniteSet(sn) /\ Cardinality(sn) = n + 1
             /\ \A i \in DOMAIN a : a[i] \in sn
  <2>0. IsFiniteSet(old) /\ Cardinality(old) = n /\ id \notin old
    BY <1>0, <1>2
  <2>1. IsFiniteSet(old \cup {id}) /\ Cardinality(old \cup {id}) = n + 1
    BY <2>0, FS_AddElement
  <2>2. sn = old \cup {id}
    BY <1>0, <1>2, <2>1 DEF Remembered
  <2> QED BY <1>0, <1>1, <1>2, <2>1, <2>2
<1>3. ASSUME NEW i \in DOMAIN a, NEW j \in DOMAIN a, i < j, a[i] = a[j] PROVE j > SeenCap + 1
  <2>1. CASE j \in 1..n
    BY <1>0, <1>1, <1>3, <2>1
  <2>2. CASE j = n + 1
    <3>1. i \in 1..n /\ b[i] = id
      BY <1>1, <1>3, <2>2
    <3>2. ~(n <= SeenCap)
      BY <1>0, <1>1, <3>1
    <3> QED BY <1>0, <2>2, <3>2
  <2> QED BY <1>1, <2>1, <2>2
<1> QED BY <1>1, <1>2, <1>3

LEMMA ProbesKept ==
  ASSUME WorkTypes, ObjectInv, Housed, ProbeInv, Next
  PROVE  ProbeInv'
<1>0. /\ ObjectTypes /\ net \in [Nets -> NetSet] /\ answers \in [Nets -> Seq(Traces)]
      /\ \A g \in Nets : handle[g].st # "none" => handle'[g].st # "none"
  BY HandlesStay DEF ObjectInv, WorkTypes, ProbeInv
<1>1. ASSUME NEW g \in Nets, answers'[g] = answers[g], net'[g].seen = net[g].seen PROVE ProbesOf(g)'
  BY <1>0, <1>1 DEF ProbeInv, ProbesOf
<1>2. CASE NetStays /\ answers' = answers
  BY <1>0, <1>1, <1>2 DEF NetStays, ProbeInv
<1>3. ASSUME NEW s \in Slots, NEW h \in Nets, CreateGameState(s, h) PROVE ProbeInv'
  <2>1. /\ net'[h].seen = {} /\ handle[h].st = "none" /\ answers' = answers
        /\ \A g \in Nets : g # h => net'[g] = net[g]
    BY <1>0, <1>3, MadeNet
  <2>2. answers[h] = <<>>
    BY <2>1 DEF ProbeInv, ProbesOf
  <2>3. IsFiniteSet({}) /\ Cardinality({}) = 0
    BY FS_EmptySet
  <2>4. ProbesOf(h)'
    BY <2>1, <2>2, <2>3 DEF ProbesOf
  <2> QED BY <1>0, <1>1, <2>1, <2>4 DEF ProbeInv
<1>4. ASSUME NEW h \in Nets, NEW id \in Traces, HandleDiagnosticProbe(h, id), net[h].running PROVE ProbeInv'
  <2>1. CASE UNCHANGED <<net, answers>>
    BY <1>0, <1>1, <2>1 DEF ProbeInv
  <2>2. ASSUME NEW sn \in Remembered(net[h].seen \cup {id}), id \notin net[h].seen,
               net' = [net EXCEPT ![h].seen = sn], answers' = [answers EXCEPT ![h] = Append(answers[h], id)]
        PROVE  ProbeInv'
    <3> PICK a : a = Append(answers[h], id)
      OBVIOUS
    <3>1. a \in Seq(Traces)
      BY <1>0
    <3>2. /\ net'[h].seen = sn /\ answers'[h] = a
          /\ \A g \in Nets : g # h => net'[g] = net[g] /\ answers'[g] = answers[g]
          /\ answers' \in [Nets -> Seq(Traces)]
      BY <1>0, <2>2, <3>1 DEF NetSet
    <3>3. handle'[h].st # "none"
      BY <1>0, <1>4 DEF Housed
    <3>4. ProbesOf(h)'
      <4>1. /\ Len(a) <= SeenCap => /\ IsFiniteSet(sn) /\ Cardinality(sn) = Len(a)
                                    /\ \A i \in DOMAIN a : a[i] \in sn
            /\ \A i, j \in DOMAIN a : i < j /\ a[i] = a[j] => j > SeenCap + 1
        BY <2>2, <3>1, ProbeAnswered
      <4> QED BY <3>1, <3>2, <3>3, <4>1 DEF ProbesOf
    <3> QED BY <1>1, <3>2, <3>4 DEF ProbeInv
  <2> QED BY <1>4, <2>1, <2>2, ProbeRemembered
<1> QED BY <1>2, <1>3, <1>4, NetChanges DEF NetStep

\* The ways a step changes the pool.
Grows(x) == NewTask(x) /\ handle[x.h].st # "none" /\ pool' = BagAdd(pool, x) /\ UNCHANGED <<files, botched>>

GrowsBy(x, y) ==
    /\ NewTask(x) /\ NewTask(y) /\ x.h = y.h /\ handle[x.h].st # "none"
    /\ pool' = BagAdd(BagAdd(pool, x), y) /\ UNCHANGED <<files, botched>>

PoolStep ==
    /\ second' \in Nat \ {0}
    /\ \/ UNCHANGED <<pool, files, botched>>
       \/ \E x : Grows(x)
       \/ \E x, y : GrowsBy(x, y)
       \/ \E t \in BagToSet(pool) : net[t.h].running /\ TaskStep(t)
       \/ \E t \in BagToSet(pool) : /\ t.stage = "reply" /\ pool' = BagRemove(pool, t)
                                    /\ UNCHANGED <<files, botched>>
       \/ \E h \in Nets : HandleDestroyed(h)

LEMMA PoolForwarded ==
  ASSUME Housed, NEW h, NEW c, Forwarded(h, c), handle[h].st # "none",
         UNCHANGED <<files, botched, second>>
  PROVE  PoolStep
<1>1. CASE UNCHANGED pool
  BY <1>1 DEF PoolStep, Housed
<1>2. ASSUME NEW x, NewTask(x), x.h = h, pool' = BagAdd(pool, x) PROVE PoolStep
  BY <1>2 DEF PoolStep, Grows, Housed
<1> QED BY <1>1, <1>2 DEF Forwarded, Posted, Queued

LEMMA PoolRanJob ==
  ASSUME Housed, NEW h, NEW c, NEW js, RanJob(h, c, js), handle[h].st # "none"
  PROVE  PoolStep
<1>1. CASE UNCHANGED <<pool, strand>>
  BY <1>1 DEF RanJob, PoolStep, Housed
<1>2. CASE Forwarded(h, c)
  BY <1>2, PoolForwarded DEF RanJob
<1> QED BY <1>1, <1>2 DEF RanJob

LEMMA PoolConnects ==
  ASSUME Housed, NEW h \in Nets, Connects(h, pool), handle[h].st # "none", second' = second
  PROVE  PoolStep
<1> PICK x : x = Task(h, "object", "wait", 0)
  OBVIOUS
<1> PICK y : y = Task(h, "config", "wait", 0)
  OBVIOUS
<1>1. NewTask(x) /\ NewTask(y) /\ x.h = h /\ y.h = h
  BY TaskIsNew
<1>2. GrowsBy(x, y)
  BY <1>1 DEF GrowsBy, Connects
<1> QED BY <1>2 DEF PoolStep, Housed

LEMMA PoolChanges ==
  ASSUME WorkTypes, Housed, Next
  PROVE  PoolStep
<1>0. ASSUME UNCHANGED <<pool, files, botched>>, second' \in {second, second + 1} PROVE PoolStep
  BY <1>0 DEF PoolStep, Housed
<1>1. CASE CppSetsValues \/ PythonSetsValues \/ SetEncryptedKey \/ PythonSetsSigner
  BY <1>0, <1>1 DEF CppSetsValues, PythonSetsValues, SetValues, SetEncryptedKey, PythonSetsSigner, SetCallback,
                    remoteVars
<1>2. ASSUME NEW k \in Kinds, CppSetsCallback(k) \/ PythonSetsCallback(k) PROVE PoolStep
  BY <1>0, <1>2 DEF CppSetsCallback, PythonSetsCallback, SetCallback, remoteVars
<1>3. CASE DestroyConfig \/ InterpreterExits \/ SecondPasses
  BY <1>0, <1>3 DEF DestroyConfig, InterpreterExits, SecondPasses, remoteVars
<1>4. ASSUME NEW s \in Slots, CppDestroys(s) \/ PythonDestroys(s) \/ (\E r \in Slots : MoveAssign(s, r))
      PROVE  PoolStep
  BY <1>0, <1>4 DEF CppDestroys, PythonDestroys, DestroyGameState, MoveAssign, remoteVars
<1>5. ASSUME NEW s \in Slots, NEW h \in Nets, CreateGameState(s, h) PROVE PoolStep
  BY <1>0, <1>5 DEF CreateGameState
<1>6. ASSUME NEW h \in Nets, DispatcherJoined(h) \/ StrandReply(h) \/ StrandRuns(h) \/ ShortCodeCached(h)
      PROVE  PoolStep
  BY <1>0, <1>6 DEF DispatcherJoined, StrandReply, StrandRuns, ShortCodeCached
<1>7. ASSUME NEW h \in Nets, HandleDestroyed(h) PROVE PoolStep
  <2>1. second' = second
    BY <1>7 DEF HandleDestroyed
  <2> QED BY <1>7, <2>1 DEF PoolStep, Housed
<1>8. ASSUME NEW h \in Nets, NEW kind, CppCalls(h, kind) \/ PythonCalls(h, kind) PROVE PoolStep
  BY <1>0, <1>8 DEF CppCalls, PythonCalls, MainCalls, remoteVars
<1>9. ASSUME NEW h \in Nets, DispatchMain(h) PROVE PoolStep
  <2>1. handle[h].st # "none"
    BY <1>9 DEF DispatchMain
  <2>2. ASSUME UNCHANGED remoteVars PROVE PoolStep
    BY <1>0, <2>2 DEF remoteVars
  <2> QED BY <1>9, <2>1, <2>2, DispatchedMain, PoolRanJob
<1>10. ASSUME NEW h \in Nets, DispatchOther(h) PROVE PoolStep
  <2>1. handle[h].st # "none"
    BY <1>10 DEF DispatchOther
  <2> QED BY <1>10, <2>1, DispatchedOther, PoolRanJob
<1>11. ASSUME NEW h \in Nets, NEW i, Deliver(h, i) PROVE PoolStep
  BY <1>0, <1>11 DEF Deliver
<1>12. ASSUME NEW t \in BagToSet(pool), Reply(t) PROVE PoolStep
  <2>1. t.stage = "reply" /\ pool' = BagRemove(pool, t) /\ UNCHANGED <<files, botched, second>>
    BY <1>12 DEF Reply, Ended
  <2> QED BY <2>1 DEF PoolStep, Housed
<1>13. ASSUME NEW h \in Nets, Publication(h) PROVE PoolStep
  <2>1. PICK msg : OnPublication(h, msg)
    BY <1>13 DEF Publication
  <2>2. handle[h].st # "none" /\ UNCHANGED <<files, botched, second>>
    BY <2>1 DEF OnPublication, Housed
  <2>3. Published(h)
    BY <2>1, MessageHandled
  <2>4. CASE Posted(h, 0) \/ UNCHANGED <<pool, strand>>
    BY <2>2, <2>4, PoolForwarded DEF Forwarded
  <2>5. ASSUME NEW id, HandleDiagnosticProbe(h, id) PROVE PoolStep
    <3>1. CASE pool' = pool
      BY <1>0, <2>2, <3>1
    <3>2. CASE pool' = BagAdd(BagAdd(pool, DiagnosticPacket(h)), DiagnosticAck(h))
      <4> PICK x : x = DiagnosticPacket(h)
        OBVIOUS
      <4> PICK y : y = DiagnosticAck(h)
        OBVIOUS
      <4>1. NewTask(x) /\ NewTask(y) /\ x.h = h /\ y.h = h
        BY TaskIsNew DEF DiagnosticPacket, DiagnosticAck
      <4>2. GrowsBy(x, y)
        BY <2>2, <3>2, <4>1 DEF GrowsBy
      <4> QED BY <2>2, <4>2 DEF PoolStep, Housed
    <3> QED BY <2>5, <3>1, <3>2 DEF HandleDiagnosticProbe
  <2> QED BY <2>3, <2>4, <2>5 DEF Published
<1>14. ASSUME NEW h \in Nets, Authentication(h) PROVE PoolStep
  <2>1. PICK s \in Statuses : StatusChanges(h, s)
    BY <1>14 DEF Authentication
  <2>2. handle[h].st # "none" /\ UNCHANGED <<files, botched, second>>
    BY <2>1 DEF StatusChanges, Housed
  <2>3. CASE InitializeConnectionState(h, pool)
    <3>1. Task(h, "firmwares", "wait", 0).h = h
      BY DEF Task
    <3>2. Connects(h, pool)
      BY <2>2, <2>3, <3>1 DEF Connects, InitializeConnectionState, RequestFirmwaresList, PostQueue
    <3> QED BY <2>2, <3>2, PoolConnects
  <2>4. CASE UNCHANGED pool
    BY <1>0, <2>2, <2>4
  <2> QED BY <2>1, <2>3, <2>4 DEF StatusChanges
<1>15. CASE PoolRuns
  <2>1. PICK t \in BagToSet(pool) :
           /\ net[t.h].running
           /\ \/ RequestWakes(t) \/ RequestAnswered(t) \/ MachinePaired(t) \/ Publishes(t)
              \/ NothingToUpload(t) \/ ArchiveOpens(t) \/ ArchiveWritten(t) \/ ArchiveChecked(t)
    BY <1>15 DEF PoolRuns
  <2>2. PoolTask(t)
    BY DEF Housed
  <2>3. TaskStep(t)
    BY <2>1, <2>2, PoolRan DEF Housed, WorkTypes
  <2>4. second' = second
    BY <2>3 DEF TaskStep
  <2> QED BY <2>1, <2>3, <2>4 DEF PoolStep, Housed
<1> QED BY <1>1, <1>2, <1>3, <1>4, <1>5, <1>6, <1>7, <1>8, <1>9, <1>10, <1>11, <1>12, <1>13, <1>14, <1>15 DEF Next

LEMMA BagSets ==
  ASSUME NEW B, NEW x
  PROVE  /\ BagToSet(BagAdd(B, x)) = BagToSet(B) \cup {x}
         /\ BagToSet(BagRemove(B, x)) \subseteq BagToSet(B)
         /\ BagToSet(B) \ {x} \subseteq BagToSet(BagRemove(B, x))
  BY BagAdded, BagRemoved

LEMMA NewTasksHoused ==
  ASSUME Housed, ArchivesRemoved, second' \in Nat \ {0}, UNCHANGED <<files, botched>>, NEW N,
         \A t \in N : NewTask(t) /\ handle[t.h].st # "none",
         \A h \in Nets : /\ handle[h].st # "none" => handle'[h].st # "none" /\ net'[h].running = net[h].running
                         /\ net'[h].running => handle'[h].st # "none",
         BagToSet(pool') = BagToSet(pool) \cup N
  PROVE  Housed' /\ ArchivesRemoved'
<1>0. \A t \in BagToSet(pool') : t \in BagToSet(pool) \/ t \in N
  OBVIOUS
<1>1. ASSUME NEW t \in BagToSet(pool')
      PROVE  PoolTask(t) /\ handle'[t.h].st # "none" /\ (~net'[t.h].running => t.file = 0)
  <2>1. PoolTask(t) /\ handle[t.h].st # "none" /\ (~net[t.h].running => t.file = 0)
    BY <1>0 DEF NewTask, Housed
  <2>2. t.h \in Nets
    BY <2>1 DEF PoolTask, TaskSet
  <2> QED BY <2>1, <2>2
<1>2. Housed'
  BY <1>1 DEF Housed
<1>3. ArchivesRemoved'
  BY DEF ArchivesRemoved
<1> QED BY <1>2, <1>3

LEMMA TaskHoused ==
  ASSUME Housed, ArchivesRemoved, NEW t \in BagToSet(pool), net[t.h].running, TaskStep(t), second' \in Nat \ {0},
         \A h \in Nets : /\ handle[h].st # "none" => handle'[h].st # "none" /\ net'[h].running = net[h].running
                         /\ net'[h].running => handle'[h].st # "none"
  PROVE  Housed' /\ ArchivesRemoved'
<1>0. PoolTask(t) /\ t.h \in Nets /\ handle[t.h].st # "none" /\ files' \subseteq Nat \ {0}
  BY DEF Housed, PoolTask, TaskSet, TaskStep
<1>1. ASSUME NEW u \in BagToSet(pool') ,
             u \in BagToSet(pool) \/ GoesOnAs(t, u) \/ (NewTask(u) /\ u.h = t.h)
      PROVE  PoolTask(u) /\ handle'[u.h].st # "none" /\ (~net'[u.h].running => u.file = 0)
  <2>1. CASE u \in BagToSet(pool)
    <3>1. PoolTask(u) /\ handle[u.h].st # "none" /\ (~net[u.h].running => u.file = 0) /\ u.h \in Nets
      BY <2>1 DEF Housed, PoolTask, TaskSet
    <3> QED BY <3>1
  <2>2. CASE GoesOnAs(t, u) \/ (NewTask(u) /\ u.h = t.h)
    BY <1>0, <2>2 DEF GoesOnAs, NewTask
  <2> QED BY <1>1, <2>1, <2>2
<1>2. ASSUME NEW f \in files, f \notin botched, NEW w,
             \A v \in BagToSet(pool) : v # t => v \in BagToSet(pool'),
             t.kind = "upload" /\ t.file = f => w \in BagToSet(pool') /\ w.kind = "upload" /\ w.file = f
      PROVE  \E v \in BagToSet(pool') : v.kind = "upload" /\ v.file = f
  <2>1. PICK v \in BagToSet(pool) : v.kind = "upload" /\ v.file = f
    BY <1>2 DEF ArchivesRemoved
  <2> QED BY <1>2, <2>1
<1>3. ASSUME NEW u, GoesOn(t, u) PROVE Housed' /\ ArchivesRemoved'
  <2>1. /\ pool' = BagAdd(BagRemove(pool, t), u) /\ GoesOnAs(t, u) /\ botched' = botched
        /\ \/ u.file = t.file /\ files' \subseteq files
           \/ t.kind = "upload" /\ t.file = 0 /\ files' \subseteq files \cup {u.file}
    BY <1>3 DEF GoesOn
  <2>2. /\ \A v \in BagToSet(pool') : v \in BagToSet(pool) \/ v = u
        /\ u \in BagToSet(pool') /\ \A v \in BagToSet(pool) : v # t => v \in BagToSet(pool')
    BY <2>1, BagSets
  <2>3. Housed'
    BY <1>0, <1>1, <2>1, <2>2 DEF Housed
  <2>4. ASSUME NEW f \in files', f \notin botched PROVE \E v \in BagToSet(pool') : v.kind = "upload" /\ v.file = f
    <3>1. f # 0
      BY <1>0
    <3>2. CASE f \in files
      <4>1. t.kind = "upload" /\ t.file = f => u.kind = "upload" /\ u.file = f
        BY <2>1, <3>1 DEF GoesOnAs
      <4> QED BY <1>2, <2>2, <2>4, <3>2, <4>1
    <3>3. CASE f \notin files
      BY <2>1, <2>2, <3>3 DEF GoesOnAs
    <3> QED BY <3>2, <3>3
  <2> QED BY <2>1, <2>3, <2>4 DEF ArchivesRemoved
<1>4. ASSUME Ends(t) PROVE Housed' /\ ArchivesRemoved'
  <2>1. /\ pool' = BagRemove(pool, t) /\ files' \subseteq files /\ botched \subseteq botched'
        /\ t.kind = "upload" => t.file \notin files' \/ t.file \in botched'
    BY <1>4 DEF Ends
  <2>2. /\ \A v \in BagToSet(pool') : v \in BagToSet(pool)
        /\ \A v \in BagToSet(pool) : v # t => v \in BagToSet(pool')
    BY <2>1, BagSets
  <2>3. Housed'
    BY <1>0, <1>1, <2>2 DEF Housed
  <2>4. ArchivesRemoved'
    BY <2>1, <2>2 DEF ArchivesRemoved
  <2> QED BY <2>3, <2>4
<1>5. ASSUME NEW u, GoesOnAs(t, u), u.file = t.file, Connects(t.h, BagAdd(BagRemove(pool, t), u))
      PROVE  Housed' /\ ArchivesRemoved'
  <2> PICK x : x = Task(t.h, "object", "wait", 0)
    OBVIOUS
  <2> PICK y : y = Task(t.h, "config", "wait", 0)
    OBVIOUS
  <2>0. NewTask(x) /\ NewTask(y) /\ x.h = t.h /\ y.h = t.h
    BY <1>0, TaskIsNew
  <2>1. pool' = BagAdd(BagAdd(BagAdd(BagRemove(pool, t), u), x), y) /\ UNCHANGED <<files, botched>>
    BY <1>5 DEF Connects
  <2>2. /\ \A v \in BagToSet(pool') : v \in BagToSet(pool) \/ v \in {u, x, y}
        /\ u \in BagToSet(pool') /\ \A v \in BagToSet(pool) : v # t => v \in BagToSet(pool')
    BY <2>1, BagSets
  <2>3. Housed'
    BY <1>0, <1>1, <1>5, <2>0, <2>2 DEF Housed
  <2>4. ASSUME NEW f \in files', f \notin botched PROVE \E v \in BagToSet(pool') : v.kind = "upload" /\ v.file = f
    <3>1. t.kind = "upload" /\ t.file = f => u.kind = "upload" /\ u.file = f
      BY <1>5 DEF GoesOnAs
    <3> QED BY <1>2, <2>1, <2>2, <2>4, <3>1
  <2> QED BY <2>1, <2>3, <2>4 DEF ArchivesRemoved
<1> QED BY <1>3, <1>4, <1>5 DEF TaskStep

LEMMA DestroyedHoused ==
  ASSUME Housed, ArchivesRemoved, NEW h \in Nets, HandleDestroyed(h), second' \in Nat \ {0},
         \A g \in Nets : /\ handle[g].st # "none" => handle'[g].st # "none" /\ net'[g].running = net[g].running
                         /\ net'[g].running => handle'[g].st # "none"
  PROVE  Housed' /\ ArchivesRemoved'
<1>1. /\ \A t \in BagToSet(pool) : t.h # h => t \in BagToSet(pool')
      /\ \A t \in BagToSet(pool') : t \in BagToSet(pool)
      /\ UNCHANGED <<files, botched>> /\ Drained(h)
  BY DEF HandleDestroyed, BagToSet
<1>2. Housed'
  <2>1. ASSUME NEW t \in BagToSet(pool')
        PROVE  PoolTask(t) /\ handle'[t.h].st # "none" /\ (~net'[t.h].running => t.file = 0)
    <3>1. PoolTask(t) /\ handle[t.h].st # "none" /\ (~net[t.h].running => t.file = 0)
      BY <1>1 DEF Housed
    <3>2. t.h \in Nets
      BY <3>1 DEF PoolTask, TaskSet
    <3> QED BY <3>1, <3>2
  <2> QED BY <1>1, <2>1 DEF Housed
<1>3. ASSUME NEW f \in files', f \notin botched PROVE \E t \in BagToSet(pool') : t.kind = "upload" /\ t.file = f
  <2>1. PICK t \in BagToSet(pool) : t.kind = "upload" /\ t.file = f
    BY <1>1, <1>3 DEF ArchivesRemoved
  <2>2. t.file # 0
    BY <1>1, <2>1 DEF Housed
  <2>3. t.h # h
    BY <1>1, <2>2 DEF Drained, Housed
  <2> QED BY <1>1, <2>1, <2>3
<1> QED BY <1>1, <1>2, <1>3 DEF ArchivesRemoved

LEMMA RepliedHoused ==
  ASSUME Housed, ArchivesRemoved, NEW t \in BagToSet(pool), t.stage = "reply", pool' = BagRemove(pool, t),
         UNCHANGED <<files, botched>>, second' \in Nat \ {0},
         \A h \in Nets : /\ handle[h].st # "none" => handle'[h].st # "none" /\ net'[h].running = net[h].running
                         /\ net'[h].running => handle'[h].st # "none"
  PROVE  Housed' /\ ArchivesRemoved'
<1>0. PoolTask(t) /\ t.kind # "upload"
  BY DEF Housed, PoolTask
<1>1. /\ \A v \in BagToSet(pool') : v \in BagToSet(pool)
      /\ \A v \in BagToSet(pool) : v # t => v \in BagToSet(pool')
  BY BagSets
<1>2. ASSUME NEW v \in BagToSet(pool')
      PROVE  PoolTask(v) /\ handle'[v.h].st # "none" /\ (~net'[v.h].running => v.file = 0)
  <2>1. PoolTask(v) /\ handle[v.h].st # "none" /\ (~net[v.h].running => v.file = 0)
    BY <1>1 DEF Housed
  <2>2. v.h \in Nets
    BY <2>1 DEF PoolTask, TaskSet
  <2> QED BY <2>1, <2>2
<1>3. Housed'
  BY <1>2 DEF Housed
<1> QED BY <1>0, <1>1, <1>3 DEF ArchivesRemoved

LEMMA ArchivesKept ==
  ASSUME WorkTypes, ObjectInv, Housed, ArchivesRemoved, Next
  PROVE  Housed' /\ ArchivesRemoved'
<1>0. ObjectTypes
  BY DEF ObjectInv
<1>1. \A h \in Nets : /\ handle[h].st # "none" => handle'[h].st # "none" /\ net'[h].running = net[h].running
                      /\ net'[h].running => handle'[h].st # "none"
  <2>1. \A h \in Nets : handle[h].st # "none" => handle'[h].st # "none"
    BY HandlesStay
  <2>2. \A h \in Nets : net'[h].running = net[h].running \/ (handle[h].st = "none" /\ handle'[h].st = "open")
    BY <1>0, NetTypes
  <2> QED BY <2>1, <2>2 DEF Housed
<1>2. PoolStep
  BY PoolChanges
<1>3. second' \in Nat \ {0}
  BY <1>2 DEF PoolStep
<1>3a. ASSUME NEW N, \A t \in N : NewTask(t) /\ handle[t.h].st # "none", UNCHANGED <<files, botched>>,
              BagToSet(pool') = BagToSet(pool) \cup N
       PROVE  Housed' /\ ArchivesRemoved'
  BY <1>1, <1>3, <1>3a, NewTasksHoused
<1>4. CASE UNCHANGED <<pool, files, botched>>
  <2> PICK N : N = {}
    OBVIOUS
  <2>1. BagToSet(pool') = BagToSet(pool) \cup N /\ \A t \in N : NewTask(t) /\ handle[t.h].st # "none"
    BY <1>4
  <2> QED BY <1>4, <1>3a, <2>1, Zenon
<1>5. ASSUME NEW x, Grows(x) PROVE Housed' /\ ArchivesRemoved'
  <2> PICK N : N = {x}
    OBVIOUS
  <2>1. BagToSet(pool') = BagToSet(pool) \cup N
    BY <1>5, BagSets DEF Grows
  <2>2. (\A t \in N : NewTask(t) /\ handle[t.h].st # "none") /\ UNCHANGED <<files, botched>>
    BY <1>5 DEF Grows
  <2> QED BY <1>3a, <2>1, <2>2, Zenon
<1>6. ASSUME NEW x, NEW y, GrowsBy(x, y) PROVE Housed' /\ ArchivesRemoved'
  <2> PICK N : N = {x, y}
    OBVIOUS
  <2>1. BagToSet(pool') = BagToSet(pool) \cup N
    BY <1>6, BagSets DEF GrowsBy
  <2>2. (\A t \in N : NewTask(t) /\ handle[t.h].st # "none") /\ UNCHANGED <<files, botched>>
    BY <1>6 DEF GrowsBy
  <2> QED BY <1>3a, <2>1, <2>2, Zenon
<1>7. ASSUME NEW t \in BagToSet(pool), net[t.h].running, TaskStep(t) PROVE Housed' /\ ArchivesRemoved'
  BY <1>1, <1>3, <1>7, TaskHoused
<1>8. ASSUME NEW t \in BagToSet(pool), t.stage = "reply", pool' = BagRemove(pool, t), UNCHANGED <<files, botched>>
      PROVE  Housed' /\ ArchivesRemoved'
  BY <1>1, <1>3, <1>8, RepliedHoused
<1>9. ASSUME NEW h \in Nets, HandleDestroyed(h) PROVE Housed' /\ ArchivesRemoved'
  BY <1>1, <1>3, <1>9, DestroyedHoused
<1> QED BY <1>2, <1>4, <1>5, <1>6, <1>7, <1>8, <1>9 DEF PoolStep

-----------------------------------------------------------------------------
(* The types of jobs, tasks and callbacks *)

JobTypes == scene' \in SceneSet /\ jobs' \in [Nets -> JobQueues] /\ shots' \in Seq(ShotSet)

LEMMA ReturnKeepsTypes ==
  ASSUME WorkTypes, NEW h \in Nets, NEW cb, NEW js \in [Nets -> JobQueues], Returned(h, Called(cb), js)
  PROVE  jobs' \in [Nets -> JobQueues] /\ shots' \in Seq(ShotSet)
<1>1. Called(cb) \in Seq(ShotSet)
  BY CalledShots DEF WorkTypes
<1> QED BY <1>1, ReturnedTypes

LEMMA RanJobTypes ==
  ASSUME WorkTypes, NEW h \in Nets, NEW c, NEW js \in [Nets -> JobQueues], RanJob(h, c, js)
  PROVE  jobs' \in [Nets -> JobQueues] /\ shots' \in Seq(ShotSet)
  BY ReturnKeepsTypes DEF RanJob, WorkTypes

LEMMA JobAppended ==
  ASSUME WorkTypes, NEW h \in Nets, NEW j \in JobSet, jobs' = [jobs EXCEPT ![h].main = Append(@, j)]
  PROVE  jobs' \in [Nets -> JobQueues]
<1>1. jobs[h] \in JobQueues /\ Append(jobs[h].main, j) \in Seq(JobSet)
  BY DEF WorkTypes, JobQueues
<1> QED BY <1>1 DEF WorkTypes, JobQueues

LEMMA CallMade ==
  ASSUME WorkTypes, NEW h \in Nets, NEW kind \in Commands \cup Asks, NEW lang, MainCalls(h, kind, lang)
  PROVE  \E j \in CallSet :
            /\ \/ j.cb = 0 /\ shots' = shots
               \/ j.cb = Len(shots) + 1 /\ shots' = Append(shots, NewShot(h, "main"))
            /\ jobs' = [jobs EXCEPT ![h].main = Append(@, j)]
<1> PICK cb : cb = IF kind \in Asks THEN Len(shots) + 1 ELSE 0
  OBVIOUS
<1> PICK j : j = [kind |-> kind, cb |-> cb]
  OBVIOUS
<1>1. j \in CallSet /\ j.cb = cb
  <2>1. cb \in Nat /\ (cb # 0 => kind \in Asks)
    BY DEF WorkTypes
  <2> QED BY <2>1 DEF CallSet
<1>2. /\ IF kind \in Asks THEN shots' = Append(shots, NewShot(h, "main")) ELSE shots' = shots
      /\ jobs' = [jobs EXCEPT ![h].main = Append(@, j)]
  BY DEF MainCalls
<1> HIDE DEF MainCalls
<1> QED BY <1>1, <1>2

LEMMA MainCallTypes ==
  ASSUME WorkTypes, NEW h \in Nets, NEW kind \in Commands \cup Asks, NEW lang, MainCalls(h, kind, lang)
  PROVE  JobTypes
<1>1. PICK j \in CallSet :
            /\ \/ j.cb = 0 /\ shots' = shots
               \/ j.cb = Len(shots) + 1 /\ shots' = Append(shots, NewShot(h, "main"))
            /\ jobs' = [jobs EXCEPT ![h].main = Append(@, j)]
  BY CallMade
<1>2. j \in JobSet
  BY DEF JobSet
<1>3. NewShot(h, "main") \in ShotSet
  BY DEF NewShot, ShotSet
<1>4. shots' \in Seq(ShotSet)
  <2>1. shots \in Seq(ShotSet)
    BY DEF WorkTypes
  <2> QED BY <1>1, <1>3, <2>1
<1>5. scene["ask"] > 0 /\ Used("ask")
  BY DEF MainCalls
<1>6. scene' \in SceneSet
  BY <1>5, UsedScene DEF WorkTypes
<1> QED BY <1>1, <1>2, <1>4, <1>6, JobAppended DEF JobTypes

LEMMA JobsTyped ==
  ASSUME WorkTypes, ObjectTypes, Housed, Next
  PROVE  JobTypes
<1>0. ASSUME UNCHANGED <<jobs, shots>>, scene' \in SceneSet PROVE JobTypes
  BY <1>0 DEF JobTypes, WorkTypes
<1>1. scene \in SceneSet /\ jobs \in [Nets -> JobQueues]
  BY DEF WorkTypes
<1>2. CASE CppSetsValues \/ PythonSetsValues \/ SetEncryptedKey \/ DestroyConfig \/ InterpreterExits
  BY <1>0, <1>1, <1>2 DEF CppSetsValues, PythonSetsValues, SetValues, SetEncryptedKey, DestroyConfig, InterpreterExits
<1>3. ASSUME NEW k, NEW own, SetCallback(k, own) PROVE JobTypes
  <2>1. scene["sets"] > 0 /\ Used("sets")
    BY <1>3 DEF SetCallback
  <2> QED BY <1>0, <1>1, <1>3, <2>1, UsedScene DEF SetCallback
<1>4. CASE PythonSetsSigner
  BY <1>3, <1>4 DEF PythonSetsSigner
<1>5. ASSUME NEW k \in Kinds, CppSetsCallback(k) \/ PythonSetsCallback(k) PROVE JobTypes
  BY <1>3, <1>5 DEF CppSetsCallback, PythonSetsCallback
<1>6. CASE SecondPasses
  <2>1. scene["ticks"] > 0 /\ Used("ticks")
    BY <1>6 DEF SecondPasses
  <2> QED BY <1>0, <1>1, <1>6, <2>1, UsedScene DEF SecondPasses
<1>7. ASSUME NEW h \in Nets, jobs' = [jobs EXCEPT ![h].main = Append(@, [kind |-> "poison", cb |-> 0])],
             UNCHANGED <<shots, scene>>
      PROVE  JobTypes
  <2>1. [kind |-> "poison", cb |-> 0] \in JobSet
    BY DEF JobSet, Poison
  <2> QED BY <1>7, <2>1, JobAppended DEF JobTypes, WorkTypes
<1>8. ASSUME NEW s \in Slots, state[s].h # 0 PROVE state[s].h \in Nets
  BY <1>8 DEF ObjectTypes, StateSet
<1>9. ASSUME NEW s \in Slots, NEW lang, DestroyGameState(s, lang) PROVE JobTypes
  BY <1>7, <1>8, <1>9 DEF DestroyGameState, BeginDestroy
<1>10. ASSUME NEW s \in Slots, NEW r \in Slots, MoveAssign(s, r) PROVE JobTypes
  BY <1>7, <1>8, <1>10 DEF MoveAssign
<1>11. ASSUME NEW s \in Slots, NEW h \in Nets, CreateGameState(s, h) PROVE JobTypes
  <2>1. scene["make"] > 0 /\ Used("make")
    BY <1>11 DEF CreateGameState
  <2> QED BY <1>0, <1>1, <1>11, <2>1, UsedScene DEF CreateGameState
<1>12. ASSUME NEW h \in Nets, DispatcherJoined(h) PROVE JobTypes
  <2>1. EmptyBag \in JobBags
    <3>1. EmptyBag \in [{} -> Nat \ {0}]
      BY DEF EmptyBag, SetToBag
    <3> QED BY <3>1 DEF JobBags
  <2>2. [main |-> <<>>, other |-> EmptyBag] \in JobQueues
    BY <2>1 DEF JobQueues
  <2> QED BY <1>1, <1>12, <2>2 DEF DispatcherJoined, JobTypes, WorkTypes
<1>13. ASSUME NEW h \in Nets, HandleDestroyed(h) PROVE JobTypes
  BY <1>0, <1>1, <1>13 DEF HandleDestroyed
<1>14. ASSUME NEW h \in Nets, NEW kind \in Commands \cup Asks, CppCalls(h, kind) \/ PythonCalls(h, kind)
       PROVE  JobTypes
  BY <1>14, MainCallTypes DEF CppCalls, PythonCalls
<1>15. ASSUME NEW h \in Nets, DispatchMain(h) PROVE JobTypes
  <2>1. scene' \in SceneSet
    BY <1>15, DispatchedMain
  <2>2. PICK j, js : /\ TakesMain(h, j, js)
                     /\ RanJob(h, j.cb, js) \/ (jobs' = js /\ shots' = shots)
    BY <1>15, DispatchedMain
  <2>3. js \in [Nets -> JobQueues]
    BY <2>2, JobTaken
  <2> QED BY <2>1, <2>2, <2>3, RanJobTypes DEF JobTypes, WorkTypes
<1>16. ASSUME NEW h \in Nets, DispatchOther(h) PROVE JobTypes
  <2>1. scene' \in SceneSet
    BY <1>16, DispatchedOther
  <2>2. PICK j, js : TakesOther(h, j, js) /\ RanJob(h, j.cb, js)
    BY <1>16, DispatchedOther
  <2>3. js \in [Nets -> JobQueues]
    BY <2>2, JobTaken
  <2> QED BY <2>1, <2>2, <2>3, RanJobTypes DEF JobTypes
<1>17. ASSUME NEW h \in Nets, StrandReply(h) PROVE JobTypes
  BY <1>1, <1>17, StrandReplied, ReturnKeepsTypes DEF JobTypes
<1>18. ASSUME NEW t \in BagToSet(pool), Reply(t) PROVE JobTypes
  <2>1. t.h \in Nets
    BY DEF Housed, PoolTask, TaskSet
  <2> QED BY <1>1, <1>18, <2>1, Replied, ReturnKeepsTypes DEF JobTypes
<1>19. ASSUME NEW h \in Nets, NEW i, Deliver(h, i) PROVE JobTypes
  <2>1. shots \in Seq(ShotSet) /\ scene' = scene
    BY <1>19 DEF WorkTypes, Deliver
  <2> QED BY <1>1, <1>19, <2>1, Delivered, ReturnedTypes DEF JobTypes
<1>20. ASSUME NEW h \in Nets, Publication(h) PROVE JobTypes
  <2>1. scene["msg"] > 0 /\ Used("msg")
    BY <1>20 DEF Publication
  <2> QED BY <1>0, <1>1, <1>20, <2>1, UsedScene DEF Publication
<1>21. ASSUME NEW h \in Nets, Authentication(h) PROVE JobTypes
  <2>1. scene["auth"] > 0 /\ Used("auth")
    BY <1>21 DEF Authentication
  <2> QED BY <1>0, <1>1, <1>21, <2>1, UsedScene DEF Authentication
<1>22. ASSUME UNCHANGED hostVars PROVE JobTypes
  BY <1>0, <1>1, <1>22 DEF hostVars
<1> QED
  BY <1>2, <1>4, <1>5, <1>6, <1>9, <1>10, <1>11, <1>12, <1>13, <1>14, <1>15, <1>16, <1>17, <1>18, <1>19, <1>20,
     <1>21, <1>22 DEF Next, CppDestroys, PythonDestroys

LEMMA StrandTyped ==
  ASSUME WorkTypes, Housed, Next
  PROVE  strand' \in [Nets -> Seq(StrandSet)]
<1> DEFINE Goal == strand' \in [Nets -> Seq(StrandSet)]
<1>0. strand \in [Nets -> Seq(StrandSet)]
  BY DEF WorkTypes
<1> SUFFICES Goal
  OBVIOUS
<1>1. ASSUME UNCHANGED strand PROVE Goal
  BY <1>0, <1>1
<1>2. ASSUME NEW h \in Nets, NEW q \in Seq(StrandSet), strand' = [strand EXCEPT ![h] = q] PROVE Goal
  BY <1>0, <1>2
<1> HIDE DEF Goal
<1>3. ASSUME NEW h \in Nets, NEW x \in StrandSet, strand' = [strand EXCEPT ![h] = Append(@, x)] PROVE Goal
  <2>1. strand[h] \in Seq(StrandSet) /\ Append(strand[h], x) \in Seq(StrandSet)
    BY <1>0
  <2> QED BY <1>2, <1>3, <2>1
<1>4. ASSUME NEW h \in Nets, strand[h] # <<>>, strand' = [strand EXCEPT ![h] = Tail(strand[h])] PROVE Goal
  <2>1. Tail(strand[h]) \in Seq(StrandSet)
    BY <1>0, <1>4
  <2> QED BY <1>2, <1>4, <2>1
<1>5. CASE CppSetsValues \/ PythonSetsValues \/ SetEncryptedKey \/ PythonSetsSigner
  BY <1>1, <1>5 DEF CppSetsValues, PythonSetsValues, SetValues, SetEncryptedKey, PythonSetsSigner, SetCallback,
                    remoteVars
<1>6. ASSUME NEW k \in Kinds, CppSetsCallback(k) \/ PythonSetsCallback(k) PROVE Goal
  BY <1>1, <1>6 DEF CppSetsCallback, PythonSetsCallback, SetCallback, remoteVars
<1>7. CASE DestroyConfig \/ InterpreterExits \/ SecondPasses
  BY <1>1, <1>7 DEF DestroyConfig, InterpreterExits, SecondPasses, remoteVars
<1>8. ASSUME NEW s \in Slots, CppDestroys(s) \/ PythonDestroys(s) \/ (\E r \in Slots : MoveAssign(s, r))
      PROVE  Goal
  BY <1>1, <1>8 DEF CppDestroys, PythonDestroys, DestroyGameState, MoveAssign, remoteVars
<1>9. ASSUME NEW s \in Slots, NEW h \in Nets, CreateGameState(s, h) PROVE Goal
  BY <1>1, <1>9 DEF CreateGameState
<1>10. ASSUME NEW h \in Nets, DispatcherJoined(h) \/ ShortCodeCached(h) PROVE Goal
  BY <1>1, <1>10 DEF DispatcherJoined, ShortCodeCached
<1>11. ASSUME NEW h \in Nets, HandleDestroyed(h) PROVE Goal
  <2>1. strand' = [strand EXCEPT ![h] = <<>>] /\ <<>> \in Seq(StrandSet)
    BY <1>11 DEF HandleDestroyed
  <2> QED BY <1>2, <2>1
<1>12. ASSUME NEW h \in Nets, NEW kind, CppCalls(h, kind) \/ PythonCalls(h, kind) PROVE Goal
  BY <1>1, <1>12 DEF CppCalls, PythonCalls, MainCalls, remoteVars
<1>13. ASSUME NEW h \in Nets, NEW c, Forwarded(h, c) PROVE Goal
  BY <1>1, <1>3, <1>13 DEF Forwarded, Posted, Queued
<1>14. ASSUME NEW h \in Nets, NEW c, NEW js, RanJob(h, c, js) PROVE Goal
  BY <1>1, <1>13, <1>14 DEF RanJob
<1>15. ASSUME NEW h \in Nets, DispatchMain(h) PROVE Goal
  <2>1. PICK j, js : RanJob(h, j.cb, js) \/ UNCHANGED remoteVars
    BY <1>15, DispatchedMain
  <2> QED BY <1>1, <1>14, <2>1 DEF remoteVars
<1>16. ASSUME NEW h \in Nets, DispatchOther(h) PROVE Goal
  <2>1. PICK j, js : RanJob(h, j.cb, js)
    BY <1>16, DispatchedOther
  <2> QED BY <1>14, <2>1
<1>17. ASSUME NEW h \in Nets, StrandReply(h) PROVE Goal
  BY <1>4, <1>17, StrandReplied
<1>18. ASSUME NEW h \in Nets, NEW i, Deliver(h, i) PROVE Goal
  BY <1>1, <1>18 DEF Deliver
<1>19. ASSUME NEW t, Reply(t) PROVE Goal
  BY <1>1, <1>19 DEF Reply
<1>20. ASSUME NEW h \in Nets, Publication(h) PROVE Goal
  <2>1. PICK msg : OnPublication(h, msg)
    BY <1>20 DEF Publication
  <2>2. Published(h)
    BY <2>1, MessageHandled
  <2> QED BY <1>1, <2>2 DEF Published, Posted, HandleDiagnosticProbe
<1>21. ASSUME NEW h \in Nets, NEW B, Connects(h, B) PROVE Goal
  <2>1. Task(h, "firmwares", "wait", 0) \in StrandSet
    <3>1. "firmwares" \in TaskKinds
      BY DEF TaskKinds
    <3> QED BY <3>1, TaskIsQueued DEF StrandSet
  <2> QED BY <1>1, <1>3, <1>21, <2>1 DEF Connects
<1>22. ASSUME NEW h \in Nets, Authentication(h) PROVE Goal
  <2>1. PICK s \in Statuses : StatusChanges(h, s)
    BY <1>22 DEF Authentication
  <2>2. CASE InitializeConnectionState(h, pool)
    <3>1. Task(h, "firmwares", "wait", 0).h = h
      BY DEF Task
    <3>2. Connects(h, pool)
      BY <2>1, <2>2, <3>1 DEF Connects, InitializeConnectionState, RequestFirmwaresList, PostQueue, StatusChanges
    <3> QED BY <1>21, <3>2
  <2>3. CASE UNCHANGED strand
    BY <1>1, <2>3
  <2> QED BY <2>1, <2>2, <2>3 DEF StatusChanges
<1>23. ASSUME NEW h \in Nets, StrandRuns(h) PROVE Goal
  <2>1. StrandMoves(h)
    BY <1>23, StrandRan
  <2>2. ASSUME NEW y \in StrandSet, strand' = [strand EXCEPT ![h] = [strand[h] EXCEPT ![1] = y]] PROVE Goal
    <3> PICK q : q = strand[h]
      OBVIOUS
    <3>0. q \in Seq(StrandSet) /\ 1 \in DOMAIN q
      BY <1>0, <2>1 DEF StrandMoves
    <3>1. [q EXCEPT ![1] = y] \in Seq(StrandSet)
      BY <3>0
    <3> QED BY <1>2, <2>2, <3>1
  <2> QED BY <1>4, <2>1, <2>2 DEF StrandMoves
<1>24. CASE PoolRuns
  <2>1. PICK t \in BagToSet(pool) :
              \/ RequestWakes(t) \/ RequestAnswered(t) \/ MachinePaired(t) \/ Publishes(t)
              \/ NothingToUpload(t) \/ ArchiveOpens(t) \/ ArchiveWritten(t) \/ ArchiveChecked(t)
    BY <1>24 DEF PoolRuns
  <2>2. PoolTask(t) /\ t.h \in Nets
    BY DEF Housed, PoolTask, TaskSet
  <2>3. TaskStep(t)
    BY <2>1, <2>2, PoolRan DEF Housed, WorkTypes
  <2> QED BY <1>1, <1>21, <2>2, <2>3 DEF TaskStep
<1> QED
  BY <1>5, <1>6, <1>7, <1>8, <1>9, <1>10, <1>11, <1>12, <1>15, <1>16, <1>17, <1>18, <1>19, <1>20, <1>22, <1>23,
     <1>24 DEF Next

LEMMA TypesKept ==
  ASSUME WorkTypes, ObjectTypes, Housed, Next
  PROVE  WorkTypes'
<1>1. JobTypes
  BY JobsTyped
<1>2. net' \in [Nets -> NetSet]
  BY NetTypes
<1>3. strand' \in [Nets -> Seq(StrandSet)]
  BY StrandTyped
<1> QED BY <1>1, <1>2, <1>3 DEF WorkTypes, JobTypes

-----------------------------------------------------------------------------
(* The invariant of handles, tasks and probes *)

RemoteInv == ObjectInv /\ WorkTypes /\ Housed /\ ArchivesRemoved /\ ProbeInv

LEMMA RemoteInitially ==
  ASSUME Init
  PROVE  RemoteInv
<1>0. /\ net = [h \in Nets |-> NewNet(FALSE, FALSE)] /\ pool = EmptyBag /\ strand = [h \in Nets |-> <<>>]
      /\ files = {} /\ second = 1 /\ answers = [h \in Nets |-> <<>>] /\ shots = <<>> /\ scene \in Scenarios
      /\ jobs = [h \in Nets |-> [main |-> <<>>, other |-> EmptyBag]]
  BY DEF Init, RemoteInit
<1>1. BagToSet(EmptyBag) = {} /\ EmptyBag \in JobBags
  <2>1. EmptyBag \in [{} -> Nat \ {0}]
    BY DEF EmptyBag, SetToBag
  <2> QED BY <2>1 DEF JobBags, BagToSet
<1>2. NewNet(FALSE, FALSE) \in NetSet /\ NewNet(FALSE, FALSE).running = FALSE /\ NewNet(FALSE, FALSE).seen = {}
  BY DEF NewNet, NetSet, Statuses
<1>3. WorkTypes
  <2>1. scene \in SceneSet
    BY <1>0, HostAssumption DEF SceneSet
  <2>2. net \in [Nets -> NetSet]
    BY <1>0, <1>2
  <2>3. jobs \in [Nets -> JobQueues]
    BY <1>0, <1>1 DEF JobQueues
  <2>4. shots \in Seq(ShotSet) /\ strand \in [Nets -> Seq(StrandSet)]
    BY <1>0
  <2> QED BY <2>1, <2>2, <2>3, <2>4 DEF WorkTypes
<1>4. Housed
  <2>1. (\A h \in Nets : ~net[h].running) /\ BagToSet(pool) = {}
    BY <1>0, <1>1, <1>2
  <2>2. files \subseteq Nat \ {0} /\ second \in Nat \ {0}
    BY <1>0
  <2> QED BY <2>1, <2>2 DEF Housed
<1>5. ArchivesRemoved
  BY <1>0 DEF ArchivesRemoved
<1>6. ProbeInv
  <2>1. IsFiniteSet({}) /\ Cardinality({}) = 0
    BY FS_EmptySet
  <2>2. \A h \in Nets : net[h].seen = {}
    BY <1>0, <1>2
  <2>3. answers \in [Nets -> Seq(Traces)] /\ \A h \in Nets : answers[h] = <<>>
    BY <1>0
  <2>4. ASSUME NEW h \in Nets PROVE ProbesOf(h)
    <3>1. answers[h] = <<>> /\ net[h].seen = {} /\ answers[h] \in Seq(Traces)
      BY <2>2, <2>3
    <3>2. Len(answers[h]) = 0 /\ \A i \in DOMAIN answers[h] : FALSE
      BY <3>1
    <3> QED BY <2>1, <3>1, <3>2 DEF ProbesOf
  <2> QED BY <2>3, <2>4 DEF ProbeInv
<1> QED BY <1>3, <1>4, <1>5, <1>6, ObjectsInit DEF RemoteInv

LEMMA RemoteKept ==
  ASSUME RemoteInv, [Next]_vars
  PROVE  RemoteInv'
<1>1. CASE Next
  <2>1. ObjectInv' /\ ObjectTypes
    BY <1>1, ObjectsKept DEF RemoteInv, ObjectInv
  <2>2. WorkTypes'
    BY <1>1, <2>1, TypesKept DEF RemoteInv
  <2>3. Housed' /\ ArchivesRemoved'
    BY <1>1, ArchivesKept DEF RemoteInv
  <2>4. ProbeInv'
    BY <1>1, ProbesKept DEF RemoteInv
  <2> QED BY <2>1, <2>2, <2>3, <2>4 DEF RemoteInv
<1>2. CASE UNCHANGED vars
  <2>1. UNCHANGED <<net, pool, strand, events, files, second, botched, answers>>
        /\ UNCHANGED <<scene, config, state, handle, jobs, main, next, shots, exiting>>
    BY <1>2 DEF vars, remoteVars, hostVars
  <2>2. ObjectInv'
    BY <2>1, ObjectsSame DEF RemoteInv, ObjectInv, ObjectTypes
  <2>3. WorkTypes'
    BY <2>1 DEF RemoteInv, WorkTypes
  <2>4. Housed'
    BY <2>1 DEF RemoteInv, Housed
  <2>5. ArchivesRemoved'
    BY <2>1 DEF RemoteInv, ArchivesRemoved
  <2>6. ProbeInv'
    BY <2>1 DEF RemoteInv, ProbeInv, ProbesOf
  <2> QED BY <2>2, <2>3, <2>4, <2>5, <2>6 DEF RemoteInv
<1> QED BY <1>1, <1>2

\* No diagnostics archive is left behind (uploadDiagnostics, createTarGz): every file belongs to
\* an upload under way or is one whose creation failed.  The upload has its file before it can
\* fail, the reply removes it whatever came of the request, and a worker that never ran has
\* opened none (Housed).
THEOREM NoArchiveLeft == Spec => []ArchivesRemoved
<1>1. RemoteInv => ArchivesRemoved
  BY DEF RemoteInv
<1> QED BY <1>1, RemoteInitially, RemoteKept, PTL DEF Spec

\* A diagnostic probe is answered once as long as the ids answered fit into their set
\* (handleDiagnosticProbe), for a set of any size: until then the set holds exactly the ids
\* answered (ProbesOf).
THEOREM ProbesAnsweredOnce == Spec => []ProbeAnsweredOnce
<1>1. RemoteInv => ProbeAnsweredOnce
  BY DEF RemoteInv, ProbeInv, ProbesOf, ProbeAnsweredOnce
<1> QED BY <1>1, RemoteInitially, RemoteKept, PTL DEF Spec

-----------------------------------------------------------------------------
(* Where the callback of a request is *)

Places == {"main", "other", "pool", "strand", "none"}

\* Callback c of handle h is with the jobs J, the tasks of the pool B or the strands S once, at
\* place p and nowhere else.
InMain(J, c, h, p) ==
    /\ \A g \in Nets : SeqHas(J[g].main, c) <=> g = h /\ p = "main"
    /\ SeqOnce(J[h].main, c)

InOther(J, c, h, p) ==
    /\ \A g \in Nets : BagHas(J[g].other, c) <=> g = h /\ p = "other"
    /\ BagOnce(J[h].other, c)

InPool(B, c, h, p) ==
    /\ BagHas(B, c) <=> p = "pool"
    /\ BagOnce(B, c)
    /\ \A t \in BagToSet(B) : t.cb = c => t.h = h

InStrand(S, c, h, p) ==
    /\ \A g \in Nets : SeqHas(S[g], c) <=> g = h /\ p = "strand"
    /\ SeqOnce(S[h], c)

Sits(J, B, S, c, h, p) == InMain(J, c, h, p) /\ InOther(J, c, h, p) /\ InPool(B, c, h, p) /\ InStrand(S, c, h, p)

LEMMA SitsAppended ==
  ASSUME NEW J \in [Nets -> JobQueues], NEW B, NEW S, NEW c, NEW h \in Nets, NEW p, Sits(J, B, S, c, h, p),
         NEW g \in Nets, NEW x \in JobSet
  PROVE  /\ x.cb # c => Sits([J EXCEPT ![g].main = Append(@, x)], B, S, c, h, p)
         /\ x.cb = c /\ g = h /\ p = "none" => Sits([J EXCEPT ![g].main = Append(@, x)], B, S, c, h, "main")
<1> PICK K : K = [J EXCEPT ![g].main = Append(@, x)]
  OBVIOUS
<1> PICK z : z = Append(J[g].main, x)
  OBVIOUS
<1>0. J[g].main \in Seq(JobSet) /\ J[h].main \in Seq(JobSet)
  BY DEF JobQueues
<1>1. /\ K[g].main = z
      /\ \A k \in Nets : K[k].other = J[k].other
      /\ \A k \in Nets : k # g => K[k].main = J[k].main
  BY DEF JobQueues
<1>2. /\ SeqHas(z, c) <=> SeqHas(J[g].main, c) \/ x.cb = c
      /\ SeqOnce(J[g].main, c) /\ x.cb # c => SeqOnce(z, c)
      /\ ~SeqHas(J[g].main, c) => SeqOnce(z, c)
  BY <1>0, SeqAppended
<1>3. ASSUME NEW q PROVE InOther(K, c, h, q) <=> InOther(J, c, h, q)
  BY <1>1 DEF InOther
<1>4. x.cb # c => InMain(K, c, h, p)
  BY <1>1, <1>2 DEF InMain, Sits
<1>5. x.cb = c /\ g = h /\ p = "none" => InMain(K, c, h, "main")
  BY <1>1, <1>2 DEF InMain, Sits
<1>6. p = "none" => InOther(J, c, h, "main") /\ InPool(B, c, h, "main") /\ InStrand(S, c, h, "main")
  BY DEF Sits, InOther, InPool, InStrand
<1> QED BY <1>3, <1>4, <1>5, <1>6 DEF Sits

LEMMA SitsTaken ==
  ASSUME NEW J \in [Nets -> JobQueues], NEW B, NEW S, NEW c, NEW h \in Nets, NEW p, Sits(J, B, S, c, h, p),
         NEW g \in Nets, J[g].main # <<>>
  PROVE  /\ Head(J[g].main).cb # c => Sits([J EXCEPT ![g].main = Tail(J[g].main)], B, S, c, h, p)
         /\ Head(J[g].main).cb = c =>
              g = h /\ p = "main" /\ Sits([J EXCEPT ![g].main = Tail(J[g].main)], B, S, c, h, "none")
<1> PICK z : z = Tail(J[g].main)
  OBVIOUS
<1> PICK K : K = [J EXCEPT ![g].main = z]
  OBVIOUS
<1> PICK a : a = Head(J[g].main).cb
  OBVIOUS
<1>0. J[g].main \in Seq(JobSet) /\ J[h].main \in Seq(JobSet)
  BY DEF JobQueues
<1>1. /\ K[g].main = z
      /\ \A k \in Nets : K[k].other = J[k].other
      /\ \A k \in Nets : k # g => K[k].main = J[k].main
  BY DEF JobQueues
<1>2. /\ SeqHas(z, c) => SeqHas(J[g].main, c)
      /\ SeqHas(J[g].main, c) /\ a # c => SeqHas(z, c)
      /\ SeqOnce(J[g].main, c) => SeqOnce(z, c)
      /\ SeqOnce(J[g].main, c) /\ a = c => ~SeqHas(z, c)
  BY <1>0, SeqTailed
<1>3. ASSUME NEW q PROVE InOther(K, c, h, q) <=> InOther(J, c, h, q)
  BY <1>1 DEF InOther
<1>4. a # c => InMain(K, c, h, p)
  BY <1>1, <1>2 DEF InMain, Sits
<1>5. a = c => SeqHas(J[g].main, c)
  <2>1. 1 \in DOMAIN J[g].main /\ Head(J[g].main) = J[g].main[1]
    BY <1>0
  <2> QED BY <2>1 DEF SeqHas
<1>6. a = c => g = h /\ p = "main" /\ InMain(K, c, h, "none")
  BY <1>1, <1>2, <1>5 DEF InMain, Sits
<1>7. p = "main" => InOther(J, c, h, "none") /\ InPool(B, c, h, "none") /\ InStrand(S, c, h, "none")
  BY DEF Sits, InOther, InPool, InStrand
<1> QED BY <1>3, <1>4, <1>6, <1>7 DEF Sits

LEMMA SitsAdded ==
  ASSUME NEW J \in [Nets -> JobQueues], NEW B, NEW S, NEW c, NEW h \in Nets, NEW p, Sits(J, B, S, c, h, p),
         NEW g \in Nets, NEW x
  PROVE  /\ x.cb # c => Sits([J EXCEPT ![g].other = BagAdd(@, x)], B, S, c, h, p)
         /\ x.cb = c /\ g = h /\ p = "none" => Sits([J EXCEPT ![g].other = BagAdd(@, x)], B, S, c, h, "other")
<1> PICK z : z = BagAdd(J[g].other, x)
  OBVIOUS
<1> PICK K : K = [J EXCEPT ![g].other = BagAdd(@, x)]
  OBVIOUS
<1>1. /\ K[g].other = z
      /\ \A k \in Nets : K[k].main = J[k].main
      /\ \A k \in Nets : k # g => K[k].other = J[k].other
  BY DEF JobQueues
<1>2. /\ BagHas(z, c) <=> BagHas(J[g].other, c) \/ x.cb = c
      /\ BagOnce(J[g].other, c) /\ x.cb # c => BagOnce(z, c)
      /\ ~BagHas(J[g].other, c) => BagOnce(z, c)
  BY BagAdded
<1>3. ASSUME NEW q PROVE InMain(K, c, h, q) <=> InMain(J, c, h, q)
  BY <1>1 DEF InMain
<1>4. x.cb # c => InOther(K, c, h, p)
  BY <1>1, <1>2 DEF InOther, Sits
<1>5. x.cb = c /\ g = h /\ p = "none" => InOther(K, c, h, "other")
  BY <1>1, <1>2 DEF InOther, Sits
<1>6. p = "none" => InMain(J, c, h, "other") /\ InPool(B, c, h, "other") /\ InStrand(S, c, h, "other")
  BY DEF Sits, InMain, InPool, InStrand
<1> QED BY <1>3, <1>4, <1>5, <1>6 DEF Sits

LEMMA SitsRemoved ==
  ASSUME NEW J \in [Nets -> JobQueues], NEW B, NEW S, NEW c, NEW h \in Nets, NEW p, Sits(J, B, S, c, h, p),
         NEW g \in Nets, NEW x \in BagToSet(J[g].other)
  PROVE  /\ x.cb # c => Sits([J EXCEPT ![g].other = BagRemove(J[g].other, x)], B, S, c, h, p)
         /\ x.cb = c =>
              g = h /\ p = "other" /\ Sits([J EXCEPT ![g].other = BagRemove(J[g].other, x)], B, S, c, h, "none")
<1> PICK z : z = BagRemove(J[g].other, x)
  OBVIOUS
<1> PICK K : K = [J EXCEPT ![g].other = z]
  OBVIOUS
<1>1. /\ K[g].other = z
      /\ \A k \in Nets : K[k].main = J[k].main
      /\ \A k \in Nets : k # g => K[k].other = J[k].other
  BY DEF JobQueues
<1>2. /\ BagHas(z, c) => BagHas(J[g].other, c)
      /\ BagHas(J[g].other, c) /\ x.cb # c => BagHas(z, c)
      /\ BagOnce(J[g].other, c) /\ x.cb # c => BagOnce(z, c)
      /\ BagOnce(J[g].other, c) /\ x.cb = c => ~BagHas(z, c)
  BY BagRemoved
<1>3. ASSUME NEW q PROVE InMain(K, c, h, q) <=> InMain(J, c, h, q)
  BY <1>1 DEF InMain
<1>4. x.cb # c => InOther(K, c, h, p)
  BY <1>1, <1>2 DEF InOther, Sits
<1>5. x.cb = c => BagHas(J[g].other, c)
  BY DEF BagHas
<1>6. ~BagHas(z, c) => BagOnce(z, c)
  BY DEF BagHas, BagOnce
<1>7. x.cb = c => g = h /\ p = "other" /\ InOther(K, c, h, "none")
  BY <1>1, <1>2, <1>5, <1>6 DEF InOther, Sits
<1>8. p = "other" => InMain(J, c, h, "none") /\ InPool(B, c, h, "none") /\ InStrand(S, c, h, "none")
  BY DEF Sits, InMain, InPool, InStrand
<1> QED BY <1>3, <1>4, <1>7, <1>8 DEF Sits

LEMMA SitsPosted ==
  ASSUME NEW J, NEW B, NEW S, NEW c, NEW h \in Nets, NEW p, Sits(J, B, S, c, h, p), NEW x
  PROVE  /\ x.cb # c => Sits(J, BagAdd(B, x), S, c, h, p)
         /\ x.cb = c /\ x.h = h /\ p = "none" => Sits(J, BagAdd(B, x), S, c, h, "pool")
<1> PICK z : z = BagAdd(B, x)
  OBVIOUS
<1>1. /\ BagHas(z, c) <=> BagHas(B, c) \/ x.cb = c
      /\ BagOnce(B, c) /\ x.cb # c => BagOnce(z, c)
      /\ ~BagHas(B, c) => BagOnce(z, c)
      /\ BagToSet(z) = BagToSet(B) \cup {x}
  BY BagAdded
<1>2. x.cb # c => InPool(z, c, h, p)
  BY <1>1 DEF InPool, Sits
<1>3. x.cb = c /\ x.h = h /\ p = "none" => InPool(z, c, h, "pool")
  BY <1>1 DEF InPool, Sits
<1>4. p = "none" => InMain(J, c, h, "pool") /\ InOther(J, c, h, "pool") /\ InStrand(S, c, h, "pool")
  BY DEF Sits, InMain, InOther, InStrand
<1> QED BY <1>2, <1>3, <1>4 DEF Sits

LEMMA SitsFinished ==
  ASSUME NEW J, NEW B, NEW S, NEW c, NEW h \in Nets, NEW p, Sits(J, B, S, c, h, p), NEW x \in BagToSet(B)
  PROVE  /\ x.cb # c => Sits(J, BagRemove(B, x), S, c, h, p)
         /\ x.cb = c => x.h = h /\ p = "pool" /\ Sits(J, BagRemove(B, x), S, c, h, "none")
<1> PICK z : z = BagRemove(B, x)
  OBVIOUS
<1>1. /\ BagHas(z, c) => BagHas(B, c)
      /\ BagHas(B, c) /\ x.cb # c => BagHas(z, c)
      /\ BagOnce(B, c) /\ x.cb # c => BagOnce(z, c)
      /\ BagOnce(B, c) /\ x.cb = c => ~BagHas(z, c)
      /\ BagToSet(z) \subseteq BagToSet(B)
  BY BagRemoved
<1>2. x.cb # c => InPool(z, c, h, p)
  BY <1>1 DEF InPool, Sits
<1>3. x.cb = c => BagHas(B, c)
  BY DEF BagHas
<1>4. ~BagHas(z, c) => BagOnce(z, c)
  BY DEF BagHas, BagOnce
<1>5. x.cb = c => x.h = h /\ p = "pool" /\ InPool(z, c, h, "none")
  BY <1>1, <1>3, <1>4 DEF InPool, Sits
<1>6. p = "pool" => InMain(J, c, h, "none") /\ InOther(J, c, h, "none") /\ InStrand(S, c, h, "none")
  BY DEF Sits, InMain, InOther, InStrand
<1> QED BY <1>2, <1>5, <1>6 DEF Sits

LEMMA SitsQueued ==
  ASSUME NEW J, NEW B, NEW S \in [Nets -> Seq(StrandSet)], NEW c, NEW h \in Nets, NEW p, Sits(J, B, S, c, h, p),
         NEW g \in Nets, NEW x \in StrandSet
  PROVE  /\ x.cb # c => Sits(J, B, [S EXCEPT ![g] = Append(@, x)], c, h, p)
         /\ x.cb = c /\ g = h /\ p = "none" => Sits(J, B, [S EXCEPT ![g] = Append(@, x)], c, h, "strand")
<1> PICK K : K = [S EXCEPT ![g] = Append(@, x)]
  OBVIOUS
<1> PICK z : z = Append(S[g], x)
  OBVIOUS
<1>1. K[g] = z /\ \A k \in Nets : k # g => K[k] = S[k]
  OBVIOUS
<1>2. /\ SeqHas(z, c) <=> SeqHas(S[g], c) \/ x.cb = c
      /\ SeqOnce(S[g], c) /\ x.cb # c => SeqOnce(z, c)
      /\ ~SeqHas(S[g], c) => SeqOnce(z, c)
  <2>1. S[g] \in Seq(StrandSet)
    OBVIOUS
  <2> QED BY <2>1, SeqAppended
<1>3. x.cb # c => InStrand(K, c, h, p)
  BY <1>1, <1>2 DEF InStrand, Sits
<1>4. x.cb = c /\ g = h /\ p = "none" => InStrand(K, c, h, "strand")
  BY <1>1, <1>2 DEF InStrand, Sits
<1>5. p = "none" => InMain(J, c, h, "strand") /\ InOther(J, c, h, "strand") /\ InPool(B, c, h, "strand")
  BY DEF Sits, InMain, InOther, InPool
<1> QED BY <1>3, <1>4, <1>5 DEF Sits

LEMMA SitsShifted ==
  ASSUME NEW J, NEW B, NEW S \in [Nets -> Seq(StrandSet)], NEW c, NEW h \in Nets, NEW p, Sits(J, B, S, c, h, p),
         NEW g \in Nets, S[g] # <<>>
  PROVE  /\ Head(S[g]).cb # c => Sits(J, B, [S EXCEPT ![g] = Tail(S[g])], c, h, p)
         /\ Head(S[g]).cb = c =>
              g = h /\ p = "strand" /\ Sits(J, B, [S EXCEPT ![g] = Tail(S[g])], c, h, "none")
<1> PICK z : z = Tail(S[g])
  OBVIOUS
<1> PICK K : K = [S EXCEPT ![g] = z]
  OBVIOUS
<1> PICK a : a = Head(S[g]).cb
  OBVIOUS
<1>0. S[g] \in Seq(StrandSet)
  OBVIOUS
<1>1. K[g] = z /\ \A k \in Nets : k # g => K[k] = S[k]
  OBVIOUS
<1>2. /\ SeqHas(z, c) => SeqHas(S[g], c)
      /\ SeqHas(S[g], c) /\ a # c => SeqHas(z, c)
      /\ SeqOnce(S[g], c) => SeqOnce(z, c)
      /\ SeqOnce(S[g], c) /\ a = c => ~SeqHas(z, c)
  BY <1>0, SeqTailed
<1>3. a # c => InStrand(K, c, h, p)
  BY <1>1, <1>2 DEF InStrand, Sits
<1>4. a = c => SeqHas(S[g], c)
  <2>1. 1 \in DOMAIN S[g] /\ Head(S[g]) = S[g][1]
    BY <1>0
  <2> QED BY <2>1 DEF SeqHas
<1>5. a = c => g = h /\ p = "strand" /\ InStrand(K, c, h, "none")
  BY <1>1, <1>2, <1>4 DEF InStrand, Sits
<1>6. p = "strand" => InMain(J, c, h, "none") /\ InOther(J, c, h, "none") /\ InPool(B, c, h, "none")
  BY DEF Sits, InMain, InOther, InPool
<1> QED BY <1>3, <1>5, <1>6 DEF Sits

LEMMA SitsRestaged ==
  ASSUME NEW J, NEW B, NEW S \in [Nets -> Seq(StrandSet)], NEW c, NEW h \in Nets, NEW p, Sits(J, B, S, c, h, p),
         NEW g \in Nets, S[g] # <<>>, NEW y, y.cb = S[g][1].cb
  PROVE  Sits(J, B, [S EXCEPT ![g] = [S[g] EXCEPT ![1] = y]], c, h, p)
<1> PICK z : z = [S[g] EXCEPT ![1] = y]
  OBVIOUS
<1> PICK K : K = [S EXCEPT ![g] = z]
  OBVIOUS
<1>1. K[g] = z /\ \A k \in Nets : k # g => K[k] = S[k]
  OBVIOUS
<1>2. /\ SeqHas(z, c) <=> SeqHas(S[g], c)
      /\ SeqOnce(S[g], c) => SeqOnce(z, c)
  <2>1. S[g] \in Seq(StrandSet)
    OBVIOUS
  <2> QED BY <2>1, SeqRestaged
<1>3. InStrand(K, c, h, p)
  BY <1>1, <1>2 DEF InStrand, Sits
<1> QED BY <1>3 DEF Sits

-----------------------------------------------------------------------------
(* Every callback is called once, and those of the main thread before the handle is gone *)

\* The shutdown: Poison is the last of the main thread's jobs, none follows it, and only one
\* handle is being destroyed.
QueueOf(h) ==
    /\ handle[h].st \in {"none", "joined", "stopping", "gone"} => jobs[h].main = <<>>
    /\ handle[h].st = "open" => \A i \in DOMAIN jobs[h].main : jobs[h].main[i].kind # "poison"
    /\ handle[h].st = "closing" => \A i \in DOMAIN jobs[h].main :
                                      jobs[h].main[i].kind = "poison" => i = Len(jobs[h].main)
    /\ handle[h].st \in {"closing", "joined", "stopping"} => main.h = h
    /\ strand[h] # <<>> => handle[h].st # "none"

\* What the place of a callback has to do with its request s, given the handles H and their nets N.
Fits(H, N, s, p) ==
    /\ H[s.h].st # "none"
    /\ s.called = 0 \/ (s.called = 1 /\ p = "none")
    /\ s.from = "main" => p # "other"
    /\ H[s.h].st = "gone" => p \in {"none", "other"}
    /\ s.from = "main" /\ s.called = 0 => p # "none" \/ (H[s.h].st = "gone" /\ ~N[s.h].running)

\* A number not given to a callback yet is nowhere; a callback is at one place that fits.
TracksOne(H, N, J, B, S, sh, c) ==
    /\ c \notin DOMAIN sh => \A h \in Nets : Sits(J, B, S, c, h, "none")
    /\ c \in DOMAIN sh => \E p \in Places : Sits(J, B, S, c, sh[c].h, p) /\ Fits(H, N, sh[c], p)

Tracks(H, N, J, B, S, sh) == \A c \in Nat \ {0} : TracksOne(H, N, J, B, S, sh, c)

CallbackInv == (\A h \in Nets : QueueOf(h)) /\ Tracks(handle, net, jobs, pool, strand, shots)

LEMMA CallbackInvGives ==
  ASSUME WorkTypes, CallbackInv
  PROVE  AnsweredBeforeDestroyed
<1> SUFFICES ASSUME NEW c \in DOMAIN shots
             PROVE  /\ shots[c].called <= 1
                    /\ handle[shots[c].h].st = "gone" /\ shots[c].from = "main" /\ net[shots[c].h].running =>
                          shots[c].called = 1
  BY DEF AnsweredBeforeDestroyed
<1>1. c \in Nat \ {0} /\ shots[c] \in ShotSet
  BY DEF WorkTypes
<1>2. PICK p \in Places : Fits(handle, net, shots[c], p)
  BY <1>1 DEF CallbackInv, Tracks, TracksOne
<1> QED BY <1>2 DEF Fits

\* Tasks change, but not where a callback is.
Settles ==
    /\ \A c \in Nat \ {0} : \A h \in Nets : \A p \in Places :
          Sits(jobs, pool, strand, c, h, p) => Sits(jobs, pool', strand', c, h, p)
    /\ \A g \in Nets : strand'[g] # <<>> => strand[g] # <<>> \/ handle[g].st # "none"

LEMMA SettlesUnchanged ==
  ASSUME UNCHANGED <<pool, strand>>
  PROVE  Settles
  BY DEF Settles

LEMMA SettlesPosted ==
  ASSUME NEW x, x.cb = 0, pool' = BagAdd(pool, x), strand' = strand
  PROVE  Settles
<1>1. ASSUME NEW c \in Nat \ {0}, NEW h \in Nets, NEW p \in Places, Sits(jobs, pool, strand, c, h, p)
      PROVE  Sits(jobs, pool', strand', c, h, p)
  BY <1>1, SitsPosted
<1> QED BY <1>1 DEF Settles

LEMMA SettlesGrown ==
  ASSUME NEW x, NEW y, x.cb = 0, y.cb = 0, pool' = BagAdd(BagAdd(pool, x), y), strand' = strand
  PROVE  Settles
<1>1. ASSUME NEW c \in Nat \ {0}, NEW h \in Nets, NEW p \in Places, Sits(jobs, pool, strand, c, h, p)
      PROVE  Sits(jobs, pool', strand', c, h, p)
  <2> PICK B : B = BagAdd(pool, x)
    OBVIOUS
  <2>1. Sits(jobs, B, strand, c, h, p)
    BY <1>1, SitsPosted
  <2>2. Sits(jobs, BagAdd(B, y), strand, c, h, p)
    BY <2>1, SitsPosted
  <2> QED BY <2>2
<1> QED BY <1>1 DEF Settles

\* The tasks after an authentication, added to a pool B that holds the callback where pool does.
LEMMA SettlesConnected ==
  ASSUME WorkTypes, NEW g \in Nets, NEW B, Connects(g, B), handle[g].st # "none",
         \A c \in Nat \ {0} : \A h \in Nets : \A p \in Places :
            Sits(jobs, pool, strand, c, h, p) => Sits(jobs, B, strand, c, h, p)
  PROVE  Settles
<1> PICK x : x = Task(g, "object", "wait", 0)
  OBVIOUS
<1> PICK y : y = Task(g, "config", "wait", 0)
  OBVIOUS
<1> PICK f : f = Task(g, "firmwares", "wait", 0)
  OBVIOUS
<1>0. x.cb = 0 /\ y.cb = 0 /\ f.cb = 0 /\ f \in StrandSet
  <2>1. "firmwares" \in TaskKinds
    BY DEF TaskKinds
  <2>2. f \in TaskSet /\ f.cb = 0
    BY <2>1, TaskIsQueued
  <2> QED BY <2>2 DEF Task, StrandSet
<1>1. /\ strand \in [Nets -> Seq(StrandSet)]
      /\ pool' = BagAdd(BagAdd(B, x), y)
      /\ strand' = strand \/ strand' = [strand EXCEPT ![g] = Append(@, f)]
  BY DEF WorkTypes, Connects
<1>2. ASSUME NEW c \in Nat \ {0}, NEW h \in Nets, NEW p \in Places, Sits(jobs, pool, strand, c, h, p)
      PROVE  Sits(jobs, pool', strand', c, h, p)
  <2> PICK A : A = BagAdd(B, x)
    OBVIOUS
  <2>1. Sits(jobs, B, strand, c, h, p)
    BY <1>2
  <2>2. Sits(jobs, A, strand, c, h, p)
    BY <1>0, <2>1, SitsPosted
  <2>3. Sits(jobs, pool', strand, c, h, p)
    BY <1>0, <1>1, <2>2, SitsPosted
  <2>4. f.cb # c
    BY <1>0
  <2>5. Sits(jobs, pool', [strand EXCEPT ![g] = Append(@, f)], c, h, p)
    BY <1>0, <1>1, <2>3, <2>4, SitsQueued
  <2> QED BY <1>1, <2>3, <2>5
<1>3. \A k \in Nets : strand'[k] # <<>> => strand[k] # <<>> \/ handle[k].st # "none"
  BY <1>1
<1> QED BY <1>2, <1>3 DEF Settles

LEMMA SettlesStrand ==
  ASSUME WorkTypes, NEW g \in Nets, StrandMoves(g), pool' = pool
  PROVE  Settles
<1>0. strand \in [Nets -> Seq(StrandSet)] /\ strand[g] # <<>>
  BY DEF WorkTypes, StrandMoves
<1>1. ASSUME NEW c \in Nat \ {0}, NEW h \in Nets, NEW p \in Places, Sits(jobs, pool, strand, c, h, p)
      PROVE  Sits(jobs, pool', strand', c, h, p)
  <2>1. CASE strand' = [strand EXCEPT ![g] = Tail(strand[g])] /\ Head(strand[g]).cb = 0
    BY <1>0, <1>1, <2>1, SitsShifted
  <2>2. ASSUME NEW y \in StrandSet, y.cb = strand[g][1].cb,
               strand' = [strand EXCEPT ![g] = [strand[g] EXCEPT ![1] = y]]
        PROVE  Sits(jobs, pool', strand', c, h, p)
    BY <1>0, <1>1, <2>2, SitsRestaged
  <2> QED BY <2>1, <2>2 DEF StrandMoves
<1>2. \A k \in Nets : k # g => strand'[k] = strand[k]
  BY <1>0 DEF StrandMoves
<1> QED BY <1>0, <1>1, <1>2 DEF Settles

LEMMA SettlesTask ==
  ASSUME WorkTypes, Housed, NEW t \in BagToSet(pool), TaskStep(t)
  PROVE  Settles
<1>0. t.h \in Nets /\ handle[t.h].st # "none"
  BY DEF Housed, PoolTask, TaskSet
<1>1. ASSUME NEW u, GoesOnAs(t, u), NEW c \in Nat \ {0}, NEW h \in Nets, NEW p \in Places,
             Sits(jobs, pool, strand, c, h, p)
      PROVE  Sits(jobs, BagAdd(BagRemove(pool, t), u), strand, c, h, p)
  <2> PICK B : B = BagRemove(pool, t)
    OBVIOUS
  <2>0. u.cb = t.cb /\ u.h = t.h
    BY <1>1 DEF GoesOnAs
  <2>1. CASE t.cb # c
    <3>1. Sits(jobs, B, strand, c, h, p)
      BY <1>1, <2>1, SitsFinished
    <3> QED BY <2>0, <2>1, <3>1, SitsPosted
  <2>2. CASE t.cb = c
    <3>1. t.h = h /\ p = "pool" /\ Sits(jobs, B, strand, c, h, "none")
      BY <1>1, <2>2, SitsFinished
    <3> QED BY <2>0, <2>2, <3>1, SitsPosted
  <2> QED BY <2>1, <2>2
<1>2. ASSUME NEW u, GoesOn(t, u), strand' = strand PROVE Settles
  <2>1. pool' = BagAdd(BagRemove(pool, t), u) /\ GoesOnAs(t, u)
    BY <1>2 DEF GoesOn
  <2> QED BY <1>1, <1>2, <2>1 DEF Settles
<1>3. ASSUME Ends(t), t.cb = 0, strand' = strand PROVE Settles
  <2>1. ASSUME NEW c \in Nat \ {0}, NEW h \in Nets, NEW p \in Places, Sits(jobs, pool, strand, c, h, p)
        PROVE  Sits(jobs, pool', strand', c, h, p)
    BY <1>3, <2>1, SitsFinished DEF Ends
  <2> QED BY <1>3, <2>1 DEF Settles
<1>4. ASSUME NEW u, GoesOnAs(t, u), Connects(t.h, BagAdd(BagRemove(pool, t), u)) PROVE Settles
  BY <1>0, <1>1, <1>4, SettlesConnected
<1> QED BY <1>2, <1>3, <1>4 DEF TaskStep

\* The steps by what they do to jobs, callbacks and handles.
Same == UNCHANGED <<handle, main>>
Dispatching(h) == handle[h].st \in {"open", "closing"}

Closes(h) ==
    /\ handle[h].st = "open" /\ main.h = 0 /\ main'.h = h
    /\ \A g \in Nets : handle'[g].st = IF g = h THEN "closing" ELSE handle[g].st
    /\ jobs' = [jobs EXCEPT ![h].main = Append(@, Poison)]
    /\ UNCHANGED <<pool, strand, shots>>

EndsThread(h) ==
    /\ Dispatching(h) /\ main' = main
    /\ handle' = [handle EXCEPT ![h].st = "joined"]
    /\ \E j, js : TakesMain(h, j, js) /\ j.kind = "poison" /\ jobs' = js
    /\ UNCHANGED <<pool, strand, shots>>

RunsMain(h) ==
    /\ Same /\ Dispatching(h)
    /\ \E j, js : TakesMain(h, j, js) /\ RanJob(h, j.cb, js)

RunsOther(h) ==
    /\ Same /\ Dispatching(h)
    /\ \E j, js : TakesOther(h, j, js) /\ RanJob(h, j.cb, js)

Replies(t) == Same /\ strand' = strand /\ pool' = BagRemove(pool, t) /\ Returned(t.h, Called(t.cb), jobs)

StrandReplies(h) ==
    /\ Same /\ pool' = pool /\ strand[h] # <<>>
    /\ strand' = [strand EXCEPT ![h] = Tail(strand[h])]
    /\ Returned(h, Called(Head(strand[h]).cb), jobs)

Tells(h) == Same /\ UNCHANGED <<pool, strand>> /\ Returned(h, shots, jobs) /\ net[h].running

CallStep ==
    \/ Same /\ UNCHANGED <<jobs, shots>> /\ Settles
    \/ \E s \in Slots, h \in Nets : CreateGameState(s, h)
    \/ \E h \in Nets : \/ Closes(h) \/ DispatcherJoined(h) \/ HandleDestroyed(h) \/ EndsThread(h)
                       \/ RunsMain(h) \/ RunsOther(h) \/ StrandReplies(h) \/ Tells(h)
                       \/ \E kind \in Commands \cup Asks : \E lang \in {"cpp", "python"} : MainCalls(h, kind, lang)
    \/ \E t \in BagToSet(pool) : Replies(t)

LEMMA DestroyCloses ==
  ASSUME RemoteInv, CallbackInv, NEW s \in Slots,
         (\E lang \in {"cpp", "python"} : DestroyGameState(s, lang)) \/ (\E r \in Slots : MoveAssign(s, r))
  PROVE  \E h \in Nets : Closes(h)
<1> PICK h : h = state[s].h
  OBVIOUS
<1>0. ObjectTypes /\ Attached /\ 0 \notin Nets
  BY HostAssumption DEF RemoteInv, ObjectInv
<1>1. h # 0 /\ main = Idle
  BY DEF DestroyGameState, MoveAssign, Ready
<1>2. h \in Nets /\ Threads(h)
  BY <1>0, <1>1 DEF ObjectTypes, StateSet, Attached
<1>3. main.h = 0
  BY <1>1 DEF Idle
<1>4. handle[h].st = "open"
  <2>1. QueueOf(h)
    BY <1>2 DEF CallbackInv
  <2> QED BY <1>0, <1>2, <1>3, <2>1 DEF QueueOf, Threads
<1>5. /\ jobs' = [jobs EXCEPT ![h].main = Append(@, [kind |-> "poison", cb |-> 0])]
      /\ main'.h = h /\ UNCHANGED remoteVars /\ shots' = shots
  <2>1. CASE \E lang \in {"cpp", "python"} : DestroyGameState(s, lang)
    BY <2>1 DEF DestroyGameState, BeginDestroy
  <2>2. CASE \E r \in Slots : MoveAssign(s, r)
    BY <2>2 DEF MoveAssign
  <2> QED BY <2>1, <2>2
<1>6. \/ handle' = [handle EXCEPT ![h].st = "closing"]
      \/ handle' = [handle EXCEPT ![h].st = "closing", ![h].covered = FALSE]
  BY DEF DestroyGameState, BeginDestroy, MoveAssign
<1>7. \A g \in Nets : handle'[g].st = IF g = h THEN "closing" ELSE handle[g].st
  BY <1>0, <1>2, <1>6 DEF ObjectTypes, HandleSet
<1>8. Closes(h)
  BY <1>3, <1>4, <1>5, <1>7 DEF Closes, Poison, remoteVars
<1> QED BY <1>2, <1>8

LEMMA CallsChange ==
  ASSUME RemoteInv, CallbackInv, Next
  PROVE  CallStep
<1>0. WorkTypes /\ Housed
  BY DEF RemoteInv
<1>1. ASSUME Same, UNCHANGED <<jobs, shots, pool, strand>> PROVE CallStep
  BY <1>1, SettlesUnchanged DEF CallStep
<1>2. CASE CppSetsValues \/ PythonSetsValues \/ SetEncryptedKey \/ PythonSetsSigner
  BY <1>1, <1>2 DEF CppSetsValues, PythonSetsValues, SetValues, SetEncryptedKey, PythonSetsSigner, SetCallback,
                    remoteVars, Same
<1>3. ASSUME NEW k \in Kinds, CppSetsCallback(k) \/ PythonSetsCallback(k) PROVE CallStep
  BY <1>1, <1>3 DEF CppSetsCallback, PythonSetsCallback, SetCallback, remoteVars, Same
<1>4. CASE DestroyConfig \/ InterpreterExits \/ SecondPasses
  BY <1>1, <1>4 DEF DestroyConfig, InterpreterExits, SecondPasses, remoteVars, Same
<1>5. ASSUME NEW s \in Slots, CppDestroys(s) \/ PythonDestroys(s) \/ (\E r \in Slots : MoveAssign(s, r))
      PROVE  CallStep
  <2>1. \E h \in Nets : Closes(h)
    BY <1>5, DestroyCloses DEF CppDestroys, PythonDestroys
  <2> QED BY <2>1 DEF CallStep
<1>6. ASSUME NEW s \in Slots, NEW h \in Nets, CreateGameState(s, h) PROVE CallStep
  BY <1>6 DEF CallStep
<1>7. ASSUME NEW h \in Nets, DispatcherJoined(h) \/ HandleDestroyed(h) PROVE CallStep
  BY <1>7 DEF CallStep
<1>8. ASSUME NEW h \in Nets, NEW kind \in Commands \cup Asks, CppCalls(h, kind) \/ PythonCalls(h, kind)
      PROVE  CallStep
  BY <1>8 DEF CallStep, CppCalls, PythonCalls
<1>9. ASSUME NEW h \in Nets, DispatchMain(h) PROVE CallStep
  <2>1. Dispatching(h) /\ main' = main
    BY <1>9 DEF DispatchMain, Dispatching
  <2>2. PICK j, js : /\ TakesMain(h, j, js)
                     /\ \/ RanJob(h, j.cb, js) /\ handle' = handle /\ j.kind # "poison"
                        \/ /\ j.kind = "poison" /\ jobs' = js /\ UNCHANGED <<remoteVars, shots>>
                           /\ handle' = [handle EXCEPT ![h].st = "joined"]
    BY <1>0, <1>9, DispatchedMain
  <2>3. RunsMain(h) \/ EndsThread(h)
    BY <2>1, <2>2 DEF RunsMain, EndsThread, Same, remoteVars
  <2> QED BY <2>3 DEF CallStep
<1>10. ASSUME NEW h \in Nets, DispatchOther(h) PROVE CallStep
  <2>1. Dispatching(h) /\ Same
    BY <1>10 DEF DispatchOther, Dispatching, Same
  <2>2. RunsOther(h)
    BY <1>0, <1>10, <2>1, DispatchedOther DEF RunsOther
  <2> QED BY <2>2 DEF CallStep
<1>11. ASSUME NEW h \in Nets, StrandReply(h) PROVE CallStep
  <2>1. StrandReplies(h)
    BY <1>0, <1>11, StrandReplied DEF StrandReplies, StrandReply, Same
  <2> QED BY <2>1 DEF CallStep
<1>12. ASSUME NEW h \in Nets, NEW i, Deliver(h, i) PROVE CallStep
  <2>1. Tells(h)
    BY <1>0, <1>12, Delivered DEF Tells, Deliver, Same
  <2> QED BY <2>1 DEF CallStep
<1>13. ASSUME NEW t \in BagToSet(pool), Reply(t) PROVE CallStep
  <2>0. t.h \in Nets
    BY <1>0 DEF Housed, PoolTask, TaskSet
  <2>1. Replies(t)
    BY <1>0, <1>13, <2>0, Replied DEF Replies, Reply, Same
  <2> QED BY <2>1 DEF CallStep
<1>14. ASSUME NEW h \in Nets, Publication(h) PROVE CallStep
  <2>1. PICK msg : OnPublication(h, msg)
    BY <1>14 DEF Publication
  <2>2. Same /\ UNCHANGED <<jobs, shots>>
    BY <1>14 DEF Publication, Same
  <2>3. Published(h)
    BY <2>1, MessageHandled
  <2>4. ASSUME NEW id, HandleDiagnosticProbe(h, id) PROVE Settles
    <3>1. DiagnosticPacket(h).cb = 0 /\ DiagnosticAck(h).cb = 0
      BY DEF DiagnosticPacket, DiagnosticAck, Task
    <3> QED BY <2>4, <3>1, SettlesGrown, SettlesUnchanged DEF HandleDiagnosticProbe
  <2>5. CASE Posted(h, 0) \/ UNCHANGED <<pool, strand>>
    BY <2>2, <2>5, SettlesPosted, SettlesUnchanged DEF Posted, CallStep
  <2> QED BY <2>2, <2>3, <2>4, <2>5 DEF Published, CallStep
<1>15. ASSUME NEW h \in Nets, Authentication(h) PROVE CallStep
  <2>1. PICK s \in Statuses : StatusChanges(h, s)
    BY <1>15 DEF Authentication
  <2>2. Same /\ UNCHANGED <<jobs, shots>> /\ handle[h].st # "none"
    BY <1>0, <1>15, <2>1 DEF Authentication, Same, StatusChanges, Housed
  <2>3. CASE InitializeConnectionState(h, pool)
    <3>1. Task(h, "firmwares", "wait", 0).h = h
      BY DEF Task
    <3>2. Connects(h, pool)
      BY <2>1, <2>3, <3>1 DEF Connects, InitializeConnectionState, RequestFirmwaresList, PostQueue, StatusChanges
    <3>3. Settles
      BY <1>0, <2>2, <3>2, SettlesConnected
    <3> QED BY <2>2, <3>3 DEF CallStep
  <2>4. CASE UNCHANGED <<pool, strand>>
    BY <1>1, <2>2, <2>4
  <2> QED BY <2>1, <2>3, <2>4 DEF StatusChanges
<1>16. ASSUME NEW h \in Nets, StrandRuns(h), UNCHANGED hostVars PROVE CallStep
  <2>1. Settles
    BY <1>0, <1>16, StrandRan, SettlesStrand DEF StrandRuns
  <2> QED BY <1>16, <2>1 DEF CallStep, hostVars, Same
<1>17. ASSUME NEW h \in Nets, ShortCodeCached(h), UNCHANGED hostVars PROVE CallStep
  BY <1>1, <1>17 DEF ShortCodeCached, hostVars, Same
<1>18. ASSUME PoolRuns, UNCHANGED hostVars PROVE CallStep
  <2>1. PICK t \in BagToSet(pool) :
              \/ RequestWakes(t) \/ RequestAnswered(t) \/ MachinePaired(t) \/ Publishes(t)
              \/ NothingToUpload(t) \/ ArchiveOpens(t) \/ ArchiveWritten(t) \/ ArchiveChecked(t)
    BY <1>18 DEF PoolRuns
  <2>2. PoolTask(t)
    BY <1>0 DEF Housed
  <2>3. TaskStep(t)
    BY <1>0, <2>1, <2>2, PoolRan DEF Housed, WorkTypes
  <2>4. Settles
    BY <1>0, <2>3, SettlesTask
  <2> QED BY <1>18, <2>4 DEF CallStep, hostVars, Same
<1> QED
  BY <1>2, <1>3, <1>4, <1>5, <1>6, <1>7, <1>8, <1>9, <1>10, <1>11, <1>12, <1>13, <1>14, <1>15, <1>16, <1>17, <1>18
     DEF Next

\* Callback a, if it is one, has been taken by a thread of handle h and is nowhere; the others
\* are tracked.
TracksBut(H, N, J, B, S, sh, a, h) ==
    /\ \A c \in Nat \ {0} : c # a => TracksOne(H, N, J, B, S, sh, c)
    /\ a = 0 \/ (/\ a \in DOMAIN sh /\ sh[a].h = h /\ sh[a].called = 0 /\ H[h].st # "none"
                 /\ Sits(J, B, S, a, h, "none"))

\* Callback a is taken away from handle h's queues and tasks, and put at place q.
Takes(J, B, S, K, C, T, a, h) ==
    \A c \in Nat \ {0} : \A g \in Nets : \A p \in Places : Sits(J, B, S, c, g, p) =>
       /\ c # a => Sits(K, C, T, c, g, p)
       /\ c = a => g = h /\ p # "none" /\ Sits(K, C, T, c, g, "none")

Puts(J, B, S, C, T, a, h, q) ==
    \A c \in Nat \ {0} : \A g \in Nets : \A p \in Places : Sits(J, B, S, c, g, p) =>
       /\ c # a => Sits(J, C, T, c, g, p)
       /\ c = a /\ g = h /\ p = "none" => Sits(J, C, T, c, g, q)

LEMMA ShotHandle ==
  ASSUME NEW sh \in Seq(ShotSet), NEW c \in DOMAIN sh
  PROVE  sh[c].h \in Nets
<1> PICK s : s = sh[c]
  OBVIOUS
<1>1. s \in ShotSet
  OBVIOUS
<1> QED BY <1>1 DEF ShotSet

LEMMA TracksFrom ==
  ASSUME NEW H, NEW N, NEW J, NEW B, NEW S, NEW sh \in Seq(ShotSet), Tracks(H, N, J, B, S, sh),
         NEW K, NEW C, NEW T, NEW a \in Nat, NEW h \in Nets, Takes(J, B, S, K, C, T, a, h)
  PROVE  TracksBut(H, N, K, C, T, sh, a, h)
<1>0. "none" \in Places
  BY DEF Places
<1>a. \A c \in Nat \ {0} : \A g \in Nets : \A p \in Places : Sits(J, B, S, c, g, p) =>
        /\ c # a => Sits(K, C, T, c, g, p)
        /\ c = a => g = h /\ p # "none" /\ Sits(K, C, T, c, g, "none")
  BY DEF Takes
<1>1. ASSUME NEW c \in Nat \ {0}, c # a PROVE TracksOne(H, N, K, C, T, sh, c)
  <2>1. TracksOne(H, N, J, B, S, sh, c)
    BY DEF Tracks
  <2>2. CASE c \notin DOMAIN sh
    BY <1>0, <1>a, <1>1, <2>1, <2>2 DEF TracksOne
  <2>3. CASE c \in DOMAIN sh
    <3>1. sh[c].h \in Nets
      BY <2>3, ShotHandle
    <3>2. PICK p \in Places : Sits(J, B, S, c, sh[c].h, p) /\ Fits(H, N, sh[c], p)
      BY <2>1, <2>3 DEF TracksOne
    <3>3. Sits(K, C, T, c, sh[c].h, p)
      BY <1>a, <1>1, <3>1, <3>2
    <3> QED BY <2>3, <3>2, <3>3 DEF TracksOne
  <2> QED BY <2>2, <2>3
<1>2. ASSUME a # 0
      PROVE  /\ a \in DOMAIN sh /\ sh[a].h = h /\ sh[a].called = 0 /\ H[h].st # "none"
             /\ Sits(K, C, T, a, h, "none")
  <2>1. a \in Nat \ {0} /\ TracksOne(H, N, J, B, S, sh, a)
    BY <1>2 DEF Tracks
  <2>2. a \in DOMAIN sh
    <3>1. ASSUME Sits(J, B, S, a, h, "none") PROVE FALSE
      BY <1>0, <1>a, <2>1, <3>1
    <3> QED BY <2>1, <3>1 DEF TracksOne
  <2>3. sh[a].h \in Nets
    BY <2>2, ShotHandle
  <2>4. PICK p \in Places : Sits(J, B, S, a, sh[a].h, p) /\ Fits(H, N, sh[a], p)
    BY <2>1, <2>2 DEF TracksOne
  <2>5. sh[a].h = h /\ p # "none" /\ Sits(K, C, T, a, sh[a].h, "none")
    BY <1>a, <2>1, <2>3, <2>4
  <2> QED BY <2>2, <2>4, <2>5 DEF Fits
<1> QED BY <1>1, <1>2 DEF TracksBut

LEMMA TracksCalled ==
  ASSUME NEW H, NEW N, NEW J, NEW B, NEW S, NEW a \in Nat, NEW h \in Nets, shots \in Seq(ShotSet),
         TracksBut(H, N, J, B, S, shots, a, h)
  PROVE  Tracks(H, N, J, B, S, Called(a))
<1> PICK sh : sh = Called(a)
  OBVIOUS
<1>0. /\ DOMAIN sh = DOMAIN shots
      /\ \A c \in DOMAIN shots : /\ sh[c].h = shots[c].h /\ sh[c].from = shots[c].from
                                 /\ c # a => sh[c].called = shots[c].called
                                 /\ c = a => sh[c].called = shots[c].called + 1
  BY CalledShots
<1>1. ASSUME NEW c \in Nat \ {0}, c # a PROVE TracksOne(H, N, J, B, S, sh, c)
  <2>1. TracksOne(H, N, J, B, S, shots, c)
    BY <1>1 DEF TracksBut
  <2> QED BY <1>0, <1>1, <2>1 DEF TracksOne, Fits
<1>2. ASSUME a # 0 PROVE TracksOne(H, N, J, B, S, sh, a)
  <2>1. /\ a \in DOMAIN shots /\ shots[a].h = h /\ shots[a].called = 0 /\ H[h].st # "none"
        /\ Sits(J, B, S, a, h, "none")
    BY <1>2 DEF TracksBut
  <2>2. sh[a].h = h /\ sh[a].called = 1 /\ "none" \in Places
    BY <1>0, <2>1 DEF Places
  <2>3. Fits(H, N, sh[a], "none")
    BY <2>1, <2>2 DEF Fits
  <2> QED BY <1>0, <2>1, <2>2, <2>3 DEF TracksOne
<1> QED BY <1>1, <1>2 DEF Tracks

LEMMA TracksPut ==
  ASSUME NEW H, NEW N, NEW J, NEW B, NEW S, NEW sh, NEW a \in Nat, NEW h \in Nets,
         TracksBut(H, N, J, B, S, sh, a, h), H[h].st # "gone",
         NEW C, NEW T, NEW q \in {"pool", "strand"}, Puts(J, B, S, C, T, a, h, q), sh \in Seq(ShotSet)
  PROVE  Tracks(H, N, J, C, T, sh)
<1>0. "none" \in Places /\ q \in Places
  BY DEF Places
<1>a. \A c \in Nat \ {0} : \A g \in Nets : \A p \in Places : Sits(J, B, S, c, g, p) =>
        /\ c # a => Sits(J, C, T, c, g, p)
        /\ c = a /\ g = h /\ p = "none" => Sits(J, C, T, c, g, q)
  BY DEF Puts
<1>1. ASSUME NEW c \in Nat \ {0}, c # a PROVE TracksOne(H, N, J, C, T, sh, c)
  <2>1. TracksOne(H, N, J, B, S, sh, c)
    BY <1>1 DEF TracksBut
  <2>2. CASE c \notin DOMAIN sh
    BY <1>0, <1>a, <1>1, <2>1, <2>2 DEF TracksOne
  <2>3. CASE c \in DOMAIN sh
    <3>1. sh[c].h \in Nets
      BY <2>3, ShotHandle
    <3>2. PICK p \in Places : Sits(J, B, S, c, sh[c].h, p) /\ Fits(H, N, sh[c], p)
      BY <2>1, <2>3 DEF TracksOne
    <3>3. Sits(J, C, T, c, sh[c].h, p)
      BY <1>a, <1>1, <3>1, <3>2
    <3> QED BY <2>3, <3>2, <3>3 DEF TracksOne
  <2> QED BY <2>2, <2>3
<1>2. ASSUME a # 0 PROVE TracksOne(H, N, J, C, T, sh, a)
  <2>1. /\ a \in DOMAIN sh /\ sh[a].h = h /\ sh[a].called = 0 /\ H[h].st # "none"
        /\ Sits(J, B, S, a, h, "none") /\ a \in Nat \ {0}
    BY <1>2 DEF TracksBut
  <2>2. Sits(J, C, T, a, h, q)
    BY <1>0, <1>a, <2>1
  <2>3. Fits(H, N, sh[a], q)
    BY <2>1 DEF Fits
  <2> QED BY <1>0, <2>1, <2>2, <2>3 DEF TracksOne
<1> QED BY <1>1, <1>2 DEF Tracks

\* The handles change, but none that has callbacks is destroyed or made.
LEMMA TracksStays ==
  ASSUME NEW H, NEW N, NEW J, NEW B, NEW S, NEW sh \in Seq(ShotSet), Tracks(H, N, J, B, S, sh), NEW G, NEW M,
         \A g \in Nets : H[g].st # "none" => /\ G[g].st # "none" /\ M[g].running = N[g].running
                                             /\ G[g].st = "gone" <=> H[g].st = "gone"
  PROVE  Tracks(G, M, J, B, S, sh)
<1>1. ASSUME NEW c \in Nat \ {0} PROVE TracksOne(G, M, J, B, S, sh, c)
  <2>1. TracksOne(H, N, J, B, S, sh, c)
    BY DEF Tracks
  <2>2. ASSUME c \in DOMAIN sh, NEW p, Fits(H, N, sh[c], p) PROVE Fits(G, M, sh[c], p)
    <3>1. sh[c].h \in Nets
      BY <2>2, ShotHandle
    <3> QED BY <2>2, <3>1 DEF Fits
  <2> QED BY <2>1, <2>2 DEF TracksOne
<1> QED BY <1>1 DEF Tracks

\* A request is made: its callback is a new one, with the queues or with a job that is lost.
LEMMA TracksNew ==
  ASSUME NEW H, NEW N, NEW J, NEW B, NEW S, NEW sh \in Seq(ShotSet), Tracks(H, N, J, B, S, sh),
         NEW K, NEW th, NEW a \in Nat, NEW x \in ShotSet,
         (a = 0 /\ th = sh) \/ (a = Len(sh) + 1 /\ th = Append(sh, x)),
         \A c \in Nat \ {0} : \A g \in Nets : \A p \in Places :
            Sits(J, B, S, c, g, p) /\ c # a => Sits(K, B, S, c, g, p),
         a # 0 => \E p \in Places : /\ Fits(H, N, x, p)
                                    /\ Sits(J, B, S, a, x.h, "none") => Sits(K, B, S, a, x.h, p)
  PROVE  Tracks(H, N, K, B, S, th)
<1>0. "none" \in Places /\ x.h \in Nets
  BY DEF Places, ShotSet
<1>1. ASSUME NEW c \in Nat \ {0}, c # a PROVE TracksOne(H, N, K, B, S, th, c)
  <2>1. TracksOne(H, N, J, B, S, sh, c)
    BY DEF Tracks
  <2>2. (c \in DOMAIN th <=> c \in DOMAIN sh) /\ (c \in DOMAIN sh => th[c] = sh[c])
    <3>1. CASE th = sh
      BY <3>1
    <3>2. CASE a = Len(sh) + 1 /\ th = Append(sh, x)
      BY <1>1, <3>2
    <3> QED BY <3>1, <3>2
  <2>3. CASE c \notin DOMAIN sh
    BY <1>0, <1>1, <2>1, <2>2, <2>3 DEF TracksOne
  <2>4. CASE c \in DOMAIN sh
    <3>1. sh[c].h \in Nets
      BY <2>4, ShotHandle
    <3>2. PICK p \in Places : Sits(J, B, S, c, sh[c].h, p) /\ Fits(H, N, sh[c], p)
      BY <2>1, <2>4 DEF TracksOne
    <3>3. Sits(K, B, S, c, sh[c].h, p)
      BY <1>1, <3>1, <3>2
    <3> QED BY <2>2, <2>4, <3>2, <3>3 DEF TracksOne
  <2> QED BY <2>3, <2>4
<1>2. ASSUME a # 0 PROVE TracksOne(H, N, K, B, S, th, a)
  <2>1. a = Len(sh) + 1 /\ th = Append(sh, x) /\ a \in Nat \ {0}
    BY <1>2
  <2>2. a \notin DOMAIN sh /\ a \in DOMAIN th /\ th[a] = x
    BY <2>1
  <2>3. TracksOne(H, N, J, B, S, sh, a)
    BY <2>1 DEF Tracks
  <2>4. Sits(J, B, S, a, x.h, "none")
    BY <1>0, <2>2, <2>3 DEF TracksOne
  <2>5. PICK p \in Places : Fits(H, N, x, p) /\ Sits(K, B, S, a, x.h, p)
    BY <1>2, <2>4
  <2> QED BY <2>2, <2>5 DEF TracksOne
<1> QED BY <1>1, <1>2 DEF Tracks

LEMMA TracksReturned ==
  ASSUME NEW H, NEW N, NEW B, NEW S, NEW sh \in Seq(ShotSet), NEW js \in [Nets -> JobQueues],
         NEW h \in Nets, H[h].st # "none", Tracks(H, N, js, B, S, sh), Returned(h, sh, js)
  PROVE  Tracks(H, N, jobs', B, S, shots')
<1>1. CASE shots' = sh /\ jobs' = js
  BY <1>1
<1>2. CASE AppAsks(h, sh, js)
  <2> PICK x : x = NewShot(h, "other")
    OBVIOUS
  <2>0. x \in ShotSet /\ x.h = h /\ x.from = "other" /\ x.called = 0
    BY DEF NewShot, ShotSet
  <2>1. PICK j \in CallSet :
          /\ (j.cb = 0 /\ shots' = sh) \/ (j.cb = Len(sh) + 1 /\ shots' = Append(sh, x))
          /\ jobs' = js \/ jobs' = [js EXCEPT ![h].other = BagAdd(@, j)]
    BY <1>2 DEF AppAsks
  <2> PICK a : a = j.cb
    OBVIOUS
  <2> PICK K : K = jobs'
    OBVIOUS
  <2> PICK th : th = shots'
    OBVIOUS
  <2>2. a \in Nat
    BY DEF CallSet
  <2>3. ASSUME NEW c \in Nat \ {0}, NEW g \in Nets, NEW p \in Places, Sits(js, B, S, c, g, p), c # a
        PROVE  Sits(K, B, S, c, g, p)
    BY <2>1, <2>3, SitsAdded
  <2>4. ASSUME a # 0
        PROVE  \E p \in Places : /\ Fits(H, N, x, p)
                                 /\ Sits(js, B, S, a, x.h, "none") => Sits(K, B, S, a, x.h, p)
    <3>0. {"none", "other"} \subseteq Places
      BY DEF Places
    <3>1. Fits(H, N, x, "none") /\ Fits(H, N, x, "other")
      BY <2>0 DEF Fits
    <3>2. CASE K = js
      BY <3>0, <3>1, <3>2
    <3>3. CASE K = [js EXCEPT ![h].other = BagAdd(@, j)]
      <4>1. ASSUME Sits(js, B, S, j.cb, h, "none")
            PROVE  Sits([js EXCEPT ![h].other = BagAdd(@, j)], B, S, j.cb, h, "other")
        BY <4>1, SitsAdded
      <4> QED BY <2>0, <3>0, <3>1, <3>3, <4>1
    <3> QED BY <2>1, <3>2, <3>3
  <2>5. Tracks(H, N, K, B, S, th)
    BY <2>0, <2>1, <2>2, <2>3, <2>4, TracksNew
  <2> QED BY <2>5
<1> QED BY <1>1, <1>2 DEF Returned

\* The steps, each with the handles and nets as they were.
LEMMA CallbackTypes ==
  ASSUME RemoteInv, CallbackInv
  PROVE  /\ Tracks(handle, net, jobs, pool, strand, shots)
         /\ jobs \in [Nets -> JobQueues] /\ shots \in Seq(ShotSet) /\ strand \in [Nets -> Seq(StrandSet)]
         /\ WorkTypes /\ Housed /\ ObjectTypes /\ handle \in [Nets -> HandleSet]
         /\ "none" \in Places
  BY DEF RemoteInv, CallbackInv, WorkTypes, ObjectInv, ObjectTypes, Places

LEMMA TracksRanJob ==
  ASSUME RemoteInv, CallbackInv, NEW h \in Nets, NEW j, NEW js, Dispatching(h),
         TakesMain(h, j, js) \/ TakesOther(h, j, js), RanJob(h, j.cb, js)
  PROVE  Tracks(handle, net, jobs', pool', strand', shots')
<1> PICK a : a = j.cb
  OBVIOUS
<1>0. js \in [Nets -> JobQueues] /\ a \in Nat
  <2>1. j \in JobSet
    BY CallbackTypes, JobTaken DEF JobSet
  <2> QED BY <2>1, CallbackTypes, JobTaken DEF JobSet, CallSet, Poison
<1>1. ASSUME NEW c \in Nat \ {0}, NEW g \in Nets, NEW p \in Places, Sits(jobs, pool, strand, c, g, p)
      PROVE  /\ c # a => Sits(js, pool, strand, c, g, p)
             /\ c = a => g = h /\ p # "none" /\ Sits(js, pool, strand, c, g, "none")
  <2>1. CASE TakesMain(h, j, js)
    <3>1. jobs[h].main # <<>> /\ Head(jobs[h].main).cb = a /\ js = [jobs EXCEPT ![h].main = Tail(jobs[h].main)]
      BY <2>1 DEF TakesMain
    <3>2. /\ Head(jobs[h].main).cb # c => Sits([jobs EXCEPT ![h].main = Tail(jobs[h].main)], pool, strand, c, g, p)
          /\ Head(jobs[h].main).cb = c =>
                /\ h = g /\ p = "main"
                /\ Sits([jobs EXCEPT ![h].main = Tail(jobs[h].main)], pool, strand, c, g, "none")
      BY <1>1, <3>1, CallbackTypes, SitsTaken
    <3> QED BY <3>1, <3>2
  <2>2. CASE TakesOther(h, j, js)
    <3>1. j \in BagToSet(jobs[h].other) /\ j.cb = a /\ js = [jobs EXCEPT ![h].other = BagRemove(jobs[h].other, j)]
      BY <2>2 DEF TakesOther
    <3>2. /\ j.cb # c => Sits([jobs EXCEPT ![h].other = BagRemove(jobs[h].other, j)], pool, strand, c, g, p)
          /\ j.cb = c =>
                /\ h = g /\ p = "other"
                /\ Sits([jobs EXCEPT ![h].other = BagRemove(jobs[h].other, j)], pool, strand, c, g, "none")
      BY <1>1, <3>1, CallbackTypes, SitsRemoved
    <3> QED BY <3>1, <3>2
  <2> QED BY <2>1, <2>2
<1>2. TracksBut(handle, net, js, pool, strand, shots, a, h)
  <2>1. Takes(jobs, pool, strand, js, pool, strand, a, h)
    BY <1>1 DEF Takes
  <2> QED BY <1>0, <2>1, CallbackTypes, TracksFrom
<1>3. handle[h].st # "none" /\ handle[h].st # "gone"
  BY DEF Dispatching
<1>4. CASE UNCHANGED <<pool, strand>> /\ Returned(h, Called(a), js)
  <2>1. Tracks(handle, net, js, pool, strand, Called(a))
    BY <1>0, <1>2, CallbackTypes, TracksCalled
  <2>2. Called(a) \in Seq(ShotSet)
    BY CallbackTypes, CalledShots
  <2>3. Tracks(handle, net, jobs', pool, strand, shots')
    BY <1>0, <1>3, <1>4, <2>1, <2>2, TracksReturned
  <2> QED BY <1>4, <2>3
<1>5. ASSUME jobs' = js, shots' = shots, NEW q \in {"pool", "strand"}, Puts(js, pool, strand, pool', strand', a, h, q)
      PROVE  Tracks(handle, net, jobs', pool', strand', shots')
  <2> PICK C : C = pool'
    OBVIOUS
  <2> PICK T : T = strand'
    OBVIOUS
  <2>1. Puts(js, pool, strand, C, T, a, h, q)
    BY <1>5
  <2>2. shots \in Seq(ShotSet)
    BY CallbackTypes
  <2>3. Tracks(handle, net, js, C, T, shots)
    BY <1>0, <1>2, <1>3, <2>1, <2>2, TracksPut
  <2> QED BY <1>5, <2>3
<1>6. ASSUME jobs' = js, shots' = shots, Posted(h, a) PROVE Tracks(handle, net, jobs', pool', strand', shots')
  <2>1. PICK x : x.h = h /\ x.cb = a /\ pool' = BagAdd(pool, x) /\ strand' = strand
    BY <1>6 DEF Posted
  <2>2. ASSUME NEW c \in Nat \ {0}, NEW g \in Nets, NEW p \in Places, Sits(js, pool, strand, c, g, p)
        PROVE  /\ c # a => Sits(js, pool', strand', c, g, p)
               /\ c = a /\ g = h /\ p = "none" => Sits(js, pool', strand', c, g, "pool")
    BY <2>1, <2>2, SitsPosted
  <2> QED BY <1>5, <1>6, <2>2 DEF Puts
<1>7. ASSUME jobs' = js, shots' = shots, Queued(h, a) PROVE Tracks(handle, net, jobs', pool', strand', shots')
  <2>1. PICK x \in StrandSet : x.cb = a /\ strand' = [strand EXCEPT ![h] = Append(@, x)] /\ pool' = pool
    BY <1>7 DEF Queued
  <2>2. ASSUME NEW c \in Nat \ {0}, NEW g \in Nets, NEW p \in Places, Sits(js, pool, strand, c, g, p)
        PROVE  /\ c # a => Sits(js, pool', strand', c, g, p)
               /\ c = a /\ g = h /\ p = "none" => Sits(js, pool', strand', c, g, "strand")
    BY <2>1, <2>2, CallbackTypes, SitsQueued
  <2> QED BY <1>5, <1>7, <2>2 DEF Puts
<1>8. ASSUME jobs' = js, shots' = shots, a = 0, UNCHANGED <<pool, strand>>
      PROVE  Tracks(handle, net, jobs', pool', strand', shots')
  BY <1>5, <1>8 DEF Puts
<1> QED BY <1>4, <1>6, <1>7, <1>8 DEF RanJob, Forwarded

LEMMA TracksReply ==
  ASSUME RemoteInv, CallbackInv, NEW h \in Nets, NEW a \in Nat, handle[h].st # "none",
         NEW C, NEW T, pool' = C, strand' = T, Returned(h, Called(a), jobs),
         Takes(jobs, pool, strand, jobs, C, T, a, h)
  PROVE  Tracks(handle, net, jobs', pool', strand', shots')
<1>1. TracksBut(handle, net, jobs, C, T, shots, a, h)
  BY CallbackTypes, TracksFrom
<1>2. Tracks(handle, net, jobs, C, T, Called(a)) /\ Called(a) \in Seq(ShotSet)
  BY <1>1, CallbackTypes, TracksCalled, CalledShots
<1>3. Tracks(handle, net, jobs', C, T, shots')
  BY <1>2, CallbackTypes, TracksReturned
<1> QED BY <1>3

LEMMA TracksReplies ==
  ASSUME RemoteInv, CallbackInv, NEW t \in BagToSet(pool), Replies(t)
  PROVE  Tracks(handle, net, jobs', pool', strand', shots')
<1> PICK a : a = t.cb
  OBVIOUS
<1> PICK C : C = BagRemove(pool, t)
  OBVIOUS
<1>0. t.h \in Nets /\ a \in Nat /\ handle[t.h].st # "none"
  BY CallbackTypes DEF Housed, PoolTask, TaskSet
<1>1. pool' = C /\ strand' = strand /\ Returned(t.h, Called(a), jobs)
  BY DEF Replies
<1>2. ASSUME NEW c \in Nat \ {0}, NEW g \in Nets, NEW p \in Places, Sits(jobs, pool, strand, c, g, p)
      PROVE  /\ c # a => Sits(jobs, C, strand, c, g, p)
             /\ c = a => g = t.h /\ p # "none" /\ Sits(jobs, C, strand, c, g, "none")
  <2>1. /\ t.cb # c => Sits(jobs, BagRemove(pool, t), strand, c, g, p)
        /\ t.cb = c => t.h = g /\ p = "pool" /\ Sits(jobs, BagRemove(pool, t), strand, c, g, "none")
    BY <1>2, SitsFinished
  <2> QED BY <2>1
<1> PICK T : T = strand
  OBVIOUS
<1> PICK h : h = t.h
  OBVIOUS
<1>3. Takes(jobs, pool, strand, jobs, C, T, a, h)
  BY <1>2 DEF Takes
<1> QED BY <1>0, <1>1, <1>3, TracksReply

LEMMA TracksStrandReplies ==
  ASSUME RemoteInv, CallbackInv, NEW h \in Nets, StrandReplies(h)
  PROVE  Tracks(handle, net, jobs', pool', strand', shots')
<1> PICK a : a = Head(strand[h]).cb
  OBVIOUS
<1> PICK T : T = [strand EXCEPT ![h] = Tail(strand[h])]
  OBVIOUS
<1>0. strand[h] # <<>> /\ pool' = pool /\ strand' = T /\ Returned(h, Called(a), jobs)
  BY DEF StrandReplies
<1>1. a \in Nat /\ handle[h].st # "none"
  <2>1. strand[h] \in Seq(StrandSet)
    BY CallbackTypes
  <2>2. Head(strand[h]) \in StrandSet
    BY <1>0, <2>1
  <2>3. QueueOf(h)
    BY DEF CallbackInv
  <2> QED BY <1>0, <2>2, <2>3 DEF StrandSet, TaskSet, QueueOf
<1>2. ASSUME NEW c \in Nat \ {0}, NEW g \in Nets, NEW p \in Places, Sits(jobs, pool, strand, c, g, p)
      PROVE  /\ c # a => Sits(jobs, pool, T, c, g, p)
             /\ c = a => g = h /\ p # "none" /\ Sits(jobs, pool, T, c, g, "none")
  <2>1. /\ Head(strand[h]).cb # c => Sits(jobs, pool, [strand EXCEPT ![h] = Tail(strand[h])], c, g, p)
        /\ Head(strand[h]).cb = c =>
              /\ h = g /\ p = "strand"
              /\ Sits(jobs, pool, [strand EXCEPT ![h] = Tail(strand[h])], c, g, "none")
    BY <1>0, <1>2, CallbackTypes, SitsShifted
  <2> QED BY <2>1
<1> PICK C : C = pool
  OBVIOUS
<1>3. Takes(jobs, pool, strand, jobs, C, T, a, h)
  BY <1>2 DEF Takes
<1> QED BY <1>0, <1>1, <1>3, TracksReply

\* Nothing changes where a callback is.
LEMMA TracksMoved ==
  ASSUME NEW H, NEW N, NEW J, NEW B, NEW S, NEW sh \in Seq(ShotSet), Tracks(H, N, J, B, S, sh),
         NEW K, NEW C, NEW T,
         \A c \in Nat \ {0} : \A g \in Nets : \A p \in Places : Sits(J, B, S, c, g, p) => Sits(K, C, T, c, g, p)
  PROVE  Tracks(H, N, K, C, T, sh)
<1>2. ASSUME NEW c \in Nat \ {0} PROVE TracksOne(H, N, K, C, T, sh, c)
  <2>0. "none" \in Places
    BY DEF Places
  <2>1. TracksOne(H, N, J, B, S, sh, c)
    BY DEF Tracks
  <2>2. CASE c \notin DOMAIN sh
    BY <2>0, <2>1, <2>2 DEF TracksOne
  <2>3. CASE c \in DOMAIN sh
    <3>1. sh[c].h \in Nets
      BY <2>3, ShotHandle
    <3>2. PICK p \in Places : Sits(J, B, S, c, sh[c].h, p) /\ Fits(H, N, sh[c], p)
      BY <2>1, <2>3 DEF TracksOne
    <3> QED BY <2>3, <3>1, <3>2 DEF TracksOne
  <2> QED BY <2>2, <2>3
<1> QED BY <1>2 DEF Tracks

LEMMA TracksSettles ==
  ASSUME RemoteInv, CallbackInv, UNCHANGED <<jobs, shots>>, Settles
  PROVE  Tracks(handle, net, jobs', pool', strand', shots')
<1> PICK C : C = pool'
  OBVIOUS
<1> PICK T : T = strand'
  OBVIOUS
<1>1. \A c \in Nat \ {0} : \A g \in Nets : \A p \in Places :
         Sits(jobs, pool, strand, c, g, p) => Sits(jobs, C, T, c, g, p)
  BY DEF Settles
<1>2. Tracks(handle, net, jobs, C, T, shots)
  BY <1>1, CallbackTypes, TracksMoved
<1> QED BY <1>2

LEMMA TracksMainCalls ==
  ASSUME RemoteInv, CallbackInv, NEW h \in Nets, NEW kind \in Commands \cup Asks, NEW lang, MainCalls(h, kind, lang)
  PROVE  Tracks(handle, net, jobs', pool', strand', shots')
<1> PICK x : x = NewShot(h, "main")
  OBVIOUS
<1>0. x \in ShotSet /\ x.h = h /\ x.called = 0
  BY DEF NewShot, ShotSet
<1>1. handle[h].st = "open" /\ UNCHANGED <<pool, strand>>
  BY DEF MainCalls, remoteVars
<1>2. PICK j \in CallSet :
            /\ (j.cb = 0 /\ shots' = shots) \/ (j.cb = Len(shots) + 1 /\ shots' = Append(shots, x))
            /\ jobs' = [jobs EXCEPT ![h].main = Append(@, j)]
  BY CallbackTypes, CallMade
<1> PICK a : a = j.cb
  OBVIOUS
<1> PICK K : K = [jobs EXCEPT ![h].main = Append(@, j)]
  OBVIOUS
<1> PICK th : th = shots'
  OBVIOUS
<1>3. a \in Nat /\ j \in JobSet
  BY DEF CallSet, JobSet
<1>4. ASSUME NEW c \in Nat \ {0}, NEW g \in Nets, NEW p \in Places, Sits(jobs, pool, strand, c, g, p)
      PROVE  /\ c # a => Sits(K, pool, strand, c, g, p)
             /\ c = a /\ g = h /\ p = "none" => Sits(K, pool, strand, c, g, "main")
  <2>1. /\ j.cb # c => Sits([jobs EXCEPT ![h].main = Append(@, j)], pool, strand, c, g, p)
        /\ j.cb = c /\ h = g /\ p = "none" =>
              Sits([jobs EXCEPT ![h].main = Append(@, j)], pool, strand, c, g, "main")
    BY <1>3, <1>4, CallbackTypes, SitsAppended
  <2> QED BY <2>1
<1>5. ASSUME a # 0
      PROVE  \E p \in Places : /\ Fits(handle, net, x, p)
                               /\ Sits(jobs, pool, strand, a, x.h, "none") => Sits(K, pool, strand, a, x.h, p)
  <2>1. Fits(handle, net, x, "main") /\ "main" \in Places
    BY <1>0, <1>1 DEF Fits, Places
  <2>2. Sits(jobs, pool, strand, a, x.h, "none") => Sits(K, pool, strand, a, x.h, "main")
    BY <1>0, <1>3, <1>4, <1>5, CallbackTypes
  <2> QED BY <2>1, <2>2
<1>6. (a = 0 /\ th = shots) \/ (a = Len(shots) + 1 /\ th = Append(shots, x))
  BY <1>2
<1>7. \A c \in Nat \ {0} : \A g \in Nets : \A p \in Places :
         Sits(jobs, pool, strand, c, g, p) /\ c # a => Sits(K, pool, strand, c, g, p)
  BY <1>4
<1>8. Tracks(handle, net, K, pool, strand, th)
  BY <1>0, <1>3, <1>5, <1>6, <1>7, CallbackTypes, TracksNew
<1> QED BY <1>1, <1>2, <1>8

LEMMA TracksTells ==
  ASSUME RemoteInv, CallbackInv, NEW h \in Nets, Tells(h)
  PROVE  Tracks(handle, net, jobs', pool', strand', shots')
<1>1. handle[h].st # "none" /\ UNCHANGED <<pool, strand>> /\ Returned(h, shots, jobs)
  BY CallbackTypes DEF Tells, Housed
<1>2. Tracks(handle, net, jobs', pool, strand, shots')
  BY <1>1, CallbackTypes, TracksReturned
<1> QED BY <1>1, <1>2

LEMMA TracksCloses ==
  ASSUME RemoteInv, CallbackInv, NEW h \in Nets, Closes(h)
  PROVE  Tracks(handle, net, jobs', pool', strand', shots')
<1> PICK K : K = [jobs EXCEPT ![h].main = Append(@, Poison)]
  OBVIOUS
<1>1. jobs' = K /\ UNCHANGED <<pool, strand, shots>>
  BY DEF Closes
<1>2. ASSUME NEW c \in Nat \ {0}, NEW g \in Nets, NEW p \in Places, Sits(jobs, pool, strand, c, g, p)
      PROVE  Sits(K, pool, strand, c, g, p)
  <2>1. Poison \in JobSet /\ Poison.cb # c
    BY DEF JobSet, Poison
  <2> QED BY <1>2, <2>1, CallbackTypes, SitsAppended
<1>3. Tracks(handle, net, K, pool, strand, shots)
  BY <1>2, CallbackTypes, TracksMoved
<1> QED BY <1>1, <1>3

LEMMA TracksEndsThread ==
  ASSUME RemoteInv, CallbackInv, NEW h \in Nets, EndsThread(h)
  PROVE  Tracks(handle, net, jobs', pool', strand', shots')
<1>1. PICK j, K : TakesMain(h, j, K) /\ j.kind = "poison" /\ jobs' = K /\ UNCHANGED <<pool, strand, shots>>
  BY DEF EndsThread
<1>2. j \in JobSet
  BY <1>1, CallbackTypes, JobTaken
<1>3. j.cb = 0
  BY <1>1, <1>2 DEF JobSet, CallSet, Poison, Commands, GameCalls, Asks
<1>4. ASSUME NEW c \in Nat \ {0}, NEW g \in Nets, NEW p \in Places, Sits(jobs, pool, strand, c, g, p)
      PROVE  Sits(K, pool, strand, c, g, p)
  <2>1. jobs[h].main # <<>> /\ Head(jobs[h].main).cb # c /\ K = [jobs EXCEPT ![h].main = Tail(jobs[h].main)]
    BY <1>1, <1>3 DEF TakesMain
  <2> QED BY <1>4, <2>1, CallbackTypes, SitsTaken
<1>5. Tracks(handle, net, K, pool, strand, shots)
  BY <1>4, CallbackTypes, TracksMoved
<1> QED BY <1>1, <1>5

\* The queues of handle h are gone; the tasks of handle h are gone.
Resets(J, K, h) ==
    /\ \A g \in Nets : K[g].main = J[g].main
    /\ \A g \in Nets : g # h => K[g].other = J[g].other
    /\ BagToSet(K[h].other) = {}

Empties(B, S, C, T, h) ==
    /\ T[h] = <<>> /\ \A g \in Nets : g # h => T[g] = S[g]
    /\ \A t : t \in BagToSet(C) <=> t \in BagToSet(B) /\ t.h # h
    /\ \A t \in BagToSet(C) : C[t] = B[t]

LEMMA SitsReset ==
  ASSUME NEW J, NEW B, NEW S, NEW c, NEW k \in Nets, NEW p, Sits(J, B, S, c, k, p),
         NEW h \in Nets, NEW K, Resets(J, K, h)
  PROVE  Sits(K, B, S, c, k, p) \/ (k = h /\ p = "other" /\ Sits(K, B, S, c, k, "none"))
<1>2. ASSUME NEW q PROVE InMain(K, c, k, q) <=> InMain(J, c, k, q)
  BY DEF InMain, Resets
<1>3. ~BagHas(K[h].other, c) /\ BagOnce(K[h].other, c)
  BY DEF BagHas, BagOnce, Resets
<1>4. CASE k = h /\ p = "other"
  <2>1. InOther(K, c, k, "none")
    BY <1>3, <1>4 DEF InOther, Sits, Resets
  <2>2. InMain(J, c, k, "none") /\ InPool(B, c, k, "none") /\ InStrand(S, c, k, "none")
    BY <1>4 DEF Sits, InMain, InPool, InStrand
  <2> QED BY <1>2, <1>4, <2>1, <2>2 DEF Sits
<1>5. CASE ~(k = h /\ p = "other")
  <2>1. InOther(K, c, k, p)
    BY <1>3, <1>5 DEF InOther, Sits, Resets
  <2> QED BY <1>2, <2>1 DEF Sits
<1> QED BY <1>4, <1>5

LEMMA SitsEmptied ==
  ASSUME NEW J, NEW B, NEW S, NEW c, NEW k \in Nets, NEW p, Sits(J, B, S, c, k, p),
         NEW h \in Nets, NEW C, NEW T, Empties(B, S, C, T, h)
  PROVE  /\ ~(k = h /\ p \in {"pool", "strand"}) => Sits(J, C, T, c, k, p)
         /\ k = h /\ p \in {"pool", "strand"} => Sits(J, C, T, c, k, "none")
<1>2. ~SeqHas(T[h], c) /\ SeqOnce(T[h], c)
  BY DEF SeqHas, SeqOnce, Empties
<1>3. BagOnce(C, c) /\ \A t \in BagToSet(C) : t.cb = c => t.h = k
  BY DEF BagOnce, Sits, InPool, Empties
<1>4. ASSUME ~(k = h /\ p \in {"pool", "strand"}) PROVE Sits(J, C, T, c, k, p)
  <2>1. InPool(C, c, k, p)
    BY <1>3, <1>4 DEF InPool, Sits, BagHas, Empties
  <2>2. InStrand(T, c, k, p)
    BY <1>2, <1>4 DEF InStrand, Sits, Empties
  <2> QED BY <2>1, <2>2 DEF Sits
<1>5. ASSUME k = h, p \in {"pool", "strand"} PROVE Sits(J, C, T, c, k, "none")
  <2>1. InPool(C, c, k, "none")
    BY <1>3, <1>5 DEF InPool, Sits, BagHas, Empties
  <2>2. InStrand(T, c, k, "none")
    BY <1>2, <1>5 DEF InStrand, Sits, Empties
  <2>3. InMain(J, c, k, "none") /\ InOther(J, c, k, "none")
    BY <1>5 DEF InMain, InOther, Sits
  <2> QED BY <2>1, <2>2, <2>3 DEF Sits
<1> QED BY <1>4, <1>5

LEMMA TracksJoined ==
  ASSUME RemoteInv, CallbackInv, NEW h \in Nets, DispatcherJoined(h)
  PROVE  Tracks(handle, net, jobs', pool', strand', shots')
<1> PICK K : K = [jobs EXCEPT ![h] = [main |-> <<>>, other |-> EmptyBag]]
  OBVIOUS
<1>0. jobs' = K /\ handle[h].st = "joined" /\ UNCHANGED <<pool, strand, shots>>
  BY DEF DispatcherJoined
<1>1. jobs[h].main = <<>>
  BY <1>0 DEF CallbackInv, QueueOf
<1>2. ASSUME NEW c \in Nat \ {0}, NEW k \in Nets, NEW p \in Places, Sits(jobs, pool, strand, c, k, p)
      PROVE  Sits(K, pool, strand, c, k, p) \/ (k = h /\ p = "other" /\ Sits(K, pool, strand, c, k, "none"))
  <2>1. jobs \in [Nets -> JobQueues]
    BY CallbackTypes
  <2>2. Resets(jobs, K, h)
    BY <1>1, <2>1 DEF Resets, EmptyBag, SetToBag, BagToSet
  <2> QED BY <1>2, <2>2, SitsReset
<1>3. ASSUME NEW c \in Nat \ {0} PROVE TracksOne(handle, net, K, pool, strand, shots, c)
  <2>1. TracksOne(handle, net, jobs, pool, strand, shots, c)
    BY CallbackTypes DEF Tracks
  <2>2. CASE c \notin DOMAIN shots
    <3>1. ASSUME NEW k \in Nets PROVE Sits(K, pool, strand, c, k, "none")
      BY <1>2, <2>1, <2>2, CallbackTypes DEF TracksOne
    <3> QED BY <2>2, <3>1 DEF TracksOne
  <2>3. CASE c \in DOMAIN shots
    <3>0. shots[c].h \in Nets
      BY <2>3, CallbackTypes, ShotHandle
    <3>1. PICK p \in Places : Sits(jobs, pool, strand, c, shots[c].h, p) /\ Fits(handle, net, shots[c], p)
      BY <2>1, <2>3 DEF TracksOne
    <3>2. CASE Sits(K, pool, strand, c, shots[c].h, p)
      BY <2>3, <3>1, <3>2 DEF TracksOne
    <3>3. CASE shots[c].h = h /\ p = "other" /\ Sits(K, pool, strand, c, shots[c].h, "none")
      <4>1. Fits(handle, net, shots[c], "none")
        BY <3>1, <3>3 DEF Fits
      <4> QED BY <2>3, <3>3, <4>1, CallbackTypes DEF TracksOne
    <3> QED BY <1>2, <3>0, <3>1, <3>2, <3>3
  <2> QED BY <2>2, <2>3
<1>4. Tracks(handle, net, K, pool, strand, shots)
  BY <1>3 DEF Tracks
<1> QED BY <1>0, <1>4

\* The worker has drained: a callback that was still with the pool or the strand is lost only
\* when the worker never ran.
LEMMA TracksDestroyed ==
  ASSUME RemoteInv, CallbackInv, NEW h \in Nets, HandleDestroyed(h)
  PROVE  Tracks(handle', net', jobs', pool', strand', shots')
<1> PICK C : C = pool'
  OBVIOUS
<1> PICK T : T = strand'
  OBVIOUS
<1> PICK G : G = handle'
  OBVIOUS
<1>0. /\ handle[h].st = "stopping" /\ UNCHANGED <<net, jobs, shots>>
      /\ T = [strand EXCEPT ![h] = <<>>]
      /\ net[h].running => strand[h] = <<>> /\ \A t \in BagToSet(pool) : t.h # h
  BY DEF HandleDestroyed, Drained
<1>1. BagToSet(C) = {t \in BagToSet(pool) : t.h # h} /\ \A t \in BagToSet(C) : C[t] = pool[t]
  BY DEF HandleDestroyed, BagToSet
<1>2. G[h].st = "gone" /\ \A g \in Nets : g # h => G[g] = handle[g]
  BY CallbackTypes DEF HandleDestroyed, HandleSet
<1>3. jobs[h].main = <<>>
  BY <1>0 DEF CallbackInv, QueueOf
<1>4. ASSUME NEW c \in Nat \ {0}, NEW k \in Nets, NEW p \in Places, Sits(jobs, pool, strand, c, k, p)
      PROVE  /\ ~(k = h /\ p \in {"pool", "strand"}) => Sits(jobs, C, T, c, k, p)
             /\ k = h /\ p \in {"pool", "strand"} => Sits(jobs, C, T, c, k, "none")
  <2>1. strand \in [Nets -> Seq(StrandSet)]
    BY CallbackTypes
  <2>2. Empties(pool, strand, C, T, h)
    BY <1>0, <1>1, <2>1 DEF Empties
  <2> QED BY <1>4, <2>2, SitsEmptied
<1>5. ASSUME NEW c \in Nat \ {0} PROVE TracksOne(G, net, jobs, C, T, shots, c)
  <2>1. TracksOne(handle, net, jobs, pool, strand, shots, c)
    BY CallbackTypes DEF Tracks
  <2>2. CASE c \notin DOMAIN shots
    <3>1. ASSUME NEW k \in Nets PROVE Sits(jobs, C, T, c, k, "none")
      BY <1>4, <2>1, <2>2, CallbackTypes DEF TracksOne
    <3> QED BY <2>2, <3>1 DEF TracksOne
  <2>3. CASE c \in DOMAIN shots
    <3> PICK s : s = shots[c]
      OBVIOUS
    <3>0. s.h \in Nets
      BY <2>3, CallbackTypes, ShotHandle
    <3>1. PICK p \in Places : Sits(jobs, pool, strand, c, s.h, p) /\ Fits(handle, net, s, p)
      BY <2>1, <2>3 DEF TracksOne
    <3>2. CASE s.h # h
      <4>1. Sits(jobs, C, T, c, s.h, p)
        BY <1>4, <3>0, <3>1, <3>2
      <4>2. Fits(G, net, s, p)
        BY <1>2, <3>0, <3>1, <3>2 DEF Fits
      <4> QED BY <2>3, <4>1, <4>2 DEF TracksOne
    <3>3. CASE s.h = h /\ p \in {"pool", "strand"}
      <4>1. Sits(jobs, C, T, c, s.h, "none")
        BY <1>4, <3>1, <3>3
      <4>2. ~net[h].running
        <5>1. CASE p = "pool"
          <6>1. BagHas(pool, c) /\ \A t \in BagToSet(pool) : t.cb = c => t.h = h
            BY <3>1, <3>3, <5>1 DEF Sits, InPool
          <6> QED BY <1>0, <6>1 DEF BagHas
        <5>2. CASE p = "strand"
          <6>1. SeqHas(strand[h], c)
            BY <3>1, <3>3, <5>2 DEF Sits, InStrand
          <6>2. strand[h] # <<>>
            BY <6>1 DEF SeqHas
          <6> QED BY <1>0, <6>2
        <5> QED BY <3>3, <5>1, <5>2
      <4>3. Fits(G, net, s, "none")
        BY <1>2, <3>1, <3>3, <4>2 DEF Fits
      <4> QED BY <2>3, <4>1, <4>3, CallbackTypes DEF TracksOne
    <3>4. CASE s.h = h /\ p \notin {"pool", "strand"}
      <4>1. Sits(jobs, C, T, c, s.h, p)
        BY <1>4, <3>0, <3>1, <3>4
      <4>2. p # "main"
        <5>1. ASSUME p = "main" PROVE FALSE
          <6>1. SeqHas(jobs[h].main, c)
            BY <3>1, <3>4, <5>1 DEF Sits, InMain
          <6> QED BY <1>3, <6>1 DEF SeqHas
        <5> QED BY <5>1
      <4>3. p \in {"other", "none"}
        BY <3>4, <4>2 DEF Places
      <4>4. Fits(G, net, s, p)
        BY <1>0, <1>2, <3>1, <3>4, <4>3 DEF Fits
      <4> QED BY <2>3, <4>1, <4>4 DEF TracksOne
    <3> QED BY <3>2, <3>3, <3>4
  <2> QED BY <2>2, <2>3
<1>6. Tracks(G, net, jobs, C, T, shots)
  BY <1>5 DEF Tracks
<1> QED BY <1>0, <1>6

LEMMA TracksNext ==
  ASSUME RemoteInv, CallbackInv, Next
  PROVE  Tracks(handle', net', jobs', pool', strand', shots')
<1> DEFINE Goal == Tracks(handle', net', jobs', pool', strand', shots')
<1> DEFINE Moved == Tracks(handle, net, jobs', pool', strand', shots')
<1> SUFFICES Goal
  OBVIOUS
<1>1. CallStep
  BY CallsChange
<1>2. \A g \in Nets : handle[g].st # "none" => handle'[g].st # "none" /\ net'[g].running = net[g].running
  BY CallbackTypes, HandlesStay, NetTypes DEF RemoteInv
<1>3. ASSUME Moved, \A g \in Nets : handle[g].st # "none" => (handle'[g].st = "gone" <=> handle[g].st = "gone")
      PROVE  Goal
  <2> PICK G : G = handle'
    OBVIOUS
  <2> PICK M : M = net'
    OBVIOUS
  <2> PICK J : J = jobs'
    OBVIOUS
  <2> PICK B : B = pool'
    OBVIOUS
  <2> PICK S : S = strand'
    OBVIOUS
  <2> PICK sh : sh = shots'
    OBVIOUS
  <2>1. sh \in Seq(ShotSet)
    BY CallbackTypes, JobsTyped DEF JobTypes
  <2>2. \A g \in Nets : handle[g].st # "none" => /\ G[g].st # "none" /\ M[g].running = net[g].running
                                                 /\ G[g].st = "gone" <=> handle[g].st = "gone"
    BY <1>2, <1>3
  <2>3. Tracks(handle, net, J, B, S, sh)
    BY <1>3
  <2>4. Tracks(G, M, J, B, S, sh)
    BY <2>1, <2>2, <2>3, TracksStays
  <2> QED BY <2>4
<1>4. ASSUME Same, Moved PROVE Goal
  BY <1>3, <1>4 DEF Same
<1> HIDE DEF Goal
<1>5. ASSUME Same, UNCHANGED <<jobs, shots>>, Settles PROVE Goal
  BY <1>4, <1>5, TracksSettles
<1>6. ASSUME NEW s \in Slots, NEW h \in Nets, CreateGameState(s, h) PROVE Goal
  <2>1. UNCHANGED <<jobs, pool, strand, shots>>
    BY <1>6 DEF CreateGameState
  <2>2. Moved
    BY <2>1, CallbackTypes
  <2>3. \A g \in Nets : handle[g].st # "none" => handle'[g] = handle[g]
    BY <1>6, CallbackTypes, MadeNet
  <2> QED BY <1>3, <2>2, <2>3
<1>7. ASSUME NEW h \in Nets, Closes(h) PROVE Goal
  BY <1>3, <1>7, TracksCloses DEF Closes
<1>8. ASSUME NEW h \in Nets, DispatcherJoined(h) PROVE Goal
  <2>1. \A g \in Nets : handle'[g].st = "gone" <=> handle[g].st = "gone"
    BY <1>8, CallbackTypes DEF DispatcherJoined, HandleSet
  <2> QED BY <1>3, <1>8, <2>1, TracksJoined
<1>9. ASSUME NEW h \in Nets, HandleDestroyed(h) PROVE Goal
  BY <1>9, TracksDestroyed DEF Goal
<1>10. ASSUME NEW h \in Nets, EndsThread(h) PROVE Goal
  <2>1. \A g \in Nets : handle'[g].st = "gone" <=> handle[g].st = "gone"
    BY <1>10, CallbackTypes DEF EndsThread, Dispatching, HandleSet
  <2> QED BY <1>3, <1>10, <2>1, TracksEndsThread
<1>11. ASSUME NEW h \in Nets, RunsMain(h) \/ RunsOther(h) PROVE Goal
  <2>1. Same /\ Dispatching(h)
    BY <1>11 DEF RunsMain, RunsOther
  <2>2. PICK j, js : (TakesMain(h, j, js) \/ TakesOther(h, j, js)) /\ RanJob(h, j.cb, js)
    BY <1>11 DEF RunsMain, RunsOther
  <2> QED BY <1>4, <2>1, <2>2, TracksRanJob
<1>12. ASSUME NEW h \in Nets, StrandReplies(h) PROVE Goal
  BY <1>4, <1>12, TracksStrandReplies DEF StrandReplies
<1>13. ASSUME NEW h \in Nets, Tells(h) PROVE Goal
  BY <1>4, <1>13, TracksTells DEF Tells
<1>14. ASSUME NEW h \in Nets, NEW kind \in Commands \cup Asks, NEW lang, MainCalls(h, kind, lang) PROVE Goal
  <2>1. Same
    BY <1>14 DEF MainCalls, Same
  <2> QED BY <1>4, <1>14, <2>1, TracksMainCalls
<1>15. ASSUME NEW t \in BagToSet(pool), Replies(t) PROVE Goal
  BY <1>4, <1>15, TracksReplies DEF Replies
<1> HIDE DEF Moved
<1> QED BY <1>1, <1>5, <1>6, <1>7, <1>8, <1>9, <1>10, <1>11, <1>12, <1>13, <1>14, <1>15 DEF CallStep

\* The queues of the main thread.
LEMMA QueueStays ==
  ASSUME CallbackInv, NEW h \in Nets, handle'[h].st = handle[h].st, main'.h = main.h,
         jobs'[h].main = jobs[h].main, strand'[h] # <<>> => strand[h] # <<>> \/ handle[h].st # "none"
  PROVE  QueueOf(h)'
  BY DEF CallbackInv, QueueOf

LEMMA ReturnedMain ==
  ASSUME NEW h \in Nets, NEW sh, NEW js \in [Nets -> JobQueues], Returned(h, sh, js)
  PROVE  \A g \in Nets : jobs'[g].main = js[g].main
<1>1. jobs' = js \/ \E j : jobs' = [js EXCEPT ![h].other = BagAdd(@, j)]
  BY DEF Returned, AppAsks
<1>2. ASSUME NEW j, jobs' = [js EXCEPT ![h].other = BagAdd(@, j)] PROVE \A g \in Nets : jobs'[g].main = js[g].main
  BY <1>2 DEF JobQueues
<1> QED BY <1>1, <1>2

LEMMA RanJobQueues ==
  ASSUME RemoteInv, CallbackInv, NEW h \in Nets, NEW c, NEW js \in [Nets -> JobQueues], RanJob(h, c, js),
         Dispatching(h)
  PROVE  \A g \in Nets : /\ jobs'[g].main = js[g].main
                         /\ strand'[g] # <<>> => strand[g] # <<>> \/ handle[g].st # "none"
<1>1. CASE UNCHANGED <<pool, strand>> /\ Returned(h, Called(c), js)
  BY <1>1, ReturnedMain
<1>2. CASE Forwarded(h, c) /\ jobs' = js
  <2>1. strand' = strand \/ \E x \in StrandSet : strand' = [strand EXCEPT ![h] = Append(@, x)]
    BY <1>2 DEF Forwarded, Posted, Queued
  <2>2. handle[h].st # "none"
    BY DEF Dispatching
  <2>3. \A g \in Nets : g # h => strand'[g] = strand[g]
    BY <2>1, CallbackTypes
  <2> QED BY <1>2, <2>2, <2>3
<1> QED BY <1>1, <1>2 DEF RanJob

LEMMA QueueTaken ==
  ASSUME RemoteInv, CallbackInv, NEW h \in Nets, NEW j, NEW js, TakesMain(h, j, js), Dispatching(h)
  PROVE  LET q == js[h].main
         IN  /\ handle[h].st = "open" => j.kind # "poison" /\ \A i \in DOMAIN q : q[i].kind # "poison"
             /\ handle[h].st = "closing" => \A i \in DOMAIN q : q[i].kind = "poison" => i = Len(q)
             /\ handle[h].st = "closing" /\ j.kind = "poison" => q = <<>>
             /\ \A g \in Nets : g # h => js[g].main = jobs[g].main
<1> PICK s : s = jobs[h].main
  OBVIOUS
<1> PICK q : q = js[h].main
  OBVIOUS
<1>1. s \in Seq(JobSet) /\ s # <<>> /\ j = Head(s)
  BY CallbackTypes DEF TakesMain, JobQueues
<1>2. q = Tail(s) /\ \A g \in Nets : g # h => js[g].main = jobs[g].main
  BY CallbackTypes DEF TakesMain, JobQueues
<1>3. /\ 1 \in DOMAIN s /\ j = s[1] /\ Len(q) = Len(s) - 1 /\ Len(s) \in Nat
      /\ \A i \in DOMAIN q : i \in Nat /\ i + 1 \in DOMAIN s /\ q[i] = s[i + 1]
  BY <1>1, <1>2
<1>4. /\ handle[h].st = "open" => \A i \in DOMAIN s : s[i].kind # "poison"
      /\ handle[h].st = "closing" => \A i \in DOMAIN s : s[i].kind = "poison" => i = Len(s)
  BY DEF CallbackInv, QueueOf
<1>5. handle[h].st = "open" => j.kind # "poison" /\ \A i \in DOMAIN q : q[i].kind # "poison"
  BY <1>3, <1>4
<1>6. handle[h].st = "closing" => \A i \in DOMAIN q : q[i].kind = "poison" => i = Len(q)
  <2>1. ASSUME handle[h].st = "closing", NEW i \in DOMAIN q, q[i].kind = "poison" PROVE i = Len(q)
    <3>1. i \in Nat /\ i + 1 \in DOMAIN s /\ s[i + 1].kind = "poison"
      BY <1>3, <2>1
    <3>2. i + 1 = Len(s)
      BY <1>4, <2>1, <3>1
    <3> QED BY <1>3, <3>1, <3>2
  <2> QED BY <2>1
<1>7. handle[h].st = "closing" /\ j.kind = "poison" => q = <<>>
  <2>1. q \in Seq(JobSet)
    BY <1>1, <1>2
  <2>2. Len(q) = 0 => q = <<>>
    BY <2>1
  <2> QED BY <1>3, <1>4, <2>2
<1> QED BY <1>2, <1>5, <1>6, <1>7

LEMMA QueuesNext ==
  ASSUME RemoteInv, CallbackInv, Next
  PROVE  \A g \in Nets : QueueOf(g)'
<1> SUFFICES ASSUME NEW g \in Nets PROVE QueueOf(g)'
  OBVIOUS
<1>0. QueueOf(g) /\ jobs \in [Nets -> JobQueues] /\ handle \in [Nets -> HandleSet] /\ 0 \notin Nets
  BY CallbackTypes, HostAssumption DEF CallbackInv
<1>1. CallStep
  BY CallsChange
<1>2. ASSUME Same, jobs'[g].main = jobs[g].main, strand'[g] # <<>> => strand[g] # <<>> \/ handle[g].st # "none"
      PROVE  QueueOf(g)'
  BY <1>2, QueueStays DEF Same
<1>3. ASSUME Same, UNCHANGED <<jobs, shots>>, Settles PROVE QueueOf(g)'
  BY <1>2, <1>3 DEF Settles
<1>4. ASSUME NEW s \in Slots, NEW h \in Nets, CreateGameState(s, h) PROVE QueueOf(g)'
  <2>1. UNCHANGED <<jobs, strand, main>> /\ main.h = 0
    BY <1>4 DEF CreateGameState, Ready, Idle
  <2>2. CASE g = h
    <3>1. handle[g].st = "none" /\ handle'[g].st = "open"
      BY <1>4, <2>2, CallbackTypes, MadeNet
    <3> QED BY <1>0, <2>1, <3>1 DEF QueueOf
  <2>3. CASE g # h
    <3>1. handle'[g] = handle[g]
      BY <1>4, <2>3, CallbackTypes, MadeNet
    <3> QED BY <2>1, <3>1, QueueStays
  <2> QED BY <2>2, <2>3
<1>5. ASSUME NEW h \in Nets, Closes(h) PROVE QueueOf(g)'
  <2>1. /\ handle[h].st = "open" /\ main.h = 0 /\ main'.h = h /\ strand' = strand
        /\ handle'[g].st = IF g = h THEN "closing" ELSE handle[g].st
        /\ jobs' = [jobs EXCEPT ![h].main = Append(@, Poison)]
    BY <1>5 DEF Closes
  <2>2. CASE g # h
    <3>1. handle'[g].st = handle[g].st /\ jobs'[g].main = jobs[g].main
      BY <1>0, <2>1, <2>2
    <3>2. handle[g].st \notin {"closing", "joined", "stopping"}
      BY <1>0, <2>1 DEF QueueOf
    <3> QED BY <1>0, <2>1, <3>1, <3>2 DEF QueueOf
  <2>3. CASE g = h
    <3> PICK q : q = jobs[g].main
      OBVIOUS
    <3>1. q \in Seq(JobSet)
      BY <1>0 DEF JobQueues
    <3>2. jobs'[g].main = Append(q, Poison)
      BY <1>0, <2>1, <2>3 DEF JobQueues
    <3>3. \A i \in DOMAIN q : q[i].kind # "poison"
      BY <1>0, <2>1, <2>3 DEF QueueOf
    <3>4. \A i \in DOMAIN Append(q, Poison) : Append(q, Poison)[i].kind = "poison" => i = Len(Append(q, Poison))
      <4>1. Len(Append(q, Poison)) = Len(q) + 1 /\ Len(q) \in Nat
        BY <3>1
      <4>2. \A i \in DOMAIN Append(q, Poison) : i = Len(q) + 1 \/ (i \in DOMAIN q /\ Append(q, Poison)[i] = q[i])
        BY <3>1
      <4> QED BY <3>3, <4>1, <4>2
    <3>5. handle'[g].st = "closing" /\ handle[g].st = "open"
      BY <2>1, <2>3
    <3> QED BY <2>1, <2>3, <3>2, <3>4, <3>5 DEF QueueOf
  <2> QED BY <2>2, <2>3
<1>6. ASSUME NEW h \in Nets, DispatcherJoined(h) PROVE QueueOf(g)'
  <2>1. /\ main.h = h /\ handle[h].st = "joined" /\ UNCHANGED <<strand, main>>
        /\ handle' = [handle EXCEPT ![h].st = "stopping"]
        /\ jobs' = [jobs EXCEPT ![h] = [main |-> <<>>, other |-> EmptyBag]]
    BY <1>6 DEF DispatcherJoined
  <2>2. CASE g # h
    <3>1. handle'[g].st = handle[g].st /\ jobs'[g].main = jobs[g].main
      BY <1>0, <2>1, <2>2
    <3> QED BY <2>1, <3>1, QueueStays
  <2>3. CASE g = h
    <3>1. handle'[g].st = "stopping" /\ jobs'[g].main = <<>>
      BY <1>0, <2>1, <2>3 DEF HandleSet
    <3> QED BY <2>1, <2>3, <3>1 DEF QueueOf
  <2> QED BY <2>2, <2>3
<1>7. ASSUME NEW h \in Nets, HandleDestroyed(h) PROVE QueueOf(g)'
  <2>1. /\ main.h = h /\ handle[h].st = "stopping" /\ jobs' = jobs
        /\ handle' = [handle EXCEPT ![h].st = "gone"]
        /\ strand' = [strand EXCEPT ![h] = <<>>]
    BY <1>7 DEF HandleDestroyed
  <2>2. CASE g # h
    <3>1. handle'[g].st = handle[g].st /\ strand'[g] = strand[g]
      BY <1>0, <2>1, <2>2, CallbackTypes
    <3>2. handle[g].st \notin {"closing", "joined", "stopping"}
      BY <1>0, <2>1, <2>2 DEF QueueOf
    <3> QED BY <1>0, <2>1, <3>1, <3>2 DEF QueueOf
  <2>3. CASE g = h
    <3>1. handle'[g].st = "gone"
      BY <1>0, <2>1, <2>3 DEF HandleSet
    <3> QED BY <1>0, <2>1, <2>3, <3>1 DEF QueueOf
  <2> QED BY <2>2, <2>3
<1>8. ASSUME NEW h \in Nets, EndsThread(h) PROVE QueueOf(g)'
  <2>1. Dispatching(h) /\ main' = main /\ handle' = [handle EXCEPT ![h].st = "joined"] /\ strand' = strand
    BY <1>8 DEF EndsThread
  <2>2. PICK j, js : TakesMain(h, j, js) /\ j.kind = "poison" /\ jobs' = js
    BY <1>8 DEF EndsThread
  <2>3. /\ handle[h].st = "open" => j.kind # "poison"
        /\ handle[h].st = "closing" /\ j.kind = "poison" => js[h].main = <<>>
        /\ g # h => js[g].main = jobs[g].main
    BY <2>1, <2>2, QueueTaken
  <2>4. handle[h].st = "closing" /\ jobs'[h].main = <<>>
    BY <2>1, <2>2, <2>3 DEF Dispatching
  <2>5. CASE g # h
    <3>1. handle'[g].st = handle[g].st
      BY <1>0, <2>1, <2>5
    <3> QED BY <2>1, <2>2, <2>3, <2>5, <3>1, QueueStays
  <2>6. CASE g = h
    <3>1. handle'[g].st = "joined" /\ main'.h = h
      BY <1>0, <2>1, <2>4, <2>6 DEF HandleSet, QueueOf
    <3> QED BY <2>4, <2>6, <3>1 DEF QueueOf
  <2> QED BY <2>5, <2>6
<1>9. ASSUME NEW h \in Nets, RunsMain(h) PROVE QueueOf(g)'
  <2>1. Same /\ Dispatching(h)
    BY <1>9 DEF RunsMain
  <2>2. PICK j, js : TakesMain(h, j, js) /\ RanJob(h, j.cb, js)
    BY <1>9 DEF RunsMain
  <2>3. js \in [Nets -> JobQueues]
    BY <2>2, CallbackTypes, JobTaken
  <2>4. jobs'[g].main = js[g].main /\ (strand'[g] # <<>> => strand[g] # <<>> \/ handle[g].st # "none")
    BY <2>1, <2>2, <2>3, RanJobQueues
  <2> PICK q : q = js[h].main
    OBVIOUS
  <2>5. /\ handle[h].st = "open" => \A i \in DOMAIN q : q[i].kind # "poison"
        /\ handle[h].st = "closing" => \A i \in DOMAIN q : q[i].kind = "poison" => i = Len(q)
        /\ g # h => js[g].main = jobs[g].main
    BY <2>1, <2>2, QueueTaken
  <2>6. CASE g # h
    BY <1>2, <2>1, <2>4, <2>5, <2>6
  <2>7. CASE g = h
    <3>1. jobs'[g].main = q /\ handle'[g].st = handle[g].st /\ main' = main
      BY <2>1, <2>4, <2>7 DEF Same
    <3>2. handle[g].st \in {"open", "closing"}
      BY <2>1, <2>7 DEF Dispatching
    <3> QED BY <1>0, <2>5, <2>7, <3>1, <3>2 DEF QueueOf
  <2> QED BY <2>6, <2>7
<1>10. ASSUME NEW h \in Nets, RunsOther(h) PROVE QueueOf(g)'
  <2>1. Same /\ Dispatching(h)
    BY <1>10 DEF RunsOther
  <2>2. PICK j, js : TakesOther(h, j, js) /\ RanJob(h, j.cb, js)
    BY <1>10 DEF RunsOther
  <2>3. js \in [Nets -> JobQueues]
    BY <2>2, CallbackTypes, JobTaken
  <2>4. jobs'[g].main = js[g].main /\ (strand'[g] # <<>> => strand[g] # <<>> \/ handle[g].st # "none")
    BY <2>1, <2>2, <2>3, RanJobQueues
  <2>5. js[g].main = jobs[g].main
    BY <1>0, <2>2 DEF TakesOther, JobQueues
  <2> QED BY <1>2, <2>1, <2>4, <2>5
<1>11. ASSUME NEW h \in Nets, StrandReplies(h) PROVE QueueOf(g)'
  <2>1. /\ Same /\ strand[h] # <<>> /\ strand' = [strand EXCEPT ![h] = Tail(strand[h])]
        /\ Returned(h, Called(Head(strand[h]).cb), jobs)
    BY <1>11 DEF StrandReplies
  <2>2. strand'[g] # <<>> => strand[g] # <<>>
    BY <2>1, CallbackTypes
  <2>3. jobs'[g].main = jobs[g].main
    BY <1>0, <2>1, ReturnedMain
  <2> QED BY <1>2, <2>1, <2>2, <2>3
<1>12. ASSUME NEW h \in Nets, Tells(h) PROVE QueueOf(g)'
  BY <1>0, <1>2, <1>12, ReturnedMain DEF Tells
<1>13. ASSUME NEW t \in BagToSet(pool), Replies(t) PROVE QueueOf(g)'
  <2>1. t.h \in Nets
    BY CallbackTypes DEF Housed, PoolTask, TaskSet
  <2> QED BY <1>0, <1>2, <1>13, <2>1, ReturnedMain DEF Replies
<1>14. ASSUME NEW h \in Nets, NEW kind \in Commands \cup Asks, NEW lang, MainCalls(h, kind, lang)
       PROVE  QueueOf(g)'
  <2>1. handle[h].st = "open" /\ Same /\ UNCHANGED strand
    BY <1>14 DEF MainCalls, Same, remoteVars
  <2>2. PICK j \in CallSet : jobs' = [jobs EXCEPT ![h].main = Append(@, j)]
    BY <1>14, CallbackTypes, CallMade
  <2>3. j \in JobSet /\ j.kind # "poison"
    BY DEF JobSet, CallSet, Commands, GameCalls, Asks
  <2>4. CASE g # h
    <3>1. jobs'[g].main = jobs[g].main
      BY <1>0, <2>2, <2>4
    <3> QED BY <1>2, <2>1, <3>1
  <2>5. CASE g = h
    <3> PICK q : q = jobs[g].main
      OBVIOUS
    <3>1. q \in Seq(JobSet)
      BY <1>0 DEF JobQueues
    <3>2. jobs'[g].main = Append(q, j)
      BY <1>0, <2>2, <2>5 DEF JobQueues
    <3>3. \A i \in DOMAIN q : q[i].kind # "poison"
      BY <1>0, <2>1, <2>5 DEF QueueOf
    <3>4. \A i \in DOMAIN Append(q, j) : Append(q, j)[i].kind # "poison"
      <4>1. \A i \in DOMAIN Append(q, j) : Append(q, j)[i] = j \/ (i \in DOMAIN q /\ Append(q, j)[i] = q[i])
        BY <2>3, <3>1
      <4> QED BY <2>3, <3>3, <4>1
    <3>5. handle'[g].st = "open" /\ handle[g].st = "open"
      BY <2>1, <2>5 DEF Same
    <3> QED BY <2>1, <3>2, <3>4, <3>5 DEF QueueOf
  <2> QED BY <2>4, <2>5
<1> QED BY <1>1, <1>3, <1>4, <1>5, <1>6, <1>7, <1>8, <1>9, <1>10, <1>11, <1>12, <1>13, <1>14 DEF CallStep

LEMMA CallbacksInitially ==
  ASSUME Init
  PROVE  CallbackInv
<1>0. /\ pool = EmptyBag /\ strand = [h \in Nets |-> <<>>] /\ shots = <<>>
      /\ handle = [h \in Nets |-> NoHandle]
      /\ jobs = [h \in Nets |-> [main |-> <<>>, other |-> EmptyBag]]
  BY DEF Init, RemoteInit
<1> PICK E : E = EmptyBag
  OBVIOUS
<1>1. BagToSet(E) = {}
  BY DEF EmptyBag, SetToBag, BagToSet
<1>2. \A h \in Nets : /\ strand[h] = <<>> /\ handle[h].st = "none"
                      /\ jobs[h].main = <<>> /\ jobs[h].other = E
  BY <1>0 DEF NoHandle
<1>3. \A h \in Nets : QueueOf(h)
  BY <1>2 DEF QueueOf
<1>4. ASSUME NEW c, NEW h \in Nets PROVE Sits(jobs, pool, strand, c, h, "none")
  <2>1. InMain(jobs, c, h, "none") /\ InStrand(strand, c, h, "none")
    BY <1>2 DEF InMain, InStrand, SeqHas, SeqOnce
  <2>2. InOther(jobs, c, h, "none") /\ InPool(pool, c, h, "none")
    BY <1>0, <1>1, <1>2 DEF InOther, InPool, BagHas, BagOnce
  <2> QED BY <2>1, <2>2 DEF Sits
<1>5. Tracks(handle, net, jobs, pool, strand, shots)
  <2>1. DOMAIN shots = {}
    BY <1>0
  <2> QED BY <1>4, <2>1 DEF Tracks, TracksOne
<1> QED BY <1>3, <1>5 DEF CallbackInv

\* The callback of a request is called once at most, and once the handle is gone every request
\* of the main thread has been answered, unless the Net never ran (dispatchApiJob,
\* cApiDispatcherLoop, ~Net, string_callback_c): a callback is at one place, with a job, with a
\* task or with nobody after its call, and Poison follows all the jobs of the main thread.
THEOREM CallbacksCalledOnce == Spec => []AnsweredBeforeDestroyed
<1>1. Init => RemoteInv /\ CallbackInv
  BY RemoteInitially, CallbacksInitially
<1>2. RemoteInv /\ CallbackInv /\ [Next]_vars => (RemoteInv /\ CallbackInv)'
  <2> SUFFICES ASSUME RemoteInv, CallbackInv, [Next]_vars PROVE CallbackInv'
    BY RemoteKept
  <2>1. CASE Next
    BY <2>1, QueuesNext, TracksNext DEF CallbackInv
  <2>2. CASE UNCHANGED vars
    <3>1. UNCHANGED <<handle, net, jobs, pool, strand, shots, main>>
      BY <2>2 DEF vars, remoteVars, hostVars
    <3> QED BY <3>1 DEF CallbackInv, QueueOf
  <2> QED BY <2>1, <2>2
<1>3. RemoteInv /\ CallbackInv => AnsweredBeforeDestroyed
  BY CallbackInvGives DEF RemoteInv
<1> QED BY <1>1, <1>2, <1>3, PTL DEF Spec

=============================================================================
