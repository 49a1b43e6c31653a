-------------------------------- MODULE Keys --------------------------------
(***************************************************************************)
(* Which key a device signs with: the chain of key resolvers               *)
(* (signer_key_resolver.h, nfc_tpm_key_resolver.cpp,                       *)
(* soft_key_resolver.cpp), provisioning over HTTP                          *)
(* (provisioning_client.cpp), re-provisioning after a 404 and the          *)
(* authentication loop that uses the key (net.cpp).  The process may stop  *)
(* and be started again between any two steps; the saved key, the client's *)
(* save and load callbacks and the server stay.                            *)
(*                                                                         *)
(* A key pair is a number, an identity a uuid; the signer's and the TPM's  *)
(* key are their identities.  Signatures, encryption and the HMAC of the   *)
(* saved key are ideal: they tell a good record from any other.            *)
(***************************************************************************)
EXTENDS Naturals, FiniteSets

CONSTANTS SoftUuids,    \* uuids the server gives out
          Given,        \* the uuid configured beside a signer callback
          TpmUuid,      \* the uuid in the TPM
          NoUuid,       \* no uuid
          Devices,      \* device configurations: see DeviceType
          MaxKeys,      \* bound: key pairs generated
          MaxTries,     \* the 10 of createAuthenticateTask
          MaxMishaps    \* bound: lost replies, failed callbacks and other mishaps

\* signer: a signer callback is configured (then there is no other resolver);
\* uuid: a uuid in the right format is configured; tpm: a TPM is plugged in;
\* soft: hasSoftKeyProvisioning, with a provider key that can be decrypted.
DeviceType == [signer: BOOLEAN, uuid: BOOLEAN, tpm: BOOLEAN, soft: BOOLEAN]

ASSUME KeysAssumption ==
    /\ IsFiniteSet(SoftUuids)
    /\ {Given, TpmUuid, NoUuid} \cap SoftUuids = {}
    /\ Given # TpmUuid /\ NoUuid \notin {Given, TpmUuid}
    /\ Devices \subseteq DeviceType
    /\ MaxKeys \in Nat /\ MaxTries \in Nat /\ MaxMishaps \in Nat

KeyPairs == 1..MaxKeys
NoKey == 0

\* Saved records: good means that the provider and the HMAC fit and the key decrypts.
NoRecord == [uuid |-> NoUuid, key |-> NoKey, good |-> FALSE]
Record == [uuid: SoftUuids, key: KeyPairs, good: BOOLEAN] \cup {NoRecord}

VARIABLES dev,       \* the device
          store,     \* what loadKeyCallback returns
          registry,  \* the key each uuid is registered with
          generated, \* key pairs generated so far
          pc,        \* where createAuthenticateTask is
          resolvers, \* m_keyResolvers is not empty
          signer,    \* the key behind m_signer
          uuid,      \* m_deviceInfo.uuid
          new,       \* the key pair and the uuid of a provisioning in progress
          tries,     \* i of the authentication loop
          faults,    \* what is left of MaxMishaps
          confirmed, \* ghost: registrations the server has made for this device
          unread     \* ghost: since the last save, loadKeyCallback has kept a good key back

info == <<signer, uuid, resolvers>>
keysVars == <<dev, store, registry, generated, pc, info, new, tries, faults, confirmed,
              unread>>

Stages == {"off", "resolve", "tpm", "load", "initiate", "confirm", "reply", "save", "sign",
           "post", "rejected", "ok", "failed"}

Identities == SoftUuids \cup {Given, TpmUuid}

KeysTypeOK ==
    /\ dev \in Devices
    /\ store \in Record
    /\ registry \in [SoftUuids -> 0..generated]
    /\ generated \in 0..MaxKeys
    /\ pc \in Stages
    /\ resolvers \in BOOLEAN
    /\ signer \in KeyPairs \cup {NoKey, Given, TpmUuid}
    /\ uuid \in Identities \cup {NoUuid}
    /\ new \in [key: 0..generated, uuid: SoftUuids \cup {NoUuid}]
    /\ tries \in 0..MaxTries
    /\ faults \in 0..MaxMishaps
    /\ confirmed \subseteq SoftUuids \X KeyPairs
    /\ unread \in BOOLEAN

Nothing == [key |-> NoKey, uuid |-> NoUuid]

KeysInit ==
    /\ dev \in Devices
    /\ store = NoRecord
    /\ registry = [u \in SoftUuids |-> NoKey]
    /\ generated = 0
    /\ pc = "off"
    /\ resolvers = FALSE /\ signer = NoKey /\ uuid = NoUuid
    /\ new = Nothing
    /\ tries = 0
    /\ faults = MaxMishaps
    /\ confirmed = {}
    /\ unread = FALSE

Go(from, to) == pc = from /\ pc' = to

Fault == faults > 0 /\ faults' = faults - 1

-----------------------------------------------------------------------------
(* The resolver chain. *)

\* Net::Net and sb_create_game_state: a signer callback excludes the other resolvers.
Start ==
    /\ Go("off", "resolve")
    /\ resolvers' = TRUE
    /\ signer' = NoKey
    /\ uuid' = IF dev.uuid THEN Given ELSE NoUuid
    /\ new' = Nothing
    /\ tries' = 0
    /\ UNCHANGED <<dev, store, registry, generated, faults, confirmed, unread>>

\* Mutant of the next definition: the uuid is not taken over from the resolver.
MutantKeepsUuid(key, id) ==
    /\ signer' = key
    /\ resolvers' = FALSE
    /\ UNCHANGED uuid

\* resolveKeys is over with this key; the resolvers are dropped.
Resolved(key, id) ==
    /\ signer' = key
    /\ uuid' = id
    /\ resolvers' = FALSE

\* SignerKeyResolver: it needs a uuid.
ResolveSigner ==
    /\ dev.signer
    /\ IF dev.uuid
         THEN Go("resolve", "sign") /\ Resolved(Given, uuid)
         ELSE Go("resolve", "failed") /\ Resolved(NoKey, uuid)
    /\ UNCHANGED <<dev, store, registry, generated, new, tries, faults, confirmed, unread>>

\* NfcTpmKeyResolver: a TPM that is there is found and valid, or does not answer.
ResolveTpm ==
    /\ ~dev.signer
    /\ \/ dev.tpm /\ Go("resolve", "sign") /\ Resolved(TpmUuid, TpmUuid) /\ UNCHANGED faults
       \/ ~dev.tpm /\ Go("resolve", "load") /\ UNCHANGED <<info, faults>>
       \/ dev.tpm /\ Go("resolve", "load") /\ Fault /\ UNCHANGED info
    /\ UNCHANGED <<dev, store, registry, generated, new, tries, confirmed, unread>>

NextTry == tries' = IF tries < MaxTries THEN tries + 1 ELSE tries

\* The test of the loop's counter before a continue that depends on it.
TryAgain == tries < MaxTries /\ NextTry

\* SoftKeyResolver succeeds with this key: in the chain the first signature follows, after
\* reprovisionSoftKey the next try, if there is one.
SoftKeyResolved(key, id) ==
    /\ Resolved(key, id)
    /\ \/ resolvers /\ pc' = "sign" /\ UNCHANGED tries
       \/ ~resolvers /\ TryAgain /\ pc' = "sign"
       \/ ~resolvers /\ tries = MaxTries /\ pc' = "failed" /\ UNCHANGED tries

\* SoftKeyResolver fails: the chain is at its end, or reprovisionSoftKey returns false.
\* The signer is not set in either case.
SoftKeyFails ==
    /\ pc' = "failed"
    /\ Resolved(NoKey, uuid)
    /\ new' = Nothing

\* Mutant of the next definition: a saved key is not looked for.
MutantProvisionFirst ==
    /\ \/ dev.soft /\ Go("load", "initiate") /\ UNCHANGED <<info, new>>
       \/ ~dev.soft /\ pc = "load" /\ SoftKeyFails
    /\ UNCHANGED <<dev, store, registry, generated, tries, faults, confirmed, unread>>

\* tryResolve and tryLoadKey: only a good record counts, and loadKeyCallback may return
\* nothing although there is one.
TryLoadKey ==
    /\ pc = "load"
    /\ \/ /\ dev.soft /\ store.good
          /\ SoftKeyResolved(store.key, store.uuid)
          /\ UNCHANGED <<new, faults, unread>>
       \/ /\ dev.soft
          /\ \/ ~store.good /\ UNCHANGED <<faults, unread>>
             \/ store.good /\ Fault /\ unread' = TRUE
          /\ pc' = "initiate"
          /\ UNCHANGED <<info, new, tries>>
       \/ ~dev.soft /\ SoftKeyFails /\ UNCHANGED <<tries, faults, unread>>
    /\ UNCHANGED <<dev, store, registry, generated, confirmed>>

-----------------------------------------------------------------------------
(* provisionNewKey. *)

\* A key pair is generated, or not.
GenerateFails ==
    /\ pc = "initiate"
    /\ generated = MaxKeys
    /\ SoftKeyFails
    /\ UNCHANGED <<dev, store, registry, generated, tries, faults, confirmed, unread>>

\* initiate(): the server offers a uuid that is free; without a usable reply it fails.
Initiate ==
    /\ pc = "initiate"
    /\ generated < MaxKeys
    /\ generated' = generated + 1
    /\ \/ \E u \in SoftUuids :
            /\ registry[u] = NoKey
            /\ pc' = "confirm"
            /\ new' = [key |-> generated', uuid |-> u]
            /\ UNCHANGED <<info, faults>>
       \/ SoftKeyFails /\ (\A u \in SoftUuids : registry[u] # NoKey) /\ UNCHANGED faults
       \/ SoftKeyFails /\ Fault
    /\ UNCHANGED <<dev, store, registry, tries, confirmed, unread>>

\* Mutant of the next definition: the uuid of the reply is ignored.
MutantTakesOffered ==
    /\ pc = "confirm"
    /\ \E u \in {new.uuid} \cup {v \in SoftUuids : registry[v] # NoKey} :
          /\ pc' = "reply"
          /\ registry' = [registry EXCEPT ![u] = new.key]
          /\ confirmed' = confirmed \cup {<<u, new.key>>}
    /\ UNCHANGED <<dev, store, generated, info, new, tries, faults, unread>>

\* confirm() up to the server: it registers the key for the uuid or, when it knows the
\* device by its fingerprint, for the uuid the device had before.
Confirm ==
    /\ pc = "confirm"
    /\ \/ \E u \in {new.uuid} \cup {v \in SoftUuids : registry[v] # NoKey} :
            /\ pc' = "reply"
            /\ registry' = [registry EXCEPT ![u] = new.key]
            /\ confirmed' = confirmed \cup {<<u, new.key>>}
            /\ new' = [new EXCEPT !.uuid = u]
            /\ UNCHANGED <<info, faults>>
       \/ Fault /\ SoftKeyFails /\ UNCHANGED <<registry, confirmed>>
    /\ UNCHANGED <<dev, store, generated, tries, unread>>

\* The reply arrives, and the device takes the identity, or it is lost.
Confirmed ==
    /\ \/ /\ Go("reply", "save")
          /\ uuid' = new.uuid
          /\ UNCHANGED <<signer, resolvers, new, faults>>
       \/ pc = "reply" /\ Fault /\ SoftKeyFails
    /\ UNCHANGED <<dev, store, registry, generated, tries, confirmed, unread>>

\* saveKeyCallback has no result, so a failure goes unnoticed; then createSigner.
SaveKey ==
    /\ pc = "save"
    /\ \/ /\ store' = [uuid |-> new.uuid, key |-> new.key, good |-> TRUE]
          /\ unread' = FALSE
          /\ UNCHANGED faults
       \/ Fault /\ UNCHANGED <<store, unread>>
    /\ SoftKeyResolved(new.key, uuid)
    /\ new' = Nothing
    /\ UNCHANGED <<dev, registry, generated, confirmed>>

-----------------------------------------------------------------------------
(* createAuthenticateTask from the signature on. *)

\* getSignature fails without a signer, or when a TPM does not answer.
Sign ==
    /\ \/ signer # NoKey /\ Go("sign", "post") /\ UNCHANGED faults
       \/ signer = NoKey /\ Go("sign", "failed") /\ UNCHANGED faults
       \/ signer = TpmUuid /\ Go("sign", "failed") /\ Fault
    /\ UNCHANGED <<dev, store, registry, generated, info, new, tries, confirmed, unread>>

Registered(id) == id \in SoftUuids /\ registry[id] # NoKey

\* 200: the server knows the key under this uuid; a signer's and a TPM's registrations are
\* made elsewhere, so each may exist or not.
Accepts == IF uuid \in SoftUuids THEN registry[uuid] = signer ELSE signer = uuid

\* The reply to the request for a token.
Post ==
    /\ pc = "post"
    /\ \/ Accepts /\ pc' = "ok" /\ UNCHANGED <<tries, faults>>
       \* 404: the uuid is unknown.
       \/ ~Registered(uuid) /\ pc' = "rejected" /\ UNCHANGED <<tries, faults>>
       \* 400: the timestamp is refused.
       \/ Fault /\ TryAgain /\ pc' = "sign"
       \/ Fault /\ tries = MaxTries /\ pc' = "failed" /\ UNCHANGED tries
       \* No connection: again, for ever.
       \/ Fault /\ pc' = "sign" /\ NextTry
       \* Any other code: another key is registered for the uuid.
       \/ ~Accepts /\ Registered(uuid) /\ pc' = "failed" /\ UNCHANGED <<tries, faults>>
    /\ UNCHANGED <<dev, store, registry, generated, info, new, confirmed, unread>>

\* Mutant of the next definition: without soft keys a 404 is answered with another try.
MutantRejectedRetries ==
    /\ pc = "rejected"
    /\ pc' = IF dev.soft THEN "load" ELSE "sign"
    /\ store' = NoRecord
    /\ signer' = IF dev.soft THEN NoKey ELSE signer
    /\ UNCHANGED <<dev, registry, generated, uuid, resolvers, new, tries, faults, confirmed, unread>>

\* reprovisionSoftKey: the saved key is cleared (the callback may fail), the signer too, and
\* SoftKeyResolver runs again.
ReprovisionSoftKey ==
    /\ pc = "rejected"
    /\ \/ /\ dev.soft
          /\ \/ store' = NoRecord /\ UNCHANGED faults
             \/ Fault /\ UNCHANGED store
          /\ signer' = NoKey
          /\ pc' = "load"
          /\ UNCHANGED <<uuid, resolvers>>
       \/ ~dev.soft /\ pc' = "failed" /\ UNCHANGED <<store, faults, info>>
    /\ UNCHANGED <<dev, registry, generated, new, tries, confirmed, unread>>

-----------------------------------------------------------------------------
(* Around the process. *)

\* The process ends, at any point, and is started again.
Crash ==
    /\ pc # "off" /\ Fault
    /\ pc' = "off"
    /\ resolvers' = FALSE /\ signer' = NoKey /\ uuid' = NoUuid
    /\ new' = Nothing
    /\ tries' = 0
    /\ UNCHANGED <<dev, store, registry, generated, confirmed, unread>>

\* The saved record is damaged, or written for another provider.
Corrupt ==
    /\ store # NoRecord /\ store.good /\ Fault
    /\ store' = [store EXCEPT !.good = FALSE]
    /\ UNCHANGED <<dev, registry, generated, pc, info, new, tries, confirmed, unread>>

\* The device is deleted on the server.
Forget ==
    /\ Fault
    /\ \E u \in SoftUuids : registry[u] # NoKey /\ registry' = [registry EXCEPT ![u] = NoKey]
    /\ UNCHANGED <<dev, store, generated, pc, info, new, tries, confirmed, unread>>

Step ==
    \/ Start \/ ResolveSigner \/ ResolveTpm \/ TryLoadKey \/ GenerateFails \/ Initiate
    \/ Confirm \/ Confirmed \/ SaveKey \/ Sign \/ Post \/ ReprovisionSoftKey

KeysNext == Step \/ Crash \/ Corrupt \/ Forget

KeysSpec == KeysInit /\ [][KeysNext]_keysVars

\* The task runs on its thread, and the server answers in the end: it is out of reach at
\* most MaxMishaps times.
KeysFairSpec == KeysSpec /\ WF_keysVars(Step)

-----------------------------------------------------------------------------
\* What is saved as a good key was registered: the server had taken this very key for this
\* very uuid before saveKeyCallback was called (provisionNewKey).
SavedKeyConfirmed == store.good => <<store.uuid, store.key>> \in confirmed

\* A device is not locked out by its own provisioning: as long as a good key is saved and
\* its uuid is registered, it is registered with that key, through crashes, lost replies and
\* callbacks that fail to save or to clear, unless loadKeyCallback has returned nothing for a
\* good key since it was saved (the order of tryLoadKey, clear, confirm and save).
SavedKeyNotSuperseded ==
    store.good /\ Registered(store.uuid) /\ ~unread => registry[store.uuid] = store.key

\* A token is asked for one identity with the key of that identity, never with another's
\* (resolveKeys and reprovisionSoftKey set the signer and the uuid together).
OwnSignature ==
    pc = "post" => \/ signer = uuid /\ uuid \in {Given, TpmUuid}
                   \/ <<uuid, signer>> \in confirmed

\* An authentication comes to an end (createAuthenticateTask: refused timestamps and 404s
\* are counted, and a lost connection is not for ever).
AuthenticationSettles == pc = "resolve" ~> pc \in {"ok", "failed", "off"}
=============================================================================
