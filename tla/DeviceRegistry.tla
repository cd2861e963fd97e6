--------------------------- MODULE DeviceRegistry ---------------------------
(***************************************************************************)
(* The life of one bridge device ID (cloud/functions/src/devices/          *)
(* provisioning.ts), and how its key is admitted (ingest/service.ts,       *)
(* ingest/secret-manager.ts, getDevice of ingest/firestore-repository.ts,  *)
(* and realtime/session.ts, which admits in the same way).                 *)
(*                                                                         *)
(* Three stores take part: the global registry document, the device        *)
(* document of an organization, and Secret Manager.  Each callable is a    *)
(* sequence of transactions and calls between which the others run, which  *)
(* Secret Manager may refuse, or after which the function may die.  The    *)
(* versions of a secret are numbered from 1, also when a secret of the     *)
(* same name is created again, and a function instance caches the value    *)
(* of a version name for CacheTime.                                        *)
(***************************************************************************)
EXTENDS Integers, Sequences, SequencesExt

CONSTANTS
  Orgs,             \* organizations that use the device ID
  Calls,            \* callables in service at once
  Requests,         \* bridge requests in service at once
  GraceTime,        \* a rotated key stays valid (15 minutes)
  CacheTime,        \* life of a cached secret (5 minutes)
  RequestTime,      \* a request is cut off after this (the function timeout)
  MaxTime, MaxKeys, MaxCalls, MaxFaults      \* bounds

ASSUME TimesAssumption ==
  /\ GraceTime \in Nat /\ CacheTime \in Nat /\ RequestTime \in Nat \ {0}
  /\ MaxTime \in Nat /\ MaxKeys \in Nat /\ MaxCalls \in Nat /\ MaxFaults \in Nat

VARIABLES
  now,
  registry,         \* bridgeDeviceRegistry/{deviceId}
  document,         \* organizations/{org}/devices/{deviceId}
  secret,           \* Secret Manager: the keys of the secret's versions
  call,             \* the callables in service
  request,          \* the bridge requests in service
  cache,            \* version name -> cached key and when it expires
  made,             \* keys generated so far
  handed,           \* keys made valid and returned, in that order
  calls, faults,
  crossed,          \* a removal has overlapped another callable (observation)
  vouched           \* when each key was last good or handed out (observation)

vars == <<now, registry, document, secret, call, request, cache, made, handed,
          calls, faults, crossed, vouched>>

-----------------------------------------------------------------------------
Keys == 1..MaxKeys
NoOrg == "none"
NoSecret == <<0>>                  \* Secret Manager has no secret of this name
NoGrace == -1                      \* previousSecretValidUntil is not set
StaleTime == CacheTime + 2 * RequestTime
Never == -StaleTime                \* long ago

Unregistered ==
  [state |-> "none", enabled |-> FALSE, org |-> NoOrg, versions |-> <<>>,
   grace |-> NoGrace, known |-> FALSE, reservation |-> NoOrg]

Idle == [kind |-> "none", pc |-> "idle", org |-> NoOrg, versions |-> <<>>,
         retry |-> FALSE, known |-> FALSE, name |-> 0, key |-> 0]
Waiting == [pc |-> "idle", names |-> <<>>, since |-> 0, signers |-> {}, org |-> NoOrg,
            fetched |-> <<>>]

Init ==
  /\ now = 0
  /\ registry = Unregistered
  /\ document = [o \in Orgs |-> "absent"]
  /\ secret = NoSecret
  /\ call = [c \in Calls |-> Idle]
  /\ request = [r \in Requests |-> Waiting]
  /\ cache = [n \in Keys |-> [key |-> 0, expires |-> 0]]
  /\ made = 0 /\ handed = <<>>
  /\ calls = 0 /\ faults = 0
  /\ crossed = FALSE
  /\ vouched = [k \in Keys |-> Never]

(* Versions that getDevice returns: two while the grace lasts, then one. *)
ActiveVersions ==
  LET limit == IF registry.grace # NoGrace /\ registry.grace < now THEN 1 ELSE 2
  IN SubSeq(registry.versions, 1, IF Len(registry.versions) < limit
                                  THEN Len(registry.versions) ELSE limit)

Admits == registry.enabled /\ registry.state = "active"

Resolves(n) == secret # NoSecret /\ n \in DOMAIN secret

(* A key is good while the registry admits the device and Secret Manager   *)
(* has the key as the version that the registry names as the newest, or as *)
(* the one before that within its grace.                                   *)
Good(k) ==
  /\ Admits
  /\ \E i \in DOMAIN registry.versions :
       /\ i = 1 \/ (i = 2 /\ now <= registry.grace)
       /\ Resolves(registry.versions[i]) /\ secret[registry.versions[i]] = k

(* When a key was last good, or never if that is long ago. *)
LastGood(k) == IF Good(k) THEN now ELSE IF now - vouched[k] < StaleTime THEN vouched[k] ELSE Never

-----------------------------------------------------------------------------
(* Callables.  Starting one beside a removal, or a removal beside another, *)
(* is remembered in crossed.                                               *)

Others(c) == {d \in Calls \ {c} : call[d].pc # "idle"}

Starts(c, op) ==
  /\ call[c].pc = "idle"
  /\ calls < MaxCalls
  /\ calls' = calls + 1
  /\ call' = [call EXCEPT ![c] = op]
  /\ crossed' = (crossed \/ (Others(c) # {} /\
                   (op.kind = "remove" \/ \E d \in Others(c) : call[d].kind = "remove")))

Goes(c, pc) == call' = [call EXCEPT ![c].pc = pc]
Ends(c) == call' = [call EXCEPT ![c] = Idle]

(* provision, its first transaction: the ID must be free, or have failed   *)
(* to provision for the same organization.  The document is replaced.      *)
Reserve(c) == \E o \in Orgs :
  /\ \/ registry.state = "none"
     \/ registry.state = "failed" /\ registry.org = o
  /\ Starts(c, [Idle EXCEPT !.kind = "provision", !.pc = "create", !.org = o,
                            !.retry = (registry.state # "none")])
  /\ registry' = [Unregistered EXCEPT !.state = "provisioning", !.org = o,
                                      !.reservation = c]
  /\ UNCHANGED <<now, document, secret, request, cache, made, handed, faults>>

(* createSecret: one that exists already is accepted only on a retry. *)
CreateSecret(c) ==
  /\ call[c].pc = "create"
  /\ IF secret = NoSecret
       THEN secret' = <<>> /\ Goes(c, "version")
       ELSE UNCHANGED secret /\ Goes(c, IF call[c].retry THEN "version" ELSE "cleanup")
  /\ UNCHANGED <<now, registry, document, request, cache, made, handed, calls, faults, crossed>>

(* addSecretVersion, of provision and of rotate; without a secret it fails. *)
AddVersion(c) ==
  /\ call[c].pc = "version"
  /\ made < MaxKeys
  /\ IF secret = NoSecret
       THEN /\ call' = [call EXCEPT ![c] = IF @.kind = "provision"
                                             THEN [@ EXCEPT !.pc = "cleanup"] ELSE Idle]
            /\ UNCHANGED <<secret, made>>
       ELSE /\ made' = made + 1
            /\ secret' = Append(secret, made + 1)
            /\ call' = [call EXCEPT ![c].pc = "publish", ![c].key = made + 1,
                                    ![c].name = Len(secret) + 1]
  /\ UNCHANGED <<now, registry, document, request, cache, handed, calls, faults, crossed>>

(* provision, its second transaction and the answer with the key. *)
Activate(c) ==
  /\ call[c].kind = "provision" /\ call[c].pc = "publish"
  /\ IF registry.reservation = c
       THEN /\ registry' = [registry EXCEPT !.state = "active", !.enabled = TRUE, !.known = TRUE,
                                            !.versions = <<call[c].name>>, !.reservation = NoOrg]
            /\ document' = [document EXCEPT ![call[c].org] = "enabled"]
            /\ handed' = Append(handed, [name |-> call[c].name, key |-> call[c].key])
            /\ Ends(c)
       ELSE /\ Goes(c, "cleanup")
            /\ UNCHANGED <<registry, document, handed>>
  /\ UNCHANGED <<now, secret, request, cache, made, calls, faults, crossed>>

(* The catch of provision merges into whatever the registry holds now. *)
MarkFailed(c) ==
  /\ call[c].pc = "cleanup"
  /\ registry' = [registry EXCEPT !.state = "failed", !.enabled = FALSE]
  /\ Ends(c)
  /\ UNCHANGED <<now, document, secret, request, cache, made, handed, calls, faults, crossed>>

(* rotate: what it read before addSecretVersion is what it writes after.   *)
StartRotate(c) ==
  /\ registry.org # NoOrg /\ registry.known
  /\ Starts(c, [Idle EXCEPT !.kind = "rotate", !.pc = "version",
                            !.versions = registry.versions])
  /\ UNCHANGED <<now, registry, document, secret, request, cache, made, handed, faults>>

(* Mutants: every earlier version is kept; the new version comes last. *)
NewVersionsAll(c) == <<call[c].name>> \o call[c].versions
NewVersionsLast(c) == SubSeq(call[c].versions, 1, 1) \o <<call[c].name>>

NewVersions(c) == <<call[c].name>> \o SubSeq(call[c].versions, 1,
                                            IF call[c].versions = <<>> THEN 0 ELSE 1)

PublishRotated(c) ==
  /\ call[c].kind = "rotate" /\ call[c].pc = "publish"
  /\ IF registry.state # "none"                 \* update needs a document
       THEN /\ registry' = [registry EXCEPT !.versions = NewVersions(c),
                                            !.grace = now + GraceTime]
            /\ handed' = Append(handed, [name |-> call[c].name, key |-> call[c].key])
       ELSE UNCHANGED <<registry, handed>>
  /\ Ends(c)
  /\ UNCHANGED <<now, document, secret, request, cache, made, calls, faults, crossed>>

(* setEnabled reads the registration, then updates it and merges into the  *)
(* device document in one batch, whatever has become of them.              *)
StartSetEnabled(c) == \E kind \in {"enable", "disable"} :
  /\ registry.org # NoOrg
  /\ Starts(c, [Idle EXCEPT !.kind = kind, !.pc = "switch", !.org = registry.org])
  /\ UNCHANGED <<now, registry, document, secret, request, cache, made, handed, faults>>

(* Mutant: the device document is not written. *)
SetEnabledRegistryOnly(c) ==
  /\ call[c].pc = "switch"
  /\ registry' = IF registry.state # "none"
                   THEN [registry EXCEPT !.enabled = (call[c].kind = "enable")] ELSE registry
  /\ Ends(c)
  /\ UNCHANGED <<now, document, secret, request, cache, made, handed, calls, faults, crossed>>

SetEnabled(c) ==
  /\ call[c].pc = "switch"
  /\ LET on == call[c].kind = "enable" IN
       IF registry.state # "none"
         THEN /\ registry' = [registry EXCEPT !.enabled = on]
              /\ document' = [document EXCEPT ![call[c].org] = IF on THEN "enabled" ELSE "disabled"]
         ELSE UNCHANGED <<registry, document>>
  /\ Ends(c)
  /\ UNCHANGED <<now, secret, request, cache, made, handed, calls, faults, crossed>>

(* remove: the organization of the registration, or, when there is none    *)
(* left, the one the caller names.                                         *)
StartRemove(c) == \E o \in Orgs :
  /\ registry.state # "none" => registry.org = o
  /\ Starts(c, [Idle EXCEPT !.kind = "remove", !.pc = "revoke", !.org = o])
  /\ UNCHANGED <<now, registry, document, secret, request, cache, made, handed, faults>>

(* Its transaction revokes the device and keeps everything needed to go on. *)
Revoke(c) ==
  /\ call[c].pc = "revoke"
  /\ LET o == call[c].org IN
       IF registry.state = "none" \/ registry.org = o
         THEN /\ registry' = [registry EXCEPT !.state = "deleting", !.enabled = FALSE, !.org = o]
              /\ document' = [document EXCEPT ![o] = IF @ = "absent" THEN @ ELSE "disabled"]
              /\ call' = [call EXCEPT ![c].known = registry.known,
                                      ![c].pc = IF registry.known THEN "deleteSecret" ELSE "deleteDocuments"]
         ELSE Ends(c) /\ UNCHANGED <<registry, document>>
  /\ UNCHANGED <<now, secret, request, cache, made, handed, calls, faults, crossed>>

DeleteSecret(c) ==
  /\ call[c].pc = "deleteSecret"
  /\ secret' = NoSecret
  /\ Goes(c, "deleteDocuments")
  /\ UNCHANGED <<now, registry, document, request, cache, made, handed, calls, faults, crossed>>

DeleteDocuments(c) ==
  /\ call[c].pc = "deleteDocuments"
  /\ document' = [document EXCEPT ![call[c].org] = "absent"]
  /\ Goes(c, "unregister")
  /\ UNCHANGED <<now, registry, secret, request, cache, made, handed, calls, faults, crossed>>

Unregister(c) ==
  /\ call[c].pc = "unregister"
  /\ registry' = Unregistered
  /\ Ends(c)
  /\ UNCHANGED <<now, document, secret, request, cache, made, handed, calls, faults, crossed>>

(* A call of provision to Secret Manager, or its second transaction, fails *)
(* without effect: it runs its catch.                                      *)
ProvisionCallFails(c) ==
  /\ call[c].kind = "provision" /\ call[c].pc \in {"create", "version", "publish"}
  /\ faults < MaxFaults
  /\ faults' = faults + 1
  /\ Goes(c, "cleanup")
  /\ UNCHANGED <<now, registry, document, secret, request, cache, made, handed, calls, crossed>>

(* A callable dies, or stops at the error of a call; its writes stay. *)
Dies(c) ==
  /\ call[c].pc # "idle"
  /\ faults < MaxFaults
  /\ faults' = faults + 1
  /\ Ends(c)
  /\ UNCHANGED <<now, registry, document, secret, request, cache, made, handed, calls, crossed>>

-----------------------------------------------------------------------------
(* Requests of bridges that hold a key.                                    *)

HandedKeys == {handed[i].key : i \in DOMAIN handed}

(* getDevice: an incomplete registration is an error, a disabled one 403. *)
Receive(r) ==
  /\ request[r].pc = "idle"
  /\ Admits /\ registry.org # NoOrg /\ registry.versions # <<>>
  /\ request' = [request EXCEPT ![r] = [pc |-> "secrets", names |-> ActiveVersions, since |-> now,
                                        signers |-> HandedKeys, org |-> registry.org, fetched |-> <<>>]]
  /\ UNCHANGED <<now, registry, document, secret, call, cache, made, handed, calls, faults, crossed>>

(* Mutant: the cache never lets go. *)
CachedForever(n) == cache[n].key # 0

Cached(n) == cache[n].key # 0 /\ cache[n].expires > now

(* getSecrets: every version from the cache or from Secret Manager; one    *)
(* that is missing fails the request.                                      *)
GetSecrets(r) ==
  /\ request[r].pc = "secrets"
  /\ LET names == request[r].names IN
       IF \A n \in ToSet(names) : Cached(n) \/ Resolves(n)
         THEN request' = [request EXCEPT ![r].pc = "check", ![r].fetched =
                [i \in DOMAIN names |-> IF Cached(names[i])
                   THEN [key |-> cache[names[i]].key, hit |-> TRUE]
                   ELSE [key |-> secret[names[i]], hit |-> FALSE]]]
         ELSE request' = [request EXCEPT ![r] = Waiting]
  /\ UNCHANGED <<now, registry, document, secret, call, cache, made, handed, calls, faults, crossed>>

(* What was loaded is cached from the time the load returns. *)
CacheLoaded(r) ==
  cache' = [n \in Keys |->
    LET loads == {i \in DOMAIN request[r].names :
                    request[r].names[i] = n /\ ~request[r].fetched[i].hit}
    IN IF loads = {} THEN cache[n]
       ELSE [key |-> request[r].fetched[CHOOSE i \in loads : TRUE].key,
             expires |-> now + CacheTime]]

Fetched(r) == {request[r].fetched[i].key : i \in DOMAIN request[r].fetched}

(* Any key handed out before the request was sent may have signed it; the  *)
(* signature is compared with each key that was fetched.                   *)
HasValidSignature(r, k) == k \in request[r].signers \intersect Fetched(r)

(* Such a request is served, for the organization it read, and merges its  *)
(* contact into the device document.                                       *)
Admit(r, k) ==
  /\ request[r].pc = "check" /\ HasValidSignature(r, k)
  /\ CacheLoaded(r)
  /\ document' = [document EXCEPT ![request[r].org] = IF @ = "absent" THEN "contact" ELSE @]
  /\ request' = [request EXCEPT ![r] = Waiting]
  /\ UNCHANGED <<now, registry, secret, call, made, handed, calls, faults, crossed>>

Refuse(r) ==
  /\ request[r].pc = "check"        \* signed with another key
  /\ CacheLoaded(r)
  /\ request' = [request EXCEPT ![r] = Waiting]
  /\ UNCHANGED <<now, registry, document, secret, call, made, handed, calls, faults, crossed>>

Tick ==
  /\ now < MaxTime
  /\ \A r \in Requests : request[r].pc # "idle" => now < request[r].since + RequestTime
  /\ now' = now + 1
  /\ UNCHANGED <<registry, document, secret, call, request, cache, made, handed, calls, faults, crossed>>

Step ==
  \/ Tick
  \/ \E c \in Calls :
       \/ Reserve(c) \/ CreateSecret(c) \/ AddVersion(c) \/ Activate(c) \/ MarkFailed(c)
       \/ StartRotate(c) \/ PublishRotated(c)
       \/ StartSetEnabled(c) \/ SetEnabled(c)
       \/ StartRemove(c) \/ Revoke(c) \/ DeleteSecret(c) \/ DeleteDocuments(c) \/ Unregister(c)
       \/ ProvisionCallFails(c) \/ Dies(c)
  \/ \E r \in Requests : 
       Receive(r) \/ GetSecrets(r) \/ Refuse(r) \/ \E k \in Keys : Admit(r, k)

(* Every step notes which keys were good until it, and a key handed out.   *)
Vouch == vouched' = [k \in Keys |-> IF k \in HandedKeys' \ HandedKeys THEN now ELSE LastGood(k)]

Next == Step /\ Vouch

Spec == Init /\ [][Next]_vars

-----------------------------------------------------------------------------
(* Properties.                                                             *)

States == {"none", "provisioning", "active", "failed", "deleting"}
Kinds == {"none", "provision", "rotate", "enable", "disable", "remove"}
CallPoints == {"idle", "create", "version", "publish", "cleanup", "switch", "revoke",
               "deleteSecret", "deleteDocuments", "unregister"}
Names == Seq(Keys)

(* The documents, the secret and the work in progress keep their types; a  *)
(* registration names at most two versions (slice(0, 1) in rotate).        *)
TypeOK ==
  /\ now \in 0..MaxTime
  /\ registry \in [state : States, enabled : BOOLEAN, org : Orgs \union {NoOrg}, versions : Names,
                   grace : {NoGrace} \union 0..(MaxTime + GraceTime), known : BOOLEAN,
                   reservation : Calls \union {NoOrg}]
  /\ Len(registry.versions) <= 2
  /\ document \in [Orgs -> {"absent", "contact", "enabled", "disabled"}]
  /\ secret \in {NoSecret} \union Names
  /\ call \in [Calls -> [kind : Kinds, pc : CallPoints, org : Orgs \union {NoOrg}, versions : Names,
                        retry : BOOLEAN, known : BOOLEAN, name : 0..MaxKeys, key : 0..MaxKeys]]
  /\ \A r \in Requests :
       /\ request[r].pc \in {"idle", "secrets", "check"}
       /\ request[r].names \in Names
       /\ DOMAIN request[r].fetched \subseteq DOMAIN request[r].names
  /\ cache \in [Keys -> [key : 0..MaxKeys, expires : 0..(MaxTime + CacheTime)]]
  /\ made \in 0..MaxKeys /\ handed \in Seq([name : Keys, key : Keys])
  /\ calls \in 0..MaxCalls /\ faults \in 0..MaxFaults
  /\ crossed \in BOOLEAN
  /\ vouched \in [Keys -> Never..MaxTime]

(* No stale admission: a request is served only if its key was good, or    *)
(* handed out, at most the life of a cache entry and the length of the two *)
(* requests that filled and used it ago, whatever was rotated, disabled or *)
(* removed, and also when removals overlap other callables.                *)
AdmittedKeyIsRecent ==
  [][\A r \in Requests, k \in Keys : Admit(r, k) => now - LastGood(k) < StaleTime]_vars

(* The key handed out last is the newest version of the registration and   *)
(* Secret Manager has it: rotations that overlap, failed and repeated      *)
(* provisioning never leave an administrator with a key that is not it.    *)
LastKeyWorks ==
  ~crossed /\ registry.state = "active" =>
    /\ Resolves(Head(registry.versions))
    /\ secret[Head(registry.versions)] = Last(handed).key

(* A registration is deleted last, and the device documents follow it:     *)
(* without one, or with one of another organization, no document (beyond a *)
(* late contact) is left and no key ever handed out is in Secret Manager;  *)
(* an active device is admitted exactly when its document is enabled, which *)
(* is what the device limit counts.                                        *)
DocumentsFollowRegistry ==
  ~crossed =>
    /\ \A o \in Orgs : document[o] \in {"enabled", "disabled"} =>
         registry.state # "none" /\ registry.org = o
    /\ registry.state = "none" /\ secret # NoSecret =>
         ToSet(secret) \intersect HandedKeys = {}
    /\ registry.state = "active" =>
         (registry.enabled <=> document[registry.org] = "enabled")
=============================================================================
