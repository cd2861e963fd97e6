------------------------ MODULE DeviceRegistryProofs ------------------------
(***************************************************************************)
(* Proofs about DeviceRegistry, for any organizations, callables, requests *)
(* and times.                                                              *)
(*                                                                         *)
(* Types: General, the parts of TypeOK strengthened until each step keeps  *)
(* them.  Order and keys: what each callable has done to the three stores  *)
(* before its next step (Orders), that the newest version of the           *)
(* registration is the key handed out last (KeyInv) and that the documents *)
(* follow the registration (DocumentInv); these hold while no removal has  *)
(* overlapped another callable.  Admission: what a request in service and  *)
(* an entry of the cache know of keys (AdmissionInv); this holds always.   *)
(***************************************************************************)
EXTENDS DeviceRegistry, TLAPS

(* The parts of TypeOK, and what goes with them, one for each store.       *)
RegistryRecords ==
  [state : States, enabled : BOOLEAN, org : Orgs \union {NoOrg}, versions : Names,
   grace : {NoGrace} \union 0..(MaxTime + GraceTime), known : BOOLEAN,
   reservation : Calls \union {NoOrg}]
CallRecords ==
  [kind : Kinds, pc : CallPoints, org : Orgs \union {NoOrg}, versions : Names,
   retry : BOOLEAN, known : BOOLEAN, name : 0..MaxKeys, key : 0..MaxKeys]
Fetches == [key : 0..MaxKeys, hit : BOOLEAN]
RequestRecords ==
  [pc : {"idle", "secrets", "check"}, names : Names, since : Nat, signers : SUBSET Keys,
   org : Orgs \union {NoOrg}, fetched : Seq(Fetches)]
CacheRecords == [key : 0..MaxKeys, expires : 0..(MaxTime + CacheTime)]
HandedRecords == [name : Keys, key : Keys]

RegistryOK ==
  /\ registry \in RegistryRecords
  /\ Len(registry.versions) <= 2
  /\ Len(registry.versions) = 2 => registry.grace # NoGrace
  /\ registry.state = "none" => registry = Unregistered

DocumentOK == document \in [Orgs -> {"absent", "contact", "enabled", "disabled"}]

SecretOK ==
  /\ made \in 0..MaxKeys
  /\ secret \in {NoSecret} \union Names
  /\ secret # NoSecret => Len(secret) <= made

(* Where a callable may be. *)
PhaseOK(x) ==
  \/ x.kind = "none" /\ x.pc = "idle"
  \/ x.kind = "provision" /\ x.pc \in {"create", "version", "publish", "cleanup"}
  \/ x.kind = "rotate" /\ x.pc \in {"version", "publish"}
  \/ x.kind \in {"enable", "disable"} /\ x.pc = "switch"
  \/ x.kind = "remove" /\ x.pc \in {"revoke", "deleteSecret", "deleteDocuments", "unregister"}

HasKey(x) == x.pc = "publish" => x.name \in Keys /\ x.key \in Keys /\ x.key <= made

CallOK ==
  /\ call \in [Calls -> CallRecords]
  /\ \A c \in Calls : PhaseOK(call[c]) /\ HasKey(call[c])

RequestOK ==
  /\ request \in [Requests -> RequestRecords]
  /\ \A r \in Requests :
       DOMAIN request[r].fetched = IF request[r].pc = "check" THEN DOMAIN request[r].names ELSE {}

CacheOK == cache \in [Keys -> CacheRecords]

HandedOK ==
  /\ handed \in Seq(HandedRecords)
  /\ \A i \in DOMAIN handed : handed[i].key <= made

ClockOK ==
  /\ now \in 0..MaxTime /\ calls \in 0..MaxCalls /\ faults \in 0..MaxFaults
  /\ crossed \in BOOLEAN

VouchedOK == vouched \in [Keys -> Never..MaxTime] /\ \A k \in Keys : vouched[k] <= now

General ==
  /\ RegistryOK /\ DocumentOK /\ SecretOK /\ CallOK /\ RequestOK /\ CacheOK /\ HandedOK
  /\ ClockOK /\ VouchedOK

LEMMA GeneralIsTyped == General => TypeOK
<1> SUFFICES ASSUME General PROVE TypeOK
  OBVIOUS
<1>1. ASSUME NEW r \in Requests
      PROVE  /\ request[r].pc \in {"idle", "secrets", "check"}
             /\ request[r].names \in Names
             /\ DOMAIN request[r].fetched \subseteq DOMAIN request[r].names
  <2>1. request[r] \in RequestRecords
    BY DEF General, RequestOK
  <2>2. DOMAIN request[r].fetched = IF request[r].pc = "check" THEN DOMAIN request[r].names ELSE {}
    BY DEF General, RequestOK
  <2> QED BY <2>1, <2>2 DEF RequestRecords
<1> QED BY <1>1 DEF General, RegistryOK, RegistryRecords, DocumentOK, SecretOK, CallOK, CallRecords,
              CacheOK, CacheRecords, HandedOK, HandedRecords, ClockOK, VouchedOK, TypeOK

LEMMA Bounds ==
  /\ GraceTime \in Nat /\ CacheTime \in Nat /\ RequestTime \in Nat /\ RequestTime > 0
  /\ MaxTime \in Nat /\ MaxKeys \in Nat /\ MaxCalls \in Nat /\ MaxFaults \in Nat
  /\ StaleTime \in Nat /\ StaleTime = CacheTime + 2 * RequestTime /\ Never = -StaleTime
  /\ 0 \notin Keys
BY TimesAssumption DEF StaleTime, Never, Keys

-----------------------------------------------------------------------------
(* Which steps change a variable; every other action leaves it alone.      *)
LEMMA ClockChanges ==
  ASSUME [Next]_vars
  PROVE  now' = now \/ Tick
BY DEF Next, Step, vars, Reserve, CreateSecret, AddVersion, Activate, MarkFailed, StartRotate,
       PublishRotated, StartSetEnabled, SetEnabled, StartRemove, Revoke, DeleteSecret,
       DeleteDocuments, Unregister, ProvisionCallFails, Dies, Receive, GetSecrets, Refuse, Admit

LEMMA RegistryChanges ==
  ASSUME [Next]_vars
  PROVE  \/ registry' = registry
         \/ \E c \in Calls : Reserve(c) \/ Activate(c) \/ MarkFailed(c) \/ PublishRotated(c)
                             \/ SetEnabled(c) \/ Revoke(c) \/ Unregister(c)
BY DEF Next, Step, vars, Tick, CreateSecret, AddVersion, StartRotate,
       StartSetEnabled, StartRemove, DeleteSecret,
       DeleteDocuments, ProvisionCallFails, Dies, Receive, GetSecrets, Refuse, Admit

LEMMA DocumentChanges ==
  ASSUME [Next]_vars
  PROVE  \/ document' = document
         \/ \E c \in Calls : Activate(c) \/ SetEnabled(c) \/ Revoke(c) \/ DeleteDocuments(c)
         \/ \E r \in Requests, k \in Keys : Admit(r, k)
BY DEF Next, Step, vars, Tick, Reserve, CreateSecret, AddVersion, MarkFailed, StartRotate,
       PublishRotated, StartSetEnabled, StartRemove, DeleteSecret,
       Unregister, ProvisionCallFails, Dies, Receive, GetSecrets, Refuse

LEMMA SecretChanges ==
  ASSUME [Next]_vars
  PROVE  \/ UNCHANGED <<secret, made>>
         \/ \E c \in Calls : CreateSecret(c) \/ AddVersion(c) \/ DeleteSecret(c)
BY DEF Next, Step, vars, Tick, Reserve, Activate, MarkFailed, StartRotate,
       PublishRotated, StartSetEnabled, SetEnabled, StartRemove, Revoke,
       DeleteDocuments, Unregister, ProvisionCallFails, Dies, Receive, GetSecrets, Refuse, Admit

LEMMA CallChanges ==
  ASSUME [Next]_vars
  PROVE  \/ UNCHANGED <<call, crossed>>
         \/ \E c \in Calls :
              \/ Reserve(c) \/ CreateSecret(c) \/ AddVersion(c) \/ Activate(c) \/ MarkFailed(c)
              \/ StartRotate(c) \/ PublishRotated(c) \/ StartSetEnabled(c) \/ SetEnabled(c)
              \/ StartRemove(c) \/ Revoke(c) \/ DeleteSecret(c) \/ DeleteDocuments(c)
              \/ Unregister(c) \/ ProvisionCallFails(c) \/ Dies(c)
BY DEF Next, Step, vars, Tick, Receive, GetSecrets, Refuse, Admit

LEMMA HandedChanges ==
  ASSUME [Next]_vars
  PROVE  handed' = handed \/ \E c \in Calls : Activate(c) \/ PublishRotated(c)
BY DEF Next, Step, vars, Tick, Reserve, CreateSecret, AddVersion, MarkFailed, StartRotate,
       StartSetEnabled, SetEnabled, StartRemove, Revoke, DeleteSecret,
       DeleteDocuments, Unregister, ProvisionCallFails, Dies, Receive, GetSecrets, Refuse, Admit

LEMMA RequestChanges ==
  ASSUME [Next]_vars
  PROVE  \/ UNCHANGED <<request, cache>>
         \/ \E r \in Requests : Receive(r) \/ GetSecrets(r) \/ Refuse(r) \/ \E k \in Keys : Admit(r, k)
BY DEF Next, Step, vars, Tick, Reserve, CreateSecret, AddVersion, Activate, MarkFailed, StartRotate,
       PublishRotated, StartSetEnabled, SetEnabled, StartRemove, Revoke, DeleteSecret,
       DeleteDocuments, Unregister, ProvisionCallFails, Dies

LEMMA CallAfter ==
  ASSUME CallOK, NEW c \in Calls
  PROVE  /\ \A x : call' = [call EXCEPT ![c] = x] =>
                     call'[c] = x /\ \A d \in Calls : d # c => call'[d] = call[d]
         /\ \A x : x \in CallRecords /\ call' = [call EXCEPT ![c] = x] =>
                     call' \in [Calls -> CallRecords]
         /\ \A pc : Goes(c, pc) => call' = [call EXCEPT ![c] = [call[c] EXCEPT !.pc = pc]]
         /\ \A pc \in CallPoints : [call[c] EXCEPT !.pc = pc] \in CallRecords
         /\ \A pc : [call[c] EXCEPT !.pc = pc].pc = pc
         /\ \A pc : [call[c] EXCEPT !.pc = pc].kind = call[c].kind
         /\ \A pc : [call[c] EXCEPT !.pc = pc].name = call[c].name
         /\ \A pc : [call[c] EXCEPT !.pc = pc].key = call[c].key
         /\ \A pc : [call[c] EXCEPT !.pc = pc].known = call[c].known
         /\ \A pc : [call[c] EXCEPT !.pc = pc].org = call[c].org
<1>1. call \in [Calls -> CallRecords] /\ call[c] \in CallRecords
  BY DEF CallOK
<1>2. \A x : call' = [call EXCEPT ![c] = x] =>
                     call'[c] = x /\ \A d \in Calls : d # c => call'[d] = call[d]
  BY <1>1
<1>3. \A x : x \in CallRecords /\ call' = [call EXCEPT ![c] = x] =>
                     call' \in [Calls -> CallRecords]
  BY <1>1
<1>4. \A pc : Goes(c, pc) => call' = [call EXCEPT ![c] = [call[c] EXCEPT !.pc = pc]]
  BY DEF Goes
<1>5. \A pc \in CallPoints : [call[c] EXCEPT !.pc = pc] \in CallRecords
  BY <1>1 DEF CallRecords
<1>6. \A pc : [call[c] EXCEPT !.pc = pc].pc = pc /\ [call[c] EXCEPT !.pc = pc].kind = call[c].kind
              /\ [call[c] EXCEPT !.pc = pc].name = call[c].name
              /\ [call[c] EXCEPT !.pc = pc].key = call[c].key
              /\ [call[c] EXCEPT !.pc = pc].known = call[c].known
              /\ [call[c] EXCEPT !.pc = pc].org = call[c].org
  BY <1>1 DEF CallRecords
<1> QED BY <1>2, <1>3, <1>4, <1>5, <1>6

(* A callable moves to x. *)
LEMMA CallMoves ==
  ASSUME CallOK, made \in Nat, made' \in Nat, made <= made', NEW c \in Calls, NEW x \in CallRecords, PhaseOK(x),
         x.pc = "publish" => x.name \in Keys /\ x.key \in Keys /\ x.key <= made',
         call' = [call EXCEPT ![c] = x]
  PROVE  CallOK'
<1>1. call' \in [Calls -> CallRecords] /\ call'[c] = x /\ \A d \in Calls : d # c => call'[d] = call[d]
  BY CallAfter
<1>2. ASSUME NEW d \in Calls PROVE PhaseOK(call'[d]) /\ HasKey(call[d])'
  <2>1. CASE d = c
    BY <1>1, <2>1 DEF HasKey
  <2>2. CASE d # c
    <3>1. call'[d] = call[d] /\ PhaseOK(call[d]) /\ HasKey(call[d]) /\ call[d] \in CallRecords
      BY <1>1, <2>2 DEF CallOK
    <3>2. call[d].key \in Nat
      BY <3>1, Bounds DEF CallRecords
    <3> QED BY <3>1, <3>2 DEF HasKey
  <2> QED BY <2>1, <2>2
<1> QED BY <1>1, <1>2 DEF CallOK

LEMMA IdleIsRecord ==
  Idle \in CallRecords /\ PhaseOK(Idle) /\ Idle.pc = "idle" /\ Idle.kind = "none"
<1>1. 0 \in 0..MaxKeys /\ <<>> \in Names
  BY Bounds DEF Names
<1> QED BY <1>1 DEF Idle, CallRecords, PhaseOK, Kinds, CallPoints

(* The records with which callables start. *)
NewProvision(o, b) == [Idle EXCEPT !.kind = "provision", !.pc = "create", !.org = o, !.retry = b]
NewRotate(vs) == [Idle EXCEPT !.kind = "rotate", !.pc = "version", !.versions = vs]
NewSwitch(kind, o) == [Idle EXCEPT !.kind = kind, !.pc = "switch", !.org = o]
NewRemove(o) == [Idle EXCEPT !.kind = "remove", !.pc = "revoke", !.org = o]

Fresh(x, kind, pc, o) ==
  x \in CallRecords /\ PhaseOK(x) /\ x.pc = pc /\ x.kind = kind /\ x.org = o

LEMMA NewRecords ==
  /\ \A o \in Orgs, b \in BOOLEAN : Fresh(NewProvision(o, b), "provision", "create", o)
  /\ \A vs \in Names : Fresh(NewRotate(vs), "rotate", "version", NoOrg)
  /\ \A kind \in {"enable", "disable"}, o \in Orgs \union {NoOrg} :
       Fresh(NewSwitch(kind, o), kind, "switch", o)
  /\ \A o \in Orgs : Fresh(NewRemove(o), "remove", "revoke", o)
<1>1. Idle \in CallRecords /\ Idle.org = NoOrg
  BY IdleIsRecord DEF Idle
<1>2. ASSUME NEW o \in Orgs, NEW b \in BOOLEAN
      PROVE  Fresh(NewProvision(o, b), "provision", "create", o)
  <2>1. NewProvision(o, b) \in CallRecords
    BY <1>1 DEF NewProvision, CallRecords, Kinds, CallPoints
  <2>2. NewProvision(o, b).pc = "create" /\ NewProvision(o, b).kind = "provision"
        /\ NewProvision(o, b).org = o
    BY <1>1 DEF NewProvision, CallRecords
  <2> QED BY <2>1, <2>2 DEF Fresh, PhaseOK
<1>3. ASSUME NEW vs \in Names PROVE Fresh(NewRotate(vs), "rotate", "version", NoOrg)
  <2>1. NewRotate(vs) \in CallRecords
    BY <1>1 DEF NewRotate, CallRecords, Kinds, CallPoints
  <2>2. NewRotate(vs).pc = "version" /\ NewRotate(vs).kind = "rotate" /\ NewRotate(vs).org = NoOrg
    BY <1>1 DEF NewRotate, CallRecords
  <2> QED BY <2>1, <2>2 DEF Fresh, PhaseOK
<1>4. ASSUME NEW kind \in {"enable", "disable"}, NEW o \in Orgs \union {NoOrg}
      PROVE  Fresh(NewSwitch(kind, o), kind, "switch", o)
  <2>1. NewSwitch(kind, o) \in CallRecords
    BY <1>1 DEF NewSwitch, CallRecords, Kinds, CallPoints
  <2>2. NewSwitch(kind, o).pc = "switch" /\ NewSwitch(kind, o).kind = kind
        /\ NewSwitch(kind, o).org = o
    BY <1>1 DEF NewSwitch, CallRecords
  <2> QED BY <2>1, <2>2 DEF Fresh, PhaseOK
<1>5. ASSUME NEW o \in Orgs PROVE Fresh(NewRemove(o), "remove", "revoke", o)
  <2>1. NewRemove(o) \in CallRecords
    BY <1>1 DEF NewRemove, CallRecords, Kinds, CallPoints
  <2>2. NewRemove(o).pc = "revoke" /\ NewRemove(o).kind = "remove" /\ NewRemove(o).org = o
    BY <1>1 DEF NewRemove, CallRecords
  <2> QED BY <2>1, <2>2 DEF Fresh, PhaseOK
<1> QED BY <1>2, <1>3, <1>4, <1>5

(* How a callable starts, and whom it meets. *)
LEMMA Begins ==
  ASSUME RegistryOK, CallOK, NEW c \in Calls
  PROVE  /\ Reserve(c) => \E o \in Orgs, x \in CallRecords :
              /\ Starts(c, x) /\ Fresh(x, "provision", "create", o)
              /\ registry.state = "none" \/ (registry.state = "failed" /\ registry.org = o)
              /\ registry' = [Unregistered EXCEPT !.state = "provisioning", !.org = o,
                                                  !.reservation = c]
         /\ StartRotate(c) => \E x \in CallRecords :
              Starts(c, x) /\ Fresh(x, "rotate", "version", NoOrg) /\ registry.known /\ registry.org # NoOrg
         /\ StartSetEnabled(c) => \E kind \in {"enable", "disable"}, x \in CallRecords :
              Starts(c, x) /\ Fresh(x, kind, "switch", registry.org) /\ registry.org # NoOrg
         /\ StartRemove(c) => \E o \in Orgs, x \in CallRecords :
              /\ Starts(c, x) /\ Fresh(x, "remove", "revoke", o)
              /\ registry.state # "none" => registry.org = o
<1>1. registry.versions \in Names /\ registry.org \in Orgs \union {NoOrg}
  BY DEF RegistryOK, RegistryRecords
<1>2. ASSUME Reserve(c)
      PROVE  \E o \in Orgs, x \in CallRecords :
              /\ Starts(c, x) /\ Fresh(x, "provision", "create", o)
              /\ registry.state = "none" \/ (registry.state = "failed" /\ registry.org = o)
              /\ registry' = [Unregistered EXCEPT !.state = "provisioning", !.org = o,
                                                  !.reservation = c]
  <2>1. PICK o \in Orgs :
              /\ registry.state = "none" \/ (registry.state = "failed" /\ registry.org = o)
              /\ Starts(c, NewProvision(o, registry.state # "none"))
              /\ registry' = [Unregistered EXCEPT !.state = "provisioning", !.org = o,
                                                  !.reservation = c]
    BY <1>2, Zenon DEF Reserve, NewProvision
  <2>2. Fresh(NewProvision(o, registry.state # "none"), "provision", "create", o)
    BY NewRecords
  <2> QED BY <2>1, <2>2, Zenon DEF Fresh
<1>3. ASSUME StartRotate(c)
      PROVE  \E x \in CallRecords :
              Starts(c, x) /\ Fresh(x, "rotate", "version", NoOrg) /\ registry.known /\ registry.org # NoOrg
  <2>1. Starts(c, NewRotate(registry.versions)) /\ registry.known /\ registry.org # NoOrg
    BY <1>3, Zenon DEF StartRotate, NewRotate
  <2> QED BY <1>1, <2>1, NewRecords DEF Fresh
<1>4. ASSUME StartSetEnabled(c)
      PROVE  \E kind \in {"enable", "disable"}, x \in CallRecords :
              Starts(c, x) /\ Fresh(x, kind, "switch", registry.org) /\ registry.org # NoOrg
  <2>1. PICK kind \in {"enable", "disable"} :
          Starts(c, NewSwitch(kind, registry.org)) /\ registry.org # NoOrg
    BY <1>4, Zenon DEF StartSetEnabled, NewSwitch
  <2>2. Fresh(NewSwitch(kind, registry.org), kind, "switch", registry.org)
    BY <1>1, NewRecords
  <2> QED BY <2>1, <2>2, Zenon DEF Fresh
<1>5. ASSUME StartRemove(c)
      PROVE  \E o \in Orgs, x \in CallRecords :
              /\ Starts(c, x) /\ Fresh(x, "remove", "revoke", o)
              /\ registry.state # "none" => registry.org = o
  <2>1. PICK o \in Orgs : Starts(c, NewRemove(o)) /\ (registry.state # "none" => registry.org = o)
    BY <1>5, Zenon DEF StartRemove, NewRemove
  <2>2. Fresh(NewRemove(o), "remove", "revoke", o)
    BY NewRecords
  <2> QED BY <2>1, <2>2, Zenon DEF Fresh
<1> QED BY <1>2, <1>3, <1>4, <1>5

LEMMA ClockStep == General /\ [Next]_vars => ClockOK' /\ now' >= now /\ now' <= now + 1
<1> SUFFICES ASSUME General, [Next]_vars PROVE ClockOK' /\ now' >= now /\ now' <= now + 1
  OBVIOUS
<1>1. now \in 0..MaxTime /\ calls \in 0..MaxCalls /\ faults \in 0..MaxFaults /\ crossed \in BOOLEAN
  BY DEF General, ClockOK
<1>2. now' \in 0..MaxTime /\ now' >= now /\ now' <= now + 1
  BY <1>1, ClockChanges, Bounds DEF Tick
<1>3. UNCHANGED <<calls, crossed>> \/ \E c \in Calls, x \in CallRecords : Starts(c, x)
  <2>1. UNCHANGED <<calls, crossed>>
        \/ \E c \in Calls : Reserve(c) \/ StartRotate(c) \/ StartSetEnabled(c) \/ StartRemove(c)
    BY DEF Next, Step, vars, Tick, CreateSecret, AddVersion, Activate, MarkFailed,
       PublishRotated, SetEnabled, Revoke, DeleteSecret,
       DeleteDocuments, Unregister, ProvisionCallFails, Dies, Receive, GetSecrets, Refuse, Admit
  <2> QED BY <2>1, Begins DEF General
<1>4. faults' = faults \/ (faults < MaxFaults /\ faults' = faults + 1)
  BY DEF Next, Step, vars, Tick, Reserve, CreateSecret, AddVersion, Activate, MarkFailed, StartRotate,
       PublishRotated, StartSetEnabled, SetEnabled, StartRemove, Revoke, DeleteSecret,
       DeleteDocuments, Unregister, ProvisionCallFails, Dies, Receive, GetSecrets, Refuse, Admit
<1>5. crossed' \in BOOLEAN /\ calls' \in 0..MaxCalls
  <2>1. ASSUME NEW c \in Calls, NEW x \in CallRecords, Starts(c, x)
        PROVE  crossed' \in BOOLEAN /\ calls < MaxCalls /\ calls' = calls + 1
    BY <2>1, Zenon DEF Starts
  <2> QED BY <1>1, <1>3, <2>1, Bounds
<1> QED BY <1>1, <1>2, <1>4, <1>5, Bounds DEF ClockOK

LEMMA UnregisteredIsRecord ==
  /\ Unregistered \in RegistryRecords /\ Unregistered.versions = <<>> /\ Len(<<>>) = 0
  /\ Unregistered.state = "none" /\ Unregistered.org = NoOrg /\ ~Unregistered.known
<1>1. <<>> \in Names
  BY DEF Names
<1> QED BY <1>1 DEF Unregistered, RegistryRecords, States

LEMMA RegistryStep == General /\ [Next]_vars => RegistryOK'
<1> SUFFICES ASSUME General, [Next]_vars PROVE RegistryOK'
  OBVIOUS
<1>1. RegistryOK /\ registry \in RegistryRecords /\ now \in Nat /\ now <= MaxTime /\ CallOK
  BY Bounds DEF General, RegistryOK, ClockOK
<1>2. CASE registry' = registry
  BY <1>1, <1>2 DEF RegistryOK
<1>3. ASSUME NEW c \in Calls, Reserve(c) PROVE RegistryOK'
  <2>1. PICK o \in Orgs : registry' = [Unregistered EXCEPT !.state = "provisioning", !.org = o,
                                                           !.reservation = c]
    BY <1>3 DEF Reserve
  <2>2. Unregistered \in RegistryRecords /\ Unregistered.versions = <<>> /\ Len(<<>>) = 0
    BY UnregisteredIsRecord
  <2>3. registry' \in RegistryRecords
    BY <2>1, <2>2 DEF RegistryRecords, States
  <2>4. registry'.state = "provisioning" /\ registry'.versions = <<>>
    BY <2>1, <2>2 DEF RegistryRecords
  <2> QED BY <2>2, <2>3, <2>4 DEF RegistryOK
<1>4. ASSUME NEW c \in Calls, Activate(c) PROVE RegistryOK'
  <2>1. call[c] \in CallRecords /\ call[c].pc = "publish" /\ HasKey(call[c])
    BY <1>1, <1>4 DEF CallOK, Activate
  <2>2. <<call[c].name>> \in Names /\ Len(<<call[c].name>>) = 1
    BY <2>1 DEF HasKey, Names
  <2>3. CASE registry' = [registry EXCEPT !.state = "active", !.enabled = TRUE, !.known = TRUE,
                                          !.versions = <<call[c].name>>, !.reservation = NoOrg]
    <3>1. registry' \in RegistryRecords
      BY <1>1, <2>2, <2>3 DEF RegistryRecords, States
    <3>2. registry'.versions = <<call[c].name>> /\ registry'.state = "active"
      BY <1>1, <2>3 DEF RegistryRecords
    <3> QED BY <3>1, <3>2, <2>2 DEF RegistryOK
  <2> QED BY <1>2, <1>4, <2>3 DEF Activate
<1>5. ASSUME NEW c \in Calls, MarkFailed(c) PROVE RegistryOK'
  <2>1. registry' = [registry EXCEPT !.state = "failed", !.enabled = FALSE]
    BY <1>5 DEF MarkFailed
  <2>2. registry' \in RegistryRecords /\ registry'.versions = registry.versions /\ registry'.state = "failed"
        /\ registry'.grace = registry.grace
    BY <1>1, <2>1 DEF RegistryRecords, States
  <2> QED BY <1>1, <2>2 DEF RegistryOK
<1>6. ASSUME NEW c \in Calls, PublishRotated(c) PROVE RegistryOK'
  <2>1. call[c] \in CallRecords /\ call[c].pc = "publish" /\ HasKey(call[c])
    BY <1>1, <1>6 DEF CallOK, PublishRotated
  <2>2. call[c].name \in Keys /\ call[c].versions \in Seq(Keys)
    BY <2>1 DEF HasKey, CallRecords, Names
  <2>3. NewVersions(c) \in Names /\ Len(NewVersions(c)) <= 2
    <3>1. CASE call[c].versions = <<>>
      <4>1. SubSeq(call[c].versions, 1, 0) = <<>>
        BY <2>2
      <4>2. NewVersions(c) = <<call[c].name>> \o <<>>
        BY <3>1, <4>1 DEF NewVersions
      <4> QED BY <2>2, <4>2 DEF Names
    <3>2. CASE call[c].versions # <<>>
      <4>1. NewVersions(c) = <<call[c].name>> \o SubSeq(call[c].versions, 1, 1)
        BY <3>2 DEF NewVersions
      <4>2. Len(call[c].versions) >= 1 /\ Len(call[c].versions) \in Nat
        BY <2>2, <3>2
      <4>3. SubSeq(call[c].versions, 1, 1) \in Seq(Keys) /\ Len(SubSeq(call[c].versions, 1, 1)) = 1
        BY <2>2, <4>2
      <4> QED BY <2>2, <4>1, <4>3 DEF Names
    <3> QED BY <3>1, <3>2
  <2>4. now + GraceTime \in 0..(MaxTime + GraceTime) /\ now + GraceTime # NoGrace
    BY <1>1, Bounds DEF NoGrace
  <2>5. CASE registry.state # "none" /\ registry' = [registry EXCEPT !.versions = NewVersions(c),
                                                                    !.grace = now + GraceTime]
    <3>1. registry' \in RegistryRecords
      BY <1>1, <2>3, <2>4, <2>5 DEF RegistryRecords
    <3>2. registry'.versions = NewVersions(c) /\ registry'.grace = now + GraceTime
          /\ registry'.state = registry.state
      BY <1>1, <2>5 DEF RegistryRecords
    <3>3. registry'.state # "none" /\ registry'.grace # NoGrace
      BY <3>2, <2>4, <2>5
    <3>4. Len(registry'.versions) <= 2
      BY <2>3, <3>2
    <3> QED BY <3>1, <3>3, <3>4 DEF RegistryOK
  <2> QED BY <1>2, <1>6, <2>5 DEF PublishRotated
<1>7. ASSUME NEW c \in Calls, SetEnabled(c) PROVE RegistryOK'
  <2>1. CASE registry.state # "none" /\ registry' = [registry EXCEPT !.enabled = (call[c].kind = "enable")]
    <3>1. registry' \in RegistryRecords /\ registry'.versions = registry.versions
          /\ registry'.grace = registry.grace /\ registry'.state = registry.state
      BY <1>1, <2>1 DEF RegistryRecords
    <3> QED BY <1>1, <2>1, <3>1 DEF RegistryOK
  <2> QED BY <1>2, <1>7, <2>1 DEF SetEnabled
<1>8. ASSUME NEW c \in Calls, Revoke(c) PROVE RegistryOK'
  <2>1. CASE registry' = [registry EXCEPT !.state = "deleting", !.enabled = FALSE, !.org = call[c].org]
    <3>1. call[c].org \in Orgs \union {NoOrg}
      BY <1>1 DEF CallOK, CallRecords
    <3>2. registry' \in RegistryRecords /\ registry'.versions = registry.versions
          /\ registry'.grace = registry.grace /\ registry'.state = "deleting"
      BY <1>1, <2>1, <3>1 DEF RegistryRecords, States
    <3> QED BY <1>1, <3>2 DEF RegistryOK
  <2> QED BY <1>2, <1>8, <2>1 DEF Revoke
<1>9. ASSUME NEW c \in Calls, Unregister(c) PROVE RegistryOK'
  <2>1. registry' = Unregistered
    BY <1>9 DEF Unregister
  <2> QED BY <2>1, UnregisteredIsRecord DEF RegistryOK
<1> QED BY <1>2, <1>3, <1>4, <1>5, <1>6, <1>7, <1>8, <1>9, RegistryChanges

LEMMA DocumentStep == General /\ [Next]_vars => DocumentOK'
<1> SUFFICES ASSUME General, [Next]_vars PROVE DocumentOK'
  OBVIOUS
<1>1. DocumentOK
  BY DEF General
<1>2. CASE document' = document
  BY <1>1, <1>2 DEF DocumentOK
<1>3. ASSUME NEW c \in Calls, Activate(c) \/ SetEnabled(c) \/ Revoke(c) \/ DeleteDocuments(c)
      PROVE  DocumentOK'
  BY <1>1, <1>3 DEF DocumentOK, Activate, SetEnabled, Revoke, DeleteDocuments
<1>4. ASSUME NEW r \in Requests, NEW k \in Keys, Admit(r, k) PROVE DocumentOK'
  BY <1>1, <1>4 DEF DocumentOK, Admit
<1> QED BY <1>2, <1>3, <1>4, DocumentChanges

LEMMA SecretStep == General /\ [Next]_vars => SecretOK' /\ made' >= made
<1> SUFFICES ASSUME General, [Next]_vars PROVE SecretOK' /\ made' >= made
  OBVIOUS
<1>1. SecretOK /\ made \in Nat /\ made <= MaxKeys /\ (secret # NoSecret => secret \in Seq(Keys) /\ Len(secret) <= made)
  BY Bounds DEF General, SecretOK, Names
<1>2. CASE UNCHANGED <<secret, made>>
  BY <1>1, <1>2 DEF SecretOK
<1>3. ASSUME NEW c \in Calls, CreateSecret(c) PROVE SecretOK' /\ made' = made
  <2>1. made' = made /\ (secret' = <<>> \/ secret' = secret)
    BY <1>3 DEF CreateSecret
  <2>2. <<>> \in Names /\ Len(<<>>) = 0
    BY DEF Names
  <2> QED BY <1>1, <2>1, <2>2 DEF SecretOK
<1>4. ASSUME NEW c \in Calls, AddVersion(c) PROVE SecretOK' /\ made' >= made
  <2>1. CASE secret # NoSecret /\ made < MaxKeys /\ made' = made + 1 /\ secret' = Append(secret, made + 1)
    <3>1. made + 1 \in Keys
      BY <1>1, <2>1, Bounds DEF Keys
    <3>2. secret' \in Seq(Keys) /\ Len(secret') = Len(secret) + 1 /\ Len(secret) \in Nat
      BY <1>1, <2>1, <3>1
    <3> QED BY <1>1, <2>1, <3>1, <3>2 DEF SecretOK, Names, Keys
  <2> QED BY <1>1, <1>2, <1>4, <2>1 DEF AddVersion
<1>5. ASSUME NEW c \in Calls, DeleteSecret(c) PROVE SecretOK' /\ made' = made
  BY <1>1, <1>5 DEF DeleteSecret, SecretOK
<1> QED BY <1>1, <1>2, <1>3, <1>4, <1>5, SecretChanges

LEMMA CallStep == General /\ [Next]_vars => CallOK'
<1> SUFFICES ASSUME General, [Next]_vars PROVE CallOK'
  OBVIOUS
<1>1. CallOK /\ made \in Nat /\ made' \in Nat /\ made <= made' /\ made <= MaxKeys /\ registry \in RegistryRecords
      /\ (secret # NoSecret => secret \in Seq(Keys) /\ Len(secret) <= made)
  BY SecretStep, Bounds DEF General, SecretOK, RegistryOK, Names
<1>2. CASE call' = call
  <2>1. ASSUME NEW d \in Calls PROVE HasKey(call[d])'
    <3>1. call[d].key \in Nat /\ HasKey(call[d])
      BY <1>1, Bounds DEF CallOK, CallRecords
    <3> QED BY <1>1, <1>2, <3>1 DEF HasKey
  <2> QED BY <1>1, <1>2, <2>1 DEF CallOK
<1>3. ASSUME NEW c \in Calls, Ends(c) PROVE CallOK'
  BY <1>1, <1>3, CallMoves, IdleIsRecord DEF Ends
<1>4. ASSUME NEW c \in Calls, NEW pc \in CallPoints, pc # "publish", Goes(c, pc),
             PhaseOK([call[c] EXCEPT !.pc = pc])
      PROVE  CallOK'
  <2> DEFINE x == [call[c] EXCEPT !.pc = pc]
  <2>1. x \in CallRecords /\ x.pc = pc /\ call' = [call EXCEPT ![c] = x]
    BY <1>1, <1>4, CallAfter
  <2> HIDE DEF x
  <2> QED BY <1>1, <1>4, <2>1, CallMoves DEF x
<1>5. ASSUME NEW c \in Calls, Reserve(c) \/ StartRotate(c) \/ StartSetEnabled(c) \/ StartRemove(c)
      PROVE  CallOK'
  <2>1. PICK x \in CallRecords : Starts(c, x) /\ PhaseOK(x) /\ x.pc # "publish"
    BY <1>1, <1>5, Begins DEF Fresh, General
  <2>2. call' = [call EXCEPT ![c] = x]
    BY <2>1 DEF Starts
  <2> QED BY <1>1, <2>1, <2>2, CallMoves
<1>6. ASSUME NEW c \in Calls, CreateSecret(c) PROVE CallOK'
  <2>1. call[c].kind = "provision" /\ call[c] \in CallRecords
    BY <1>1, <1>6 DEF CreateSecret, CallOK, PhaseOK
  <2>2. \E pc \in {"version", "cleanup"} : Goes(c, pc)
    BY <1>6 DEF CreateSecret
  <2>3. \A pc \in {"version", "cleanup"} : PhaseOK([call[c] EXCEPT !.pc = pc])
    BY <1>1, <2>1, CallAfter DEF PhaseOK
  <2> QED BY <1>4, <2>2, <2>3 DEF CallPoints
<1>7. ASSUME NEW c \in Calls, AddVersion(c) PROVE CallOK'
  <2>1. call[c].kind \in {"provision", "rotate"} /\ call[c] \in CallRecords
    BY <1>1, <1>7 DEF AddVersion, CallOK, PhaseOK
  <2>2. CASE secret = NoSecret
    <3>1. CASE call[c].kind = "provision"
      <4>1. Goes(c, "cleanup")
        BY <1>7, <2>2, <3>1 DEF AddVersion, Goes
      <4>2. PhaseOK([call[c] EXCEPT !.pc = "cleanup"])
        BY <1>1, <3>1, CallAfter DEF PhaseOK
      <4> QED BY <1>4, <4>1, <4>2 DEF CallPoints
    <3>2. CASE call[c].kind # "provision"
      BY <1>3, <1>7, <2>2, <3>2 DEF AddVersion, Ends
    <3> QED BY <3>1, <3>2
  <2>3. CASE secret # NoSecret
    <3> DEFINE x == [call[c] EXCEPT !.pc = "publish", !.key = made + 1, !.name = Len(secret) + 1]
    <3>1. call' = [call EXCEPT ![c] = x] /\ made' = made + 1 /\ made < MaxKeys
      BY <1>7, <2>3 DEF AddVersion
    <3>2. made + 1 \in Keys /\ Len(secret) + 1 \in Keys
      BY <1>1, <2>3, <3>1, Bounds DEF Keys
    <3>3. made + 1 \in 0..MaxKeys /\ Len(secret) + 1 \in 0..MaxKeys
      BY <3>2, Bounds DEF Keys
    <3>4. x \in CallRecords /\ x.pc = "publish" /\ x.kind = call[c].kind /\ x.key = made + 1
          /\ x.name = Len(secret) + 1
      BY <2>1, <3>3 DEF CallRecords, CallPoints
    <3>5. PhaseOK(x)
      BY <2>1, <3>4 DEF PhaseOK
    <3>6. x.name \in Keys /\ x.key \in Keys /\ x.key <= made'
      BY <1>1, <3>1, <3>2, <3>4
    <3> HIDE DEF x
    <3> QED BY <1>1, <3>1, <3>4, <3>5, <3>6, CallMoves
  <2> QED BY <2>2, <2>3
<1>8. ASSUME NEW c \in Calls, Activate(c) PROVE CallOK'
  <2>1. Ends(c) \/ Goes(c, "cleanup")
    BY <1>8 DEF Activate
  <2>2. PhaseOK([call[c] EXCEPT !.pc = "cleanup"])
    BY <1>1, <1>8, CallAfter DEF PhaseOK, Activate
  <2> QED BY <1>3, <1>4, <2>1, <2>2 DEF CallPoints
<1>9. ASSUME NEW c \in Calls, MarkFailed(c) \/ PublishRotated(c) \/ SetEnabled(c) \/ Unregister(c) \/ Dies(c)
      PROVE  CallOK'
  BY <1>3, <1>9 DEF MarkFailed, PublishRotated, SetEnabled, Unregister, Dies
<1>10. ASSUME NEW c \in Calls, Revoke(c) PROVE CallOK'
  <2>1. call[c].kind = "remove" /\ call[c] \in CallRecords
    BY <1>1, <1>10 DEF Revoke, CallOK, PhaseOK
  <2>2. CASE \E pc \in {"deleteSecret", "deleteDocuments"} :
               call' = [call EXCEPT ![c] = [call[c] EXCEPT !.known = registry.known, !.pc = pc]]
    <3>1. PICK pc \in {"deleteSecret", "deleteDocuments"} :
               call' = [call EXCEPT ![c] = [call[c] EXCEPT !.known = registry.known, !.pc = pc]]
      BY <2>2
    <3> DEFINE x == [call[c] EXCEPT !.known = registry.known, !.pc = pc]
    <3>2. registry.known \in BOOLEAN
      BY <1>1 DEF RegistryRecords
    <3>3. x \in CallRecords /\ x.pc = pc /\ x.kind = "remove"
      BY <2>1, <3>2 DEF CallRecords, CallPoints
    <3>4. PhaseOK(x)
      BY <3>1, <3>3 DEF PhaseOK
    <3> HIDE DEF x
    <3> QED BY <1>1, <3>1, <3>3, <3>4, CallMoves DEF x
  <2>3. CASE Ends(c)
    BY <1>3, <2>3
  <2> QED
    <3>1. Ends(c) \/ call' = [call EXCEPT ![c] = [call[c] EXCEPT !.known = registry.known,
                  !.pc = IF registry.known THEN "deleteSecret" ELSE "deleteDocuments"]]
      BY <1>10 DEF Revoke
    <3> QED BY <2>2, <2>3, <3>1
<1>11. ASSUME NEW c \in Calls, DeleteSecret(c) \/ DeleteDocuments(c) PROVE CallOK'
  <2>1. \E pc \in {"deleteDocuments", "unregister"} : Goes(c, pc)
    BY <1>11 DEF DeleteSecret, DeleteDocuments
  <2>2. \A pc \in {"deleteDocuments", "unregister"} : PhaseOK([call[c] EXCEPT !.pc = pc])
    <3>1. call[c].kind = "remove"
      BY <1>1, <1>11 DEF DeleteSecret, DeleteDocuments, CallOK, PhaseOK
    <3> QED BY <1>1, <3>1, CallAfter DEF PhaseOK
  <2> QED BY <1>4, <2>1, <2>2 DEF CallPoints
<1>12. ASSUME NEW c \in Calls, ProvisionCallFails(c) PROVE CallOK'
  <2>1. PhaseOK([call[c] EXCEPT !.pc = "cleanup"])
    BY <1>1, <1>12, CallAfter DEF PhaseOK, ProvisionCallFails
  <2> QED BY <1>4, <1>12, <2>1 DEF CallPoints, ProvisionCallFails
<1> QED BY <1>2, <1>5, <1>6, <1>7, <1>8, <1>9, <1>10, <1>11, <1>12, CallChanges

-----------------------------------------------------------------------------
(* Requests, the cache and the keys handed out. *)

(* A request reads the newest version, and the one before it within its    *)
(* grace.                                                                  *)
LEMMA ActiveAreListed ==
  ASSUME RegistryOK, ClockOK
  PROVE  /\ ActiveVersions \in Names
         /\ \A i \in DOMAIN ActiveVersions :
              /\ i \in DOMAIN registry.versions /\ ActiveVersions[i] = registry.versions[i]
              /\ i = 1 \/ (i = 2 /\ now <= registry.grace)
<1> DEFINE limit == IF registry.grace # NoGrace /\ registry.grace < now THEN 1 ELSE 2
           upto == IF Len(registry.versions) < limit THEN Len(registry.versions) ELSE limit
<1>1. registry.versions \in Seq(Keys) /\ now \in Nat /\ registry.grace \in Int
      /\ Len(registry.versions) \in Nat /\ Len(registry.versions) <= 2
      /\ (Len(registry.versions) = 2 => registry.grace # NoGrace)
  BY Bounds DEF RegistryOK, RegistryRecords, Names, ClockOK, NoGrace
<1>2. upto \in 0..Len(registry.versions) /\ upto <= 2 /\ (upto = 2 => now <= registry.grace)
  <2> DEFINE len == Len(registry.versions)
             grace == registry.grace
  <2>1. len \in Nat /\ len <= 2 /\ (len = 2 => grace # NoGrace) /\ grace \in Int /\ now \in Nat
    BY <1>1
  <2>2. upto = IF len < (IF grace # NoGrace /\ grace < now THEN 1 ELSE 2) THEN len
               ELSE IF grace # NoGrace /\ grace < now THEN 1 ELSE 2
    OBVIOUS
  <2> HIDE DEF len, grace, upto
  <2>3. upto \in 0..len /\ upto <= 2 /\ (upto = 2 => now <= grace)
    BY <2>1, <2>2
  <2> QED BY <2>3 DEF len, grace
<1>3. ActiveVersions = SubSeq(registry.versions, 1, upto)
  BY DEF ActiveVersions
<1> HIDE DEF upto
<1>4. ActiveVersions \in Seq(Keys) /\ Len(ActiveVersions) = upto
      /\ \A i \in 1..upto : ActiveVersions[i] = registry.versions[i]
  BY <1>1, <1>2, <1>3
<1>5. DOMAIN ActiveVersions = 1..upto /\ DOMAIN registry.versions = 1..Len(registry.versions)
  BY <1>1, <1>4
<1>6. ASSUME NEW i \in 1..upto
      PROVE  i \in 1..Len(registry.versions) /\ (i = 1 \/ (i = 2 /\ now <= registry.grace))
  BY <1>1, <1>2
<1> QED BY <1>4, <1>5, <1>6 DEF Names

LEMMA HandedKeysTyped == HandedOK /\ made \in 0..MaxKeys => HandedKeys \subseteq Keys /\ \A k \in HandedKeys : k <= made
<1> SUFFICES ASSUME HandedOK, made \in 0..MaxKeys, NEW i \in DOMAIN handed
             PROVE  handed[i].key \in Keys /\ handed[i].key <= made
  BY DEF HandedKeys
<1>1. handed[i] \in HandedRecords
  BY DEF HandedOK
<1> QED BY <1>1 DEF HandedOK, HandedRecords

LEMMA WaitingIsRecord ==
  Waiting \in RequestRecords /\ DOMAIN Waiting.fetched = {} /\ Waiting.pc = "idle"
<1>1. <<>> \in Names /\ <<>> \in Seq(Fetches) /\ DOMAIN <<>> = {}
  BY DEF Names
<1>2. Waiting \in RequestRecords
  BY <1>1 DEF Waiting, RequestRecords
<1> QED BY <1>1, <1>2 DEF Waiting

LEMMA RequestMoves ==
  ASSUME RequestOK, NEW r \in Requests, NEW x \in RequestRecords,
         DOMAIN x.fetched = IF x.pc = "check" THEN DOMAIN x.names ELSE {},
         request' = [request EXCEPT ![r] = x]
  PROVE  RequestOK' /\ request'[r] = x /\ \A s \in Requests : s # r => request'[s] = request[s]
<1>1. request \in [Requests -> RequestRecords]
  BY DEF RequestOK
<1>2. request' \in [Requests -> RequestRecords] /\ request'[r] = x
      /\ \A s \in Requests : s # r => request'[s] = request[s]
  BY <1>1
<1>3. ASSUME NEW s \in Requests
      PROVE  DOMAIN request'[s].fetched = IF request'[s].pc = "check" THEN DOMAIN request'[s].names ELSE {}
  BY <1>2 DEF RequestOK
<1> QED BY <1>2, <1>3 DEF RequestOK

(* What getDevice, getSecrets and the end of a request leave in it. *)
Received == [pc |-> "secrets", names |-> ActiveVersions, since |-> now,
             signers |-> HandedKeys, org |-> registry.org, fetched |-> <<>>]
Fetch(n) == IF Cached(n) THEN [key |-> cache[n].key, hit |-> TRUE]
                         ELSE [key |-> secret[n], hit |-> FALSE]
Answered(r) == [request[r] EXCEPT !.pc = "check",
                  !.fetched = [i \in DOMAIN request[r].names |-> Fetch(request[r].names[i])]]

LEMMA ReceivedIsRecord ==
  General => Received \in RequestRecords /\ DOMAIN Received.fetched = {}
<1> SUFFICES ASSUME General PROVE Received \in RequestRecords /\ DOMAIN Received.fetched = {}
  OBVIOUS
<1>1. ActiveVersions \in Names /\ HandedKeys \subseteq Keys
  BY ActiveAreListed, HandedKeysTyped DEF General, SecretOK
<1>2. now \in Nat /\ registry.org \in Orgs \union {NoOrg}
  BY Bounds DEF General, ClockOK, RegistryOK, RegistryRecords
<1>3. <<>> \in Seq(Fetches) /\ DOMAIN <<>> = {}
  OBVIOUS
<1>4. Received.fetched = <<>>
  BY DEF Received
<1>5. Received \in RequestRecords
  BY <1>1, <1>2, <1>3 DEF Received, RequestRecords
<1> QED BY <1>3, <1>4, <1>5

LEMMA FetchTyped ==
  ASSUME General, NEW n \in Keys, Cached(n) \/ Resolves(n)
  PROVE  Fetch(n) \in Fetches
<1>1. Cached(n) => cache[n].key \in 0..MaxKeys
  BY DEF General, CacheOK, CacheRecords
<1>2. Resolves(n) => secret[n] \in 0..MaxKeys
  <2> SUFFICES ASSUME Resolves(n) PROVE secret[n] \in 0..MaxKeys
    OBVIOUS
  <2>1. secret \in Seq(Keys) /\ n \in DOMAIN secret
    BY DEF Resolves, General, SecretOK, Names
  <2>2. secret[n] \in Keys
    BY <2>1
  <2> QED BY <2>2, Bounds DEF Keys
<1> QED BY <1>1, <1>2 DEF Fetch, Fetches

LEMMA AnsweredIsRecord ==
  ASSUME General, NEW r \in Requests,
         \A n \in ToSet(request[r].names) : Cached(n) \/ Resolves(n)
  PROVE  /\ Answered(r) \in RequestRecords
         /\ DOMAIN Answered(r).fetched = DOMAIN request[r].names
         /\ Answered(r).names = request[r].names /\ Answered(r).pc = "check"
         /\ Answered(r).since = request[r].since /\ Answered(r).signers = request[r].signers
         /\ \A i \in DOMAIN request[r].names : Answered(r).fetched[i] = Fetch(request[r].names[i])
<1> DEFINE f == [i \in DOMAIN request[r].names |-> Fetch(request[r].names[i])]
<1>1. request[r] \in RequestRecords /\ request[r].names \in Seq(Keys)
  BY DEF General, RequestOK, RequestRecords, Names
<1>2. ASSUME NEW i \in DOMAIN request[r].names PROVE Fetch(request[r].names[i]) \in Fetches
  <2>1. request[r].names[i] \in Keys /\ request[r].names[i] \in ToSet(request[r].names)
    BY <1>1 DEF ToSet
  <2> QED BY <2>1, FetchTyped
<1>3. DOMAIN request[r].names = 1..Len(request[r].names) /\ Len(request[r].names) \in Nat
  BY <1>1
<1>4. f \in [1..Len(request[r].names) -> Fetches]
  BY <1>2, <1>3
<1>5. f \in Seq(Fetches)
  BY <1>3, <1>4
<1>6. Answered(r) = [request[r] EXCEPT !.pc = "check", !.fetched = f]
  BY DEF Answered
<1>7. DOMAIN f = DOMAIN request[r].names /\ \A i \in DOMAIN request[r].names : f[i] = Fetch(request[r].names[i])
  OBVIOUS
<1> HIDE DEF f
<1>8. /\ Answered(r) \in RequestRecords /\ Answered(r).fetched = f
      /\ Answered(r).names = request[r].names /\ Answered(r).pc = "check"
      /\ Answered(r).since = request[r].since /\ Answered(r).signers = request[r].signers
  BY <1>1, <1>5, <1>6 DEF RequestRecords
<1> QED BY <1>7, <1>8

LEMMA RequestMovesTo ==
  ASSUME General, NEW r \in Requests
  PROVE  /\ Receive(r) => request' = [request EXCEPT ![r] = Received]
         /\ GetSecrets(r) =>
              \/ request' = [request EXCEPT ![r] = Waiting]
              \/ /\ request' = [request EXCEPT ![r] = Answered(r)]
                 /\ \A n \in ToSet(request[r].names) : Cached(n) \/ Resolves(n)
<1>1. Receive(r) => request' = [request EXCEPT ![r] = Received]
  BY DEF Receive, Received
<1>2. ASSUME GetSecrets(r), \A n \in ToSet(request[r].names) : Cached(n) \/ Resolves(n)
      PROVE  request' = [request EXCEPT ![r] = Answered(r)]
  <2>1. request \in [Requests -> RequestRecords]
    BY DEF General, RequestOK
  <2> QED BY <1>2, <2>1 DEF GetSecrets, Answered, Fetch
<1> QED BY <1>1, <1>2 DEF GetSecrets

LEMMA RequestStep == General /\ [Next]_vars => RequestOK'
<1> SUFFICES ASSUME General, [Next]_vars PROVE RequestOK'
  OBVIOUS
<1>1. RequestOK
  BY DEF General
<1>2. CASE request' = request
  BY <1>1, <1>2 DEF RequestOK
<1>3. ASSUME NEW r \in Requests, request' = [request EXCEPT ![r] = Waiting] PROVE RequestOK'
  BY <1>1, <1>3, RequestMoves, WaitingIsRecord
<1>4. ASSUME NEW r \in Requests, Receive(r) PROVE RequestOK'
  <2>1. Received.pc = "secrets"
    BY DEF Received
  <2> QED BY <1>1, <1>4, <2>1, RequestMoves, ReceivedIsRecord, RequestMovesTo
<1>5. ASSUME NEW r \in Requests, GetSecrets(r) PROVE RequestOK'
  BY <1>1, <1>3, <1>5, RequestMoves, RequestMovesTo, AnsweredIsRecord
<1>6. ASSUME NEW r \in Requests, Refuse(r) \/ \E k \in Keys : Admit(r, k) PROVE RequestOK'
  BY <1>3, <1>6 DEF Refuse, Admit
<1> QED BY <1>2, <1>4, <1>5, <1>6, RequestChanges

(* What an ending request leaves in the cache. *)
LEMMA CacheAfterLoad ==
  ASSUME General, NEW r \in Requests, request[r].pc = "check", CacheLoaded(r), NEW n \in Keys
  PROVE  \/ cache'[n] = cache[n]
         \/ \E i \in DOMAIN request[r].fetched :
              /\ ~request[r].fetched[i].hit
              /\ cache'[n] = [key |-> request[r].fetched[i].key, expires |-> now + CacheTime]
<1> DEFINE loads == {i \in DOMAIN request[r].names :
                       request[r].names[i] = n /\ ~request[r].fetched[i].hit}
<1>1. cache'[n] = IF loads = {} THEN cache[n]
                  ELSE [key |-> request[r].fetched[CHOOSE i \in loads : TRUE].key,
                        expires |-> now + CacheTime]
  BY DEF CacheLoaded
<1>2. DOMAIN request[r].fetched = DOMAIN request[r].names
  BY DEF General, RequestOK
<1>3. CASE loads # {}
  <2>1. (CHOOSE i \in loads : TRUE) \in loads
    BY <1>3
  <2>2. PICK i \in loads : cache'[n] = [key |-> request[r].fetched[i].key, expires |-> now + CacheTime]
    BY <1>1, <1>3, <2>1
  <2> QED BY <1>2, <2>2
<1> QED BY <1>1, <1>3

LEMMA CacheStep == General /\ [Next]_vars => CacheOK'
<1> SUFFICES ASSUME General, [Next]_vars PROVE CacheOK'
  OBVIOUS
<1>1. CacheOK /\ now \in 0..MaxTime
  BY DEF General, ClockOK
<1>2. CASE cache' = cache
  BY <1>1, <1>2 DEF CacheOK
<1>3. ASSUME NEW r \in Requests, request[r].pc = "check", CacheLoaded(r) PROVE CacheOK'
  <2>1. ASSUME NEW n \in Keys PROVE cache'[n] \in CacheRecords
    <3>1. CASE cache'[n] = cache[n]
      BY <1>1, <3>1 DEF CacheOK
    <3>2. ASSUME NEW i \in DOMAIN request[r].fetched,
                 cache'[n] = [key |-> request[r].fetched[i].key, expires |-> now + CacheTime]
          PROVE  cache'[n] \in CacheRecords
      <4>1. request[r].fetched \in Seq(Fetches)
        BY DEF General, RequestOK, RequestRecords
      <4>2. request[r].fetched[i] \in Fetches
        BY <4>1
      <4>3. request[r].fetched[i].key \in 0..MaxKeys
        BY <4>2 DEF Fetches
      <4>4. now + CacheTime \in 0..(MaxTime + CacheTime)
        BY <1>1, Bounds
      <4> QED BY <3>2, <4>3, <4>4 DEF CacheRecords
    <3> QED BY <1>3, <3>1, <3>2, CacheAfterLoad
  <2>2. \E g : cache' = [n \in Keys |-> g[n]]
    <3>1. cache' = [n \in Keys |-> cache'[n]]
      BY <1>3 DEF CacheLoaded
    <3> QED BY <3>1
  <2> QED BY <2>1, <2>2 DEF CacheOK
<1>4. ASSUME NEW r \in Requests, Receive(r) \/ GetSecrets(r) PROVE cache' = cache
  BY <1>4 DEF Receive, GetSecrets
<1>5. ASSUME NEW r \in Requests, Refuse(r) \/ \E k \in Keys : Admit(r, k) PROVE CacheOK'
  BY <1>3, <1>5 DEF Refuse, Admit
<1> QED BY <1>2, <1>4, <1>5, RequestChanges

(* A key is handed out by the callable that made it valid. *)
HandsOut(c) ==
  /\ call[c].pc = "publish"
  /\ handed' = Append(handed, [name |-> call[c].name, key |-> call[c].key])

LEMMA HandedGrows ==
  ASSUME General, [Next]_vars
  PROVE  handed' = handed \/ \E c \in Calls : HandsOut(c) /\ (Activate(c) \/ PublishRotated(c))
BY HandedChanges DEF HandsOut, Activate, PublishRotated

LEMMA HandsOutKey ==
  ASSUME General, NEW c \in Calls, HandsOut(c)
  PROVE  /\ call[c].name \in Keys /\ call[c].key \in Keys /\ call[c].key <= made
         /\ handed' \in Seq(HandedRecords) /\ handed' # <<>> /\ Last(handed').key = call[c].key
         /\ HandedKeys' = HandedKeys \union {call[c].key}
<1>1. call[c] \in CallRecords /\ HasKey(call[c]) /\ handed \in Seq(HandedRecords)
  BY DEF General, CallOK, HandedOK
<1>2. call[c].name \in Keys /\ call[c].key \in Keys /\ call[c].key <= made
  BY <1>1 DEF HasKey, HandsOut
<1> DEFINE x == [name |-> call[c].name, key |-> call[c].key]
<1>3. x \in HandedRecords /\ x.key = call[c].key
  BY <1>2 DEF HandedRecords
<1>4. handed' = Append(handed, x)
  BY DEF HandsOut
<1> HIDE DEF x
<1>5. /\ handed' \in Seq(HandedRecords) /\ Len(handed') = Len(handed) + 1 /\ Len(handed) \in Nat
      /\ handed'[Len(handed) + 1] = x /\ \A i \in 1..Len(handed) : handed'[i] = handed[i]
  BY <1>1, <1>3, <1>4
<1>6. DOMAIN handed' = 1..(Len(handed) + 1) /\ DOMAIN handed = 1..Len(handed)
  BY <1>1, <1>5
<1>7. HandedKeys' = HandedKeys \union {x.key}
  BY <1>5, <1>6 DEF HandedKeys
<1>8. Last(handed') = x /\ handed' # <<>>
  BY <1>5 DEF Last
<1> QED BY <1>2, <1>3, <1>5, <1>7, <1>8

LEMMA HandedStep == General /\ [Next]_vars => HandedOK'
<1> SUFFICES ASSUME General, [Next]_vars PROVE HandedOK'
  OBVIOUS
<1>1. HandedOK /\ made \in Nat /\ made' \in Nat /\ made <= made'
  BY SecretStep, Bounds DEF General, SecretOK
<1>2. ASSUME NEW k \in HandedKeys PROVE k <= made'
  BY <1>1, <1>2, HandedKeysTyped, Bounds DEF General, SecretOK, Keys
<1>3. CASE handed' = handed
  BY <1>1, <1>2, <1>3 DEF HandedOK, HandedKeys
<1>4. ASSUME NEW c \in Calls, HandsOut(c) PROVE HandedOK'
  <2>1. HandedKeys' = HandedKeys \union {call[c].key} /\ call[c].key \in Nat /\ call[c].key <= made
        /\ handed' \in Seq(HandedRecords)
    BY <1>4, HandsOutKey, Bounds DEF Keys
  <2>2. \A k \in HandedKeys' : k <= made'
    BY <1>1, <1>2, <2>1
  <2> QED BY <2>1, <2>2 DEF HandedOK, HandedKeys
<1> QED BY <1>3, <1>4, HandedGrows

LEMMA LastGoodTyped ==
  ASSUME ClockOK, VouchedOK, NEW k \in Keys
  PROVE  LastGood(k) \in Int /\ Never <= LastGood(k) /\ LastGood(k) <= now
<1>1. now \in Nat /\ vouched[k] \in Never..MaxTime /\ vouched[k] <= now
  BY Bounds DEF ClockOK, VouchedOK
<1> QED BY <1>1, Bounds DEF LastGood

LEMMA VouchedStep == General /\ [Next]_vars => VouchedOK'
<1> SUFFICES ASSUME General, [Next]_vars PROVE VouchedOK'
  OBVIOUS
<1>1. now \in 0..MaxTime /\ now' \in 0..MaxTime /\ now' >= now
  BY ClockStep DEF General, ClockOK
<1>2. CASE UNCHANGED vars
  BY <1>1, <1>2, Bounds DEF vars, General, VouchedOK
<1>3. CASE Vouch
  <2>1. ASSUME NEW k \in Keys
        PROVE  vouched'[k] \in Never..MaxTime /\ vouched'[k] <= now'
    <3>1. vouched'[k] = now \/ vouched'[k] = LastGood(k)
      BY <1>3, Zenon DEF Vouch
    <3>2. LastGood(k) \in Int /\ Never <= LastGood(k) /\ LastGood(k) <= now
      BY LastGoodTyped DEF General
    <3> QED BY <1>1, <3>1, <3>2, Bounds
  <2>2. vouched' = [k \in Keys |-> vouched'[k]]
    BY <1>3 DEF Vouch
  <2> QED BY <2>1, <2>2 DEF VouchedOK
<1> QED BY <1>2, <1>3 DEF Next

LEMMA InitGeneral == Init => General
<1> SUFFICES ASSUME Init PROVE General
  OBVIOUS
<1>1. RegistryOK
  BY UnregisteredIsRecord DEF Init, RegistryOK
<1>2. DocumentOK /\ ClockOK
  <2>1. crossed \in BOOLEAN
    BY Zenon DEF Init
  <2> QED BY <2>1, Bounds DEF Init, DocumentOK, ClockOK
<1>3. SecretOK
  BY Bounds DEF Init, SecretOK
<1>4. CallOK
  BY IdleIsRecord DEF Init, CallOK, HasKey
<1>5. RequestOK
  BY WaitingIsRecord DEF Init, RequestOK
<1>6. CacheOK
  BY Bounds DEF Init, CacheOK, CacheRecords
<1>7. HandedOK
  BY DEF Init, HandedOK
<1>8. VouchedOK
  BY Bounds DEF Init, VouchedOK
<1> QED BY <1>1, <1>2, <1>3, <1>4, <1>5, <1>6, <1>7, <1>8 DEF General

LEMMA NextGeneral == General /\ [Next]_vars => General'
BY ClockStep, RegistryStep, DocumentStep, SecretStep, CallStep, RequestStep, CacheStep,
   HandedStep, VouchedStep DEF General

(* Every store keeps its types, for any organizations, callables, requests *)
(* and bounds; a registration names at most two versions.                  *)
THEOREM RegistryTypes == Spec => []TypeOK
<1>1. Spec => []General
  BY InitGeneral, NextGeneral, PTL DEF Spec
<1> QED BY <1>1, GeneralIsTyped, PTL

-----------------------------------------------------------------------------
(* The order of the callables: while no removal overlaps another callable, *)
(* each finds the registration in a state that it expects.                 *)

Held == {"enabled", "disabled"}

CallOrder(c) ==
  /\ call[c].kind = "provision" =>
       registry.state = "provisioning" /\ registry.reservation = c /\ registry.org = call[c].org
  /\ call[c].kind = "rotate" => registry.known /\ registry.state \in {"active", "deleting"}
  /\ call[c].kind \in {"enable", "disable"} => registry.state # "none" /\ registry.org = call[c].org
  /\ call[c].kind = "remove" =>
       /\ call[c].org \in Orgs
       /\ \A d \in Calls : d # c => call[d].pc = "idle"
       /\ call[c].pc # "revoke" =>
            /\ registry.state = "deleting" /\ registry.org = call[c].org
            /\ call[c].known = registry.known
            /\ call[c].pc = "deleteSecret" => registry.known
            /\ call[c].pc # "deleteSecret" /\ registry.known => secret = NoSecret
            /\ call[c].pc = "unregister" => document[call[c].org] \notin Held

RegistryOrder ==
  /\ registry.state \in {"none", "provisioning", "failed"} => ~registry.known
  /\ registry.state = "active" => registry.known
  /\ registry.state # "none" => registry.org \in Orgs

Orders == RegistryOrder /\ \A c \in Calls : CallOrder(c)

LEMMA CrossedStays ==
  ASSUME General, [Next]_vars, ~crossed'
  PROVE  ~crossed
<1>1. crossed' = crossed \/ \E c \in Calls, x \in CallRecords : Starts(c, x)
  <2>1. crossed' = crossed
        \/ \E c \in Calls : Reserve(c) \/ StartRotate(c) \/ StartSetEnabled(c) \/ StartRemove(c)
    BY DEF Next, Step, vars, Tick, CreateSecret, AddVersion, Activate, MarkFailed,
       PublishRotated, SetEnabled, Revoke, DeleteSecret,
       DeleteDocuments, Unregister, ProvisionCallFails, Dies, Receive, GetSecrets, Refuse, Admit
  <2> QED BY <2>1, Begins DEF General
<1>2. ASSUME NEW c \in Calls, NEW x \in CallRecords, Starts(c, x), crossed PROVE crossed'
  BY <1>2, Zenon DEF Starts
<1> QED BY <1>1, <1>2

(* A callable that starts meets nobody it would be crossed with. *)
LEMMA StartsAlone ==
  ASSUME General, ~crossed', NEW c \in Calls, NEW x \in CallRecords, Starts(c, x)
  PROVE  /\ call[c].pc = "idle" /\ call[c].kind = "none" /\ call'[c] = x
         /\ \A d \in Calls : d # c => call'[d] = call[d]
         /\ \A d \in Calls : d # c => call[d].kind # "remove"
         /\ x.kind = "remove" => \A d \in Calls : d # c => call[d].pc = "idle"
<1>1. call[c].pc = "idle" /\ call' = [call EXCEPT ![c] = x]
  BY DEF Starts
<1>2. ~(Others(c) # {} /\ (x.kind = "remove" \/ \E d \in Others(c) : call[d].kind = "remove"))
  BY Zenon DEF Starts
<1>3. ASSUME NEW d \in Calls, d # c, call[d].pc # "idle" PROVE d \in Others(c)
  BY <1>3 DEF Others
<1>4. \A d \in Calls : PhaseOK(call[d])
  BY DEF General, CallOK
<1>5. ASSUME NEW d \in Calls, d # c PROVE call[d].kind # "remove"
  BY <1>2, <1>3, <1>4, <1>5 DEF PhaseOK
<1>6. x.kind = "remove" => \A d \in Calls : d # c => call[d].pc = "idle"
  BY <1>2, <1>3
<1>7. call[c].kind = "none"
  BY <1>1, <1>4 DEF PhaseOK
<1> QED BY <1>1, <1>5, <1>6, <1>7, CallAfter DEF General

(* What each callable does to the registration, field by field. *)
LEMMA RegistryFields ==
  ASSUME RegistryOK, NEW c \in Calls
  PROVE  /\ Activate(c) /\ registry.reservation = c =>
              /\ registry'.state = "active" /\ registry'.enabled /\ registry'.known
              /\ registry'.versions = <<call[c].name>> /\ registry'.org = registry.org
         /\ Activate(c) /\ registry.reservation # c => registry' = registry
         /\ MarkFailed(c) =>
              /\ registry'.state = "failed" /\ registry'.org = registry.org
              /\ registry'.known = registry.known /\ registry'.reservation = registry.reservation
         /\ PublishRotated(c) =>
              /\ registry'.state = registry.state /\ registry'.org = registry.org
              /\ registry'.known = registry.known /\ registry'.reservation = registry.reservation
              /\ registry'.enabled = registry.enabled
              /\ registry.state # "none" => registry'.versions = NewVersions(c)
         /\ SetEnabled(c) =>
              /\ registry'.state = registry.state /\ registry'.org = registry.org
              /\ registry'.known = registry.known /\ registry'.reservation = registry.reservation
              /\ registry'.versions = registry.versions
              /\ registry.state # "none" => registry'.enabled = (call[c].kind = "enable")
         /\ Revoke(c) /\ (registry.state = "none" \/ registry.org = call[c].org) =>
              /\ registry'.state = "deleting" /\ registry'.org = call[c].org
              /\ registry'.known = registry.known
         /\ Revoke(c) /\ ~(registry.state = "none" \/ registry.org = call[c].org) => registry' = registry
         /\ Unregister(c) => registry'.state = "none" /\ ~registry'.known /\ registry' = Unregistered
<1>1. registry \in RegistryRecords
  BY DEF RegistryOK
<1>2. Activate(c) /\ registry.reservation = c =>
              /\ registry'.state = "active" /\ registry'.enabled /\ registry'.known
              /\ registry'.versions = <<call[c].name>> /\ registry'.org = registry.org
  BY <1>1 DEF Activate, RegistryRecords
<1>3. MarkFailed(c) =>
              /\ registry'.state = "failed" /\ registry'.org = registry.org
              /\ registry'.known = registry.known /\ registry'.reservation = registry.reservation
  BY <1>1 DEF MarkFailed, RegistryRecords
<1>4. PublishRotated(c) =>
              /\ registry'.state = registry.state /\ registry'.org = registry.org
              /\ registry'.known = registry.known /\ registry'.reservation = registry.reservation
              /\ registry'.enabled = registry.enabled
              /\ registry.state # "none" => registry'.versions = NewVersions(c)
  BY <1>1 DEF PublishRotated, RegistryRecords
<1>5. SetEnabled(c) =>
              /\ registry'.state = registry.state /\ registry'.org = registry.org
              /\ registry'.known = registry.known /\ registry'.reservation = registry.reservation
              /\ registry'.versions = registry.versions
              /\ registry.state # "none" => registry'.enabled = (call[c].kind = "enable")
  BY <1>1 DEF SetEnabled, RegistryRecords
<1>6. Revoke(c) /\ (registry.state = "none" \/ registry.org = call[c].org) =>
              /\ registry'.state = "deleting" /\ registry'.org = call[c].org
              /\ registry'.known = registry.known
  BY <1>1 DEF Revoke, RegistryRecords
<1>7. Activate(c) /\ registry.reservation # c => registry' = registry
  BY DEF Activate
<1>8. Revoke(c) /\ ~(registry.state = "none" \/ registry.org = call[c].org) => registry' = registry
  BY DEF Revoke
<1>9. Unregister(c) => registry'.state = "none" /\ ~registry'.known /\ registry' = Unregistered
  BY UnregisteredIsRecord DEF Unregister
<1> QED BY <1>2, <1>3, <1>4, <1>5, <1>6, <1>7, <1>8, <1>9

(* What each callable keeps of itself; the others stay as they are. *)
LEMMA CallFields ==
  ASSUME General, NEW c \in Calls
  PROVE  /\ CreateSecret(c) \/ AddVersion(c) \/ Activate(c) \/ MarkFailed(c) \/ PublishRotated(c)
            \/ SetEnabled(c) \/ Revoke(c) \/ DeleteSecret(c) \/ DeleteDocuments(c) \/ Unregister(c)
            \/ ProvisionCallFails(c) \/ Dies(c) =>
              /\ call[c].pc # "idle"
              /\ \A d \in Calls : d # c => call'[d] = call[d]
              /\ call'[c] = Idle \/ (call'[c].kind = call[c].kind /\ call'[c].org = call[c].org)
         /\ DeleteSecret(c) => call'[c].pc = "deleteDocuments" /\ call'[c].known = call[c].known
         /\ DeleteDocuments(c) => call'[c].pc = "unregister" /\ call'[c].known = call[c].known
         /\ Revoke(c) => \/ call'[c] = Idle /\ ~(registry.state = "none" \/ registry.org = call[c].org)
                         \/ /\ registry.state = "none" \/ registry.org = call[c].org
                            /\ call'[c].known = registry.known
                            /\ call'[c].pc = IF registry.known THEN "deleteSecret" ELSE "deleteDocuments"
         /\ MarkFailed(c) \/ PublishRotated(c) \/ SetEnabled(c) \/ Unregister(c) \/ Dies(c) => call'[c] = Idle
<1>1. CallOK /\ call \in [Calls -> CallRecords] /\ call[c] \in CallRecords
  BY DEF General, CallOK
<1>2. Ends(c) => call'[c] = Idle /\ \A d \in Calls : d # c => call'[d] = call[d]
  BY <1>1 DEF Ends
<1>3. \A pc : Goes(c, pc) =>
        /\ \A d \in Calls : d # c => call'[d] = call[d]
        /\ call'[c].kind = call[c].kind /\ call'[c].org = call[c].org
        /\ call'[c].pc = pc /\ call'[c].known = call[c].known
  <2> SUFFICES ASSUME NEW pc, Goes(c, pc)
               PROVE  /\ \A d \in Calls : d # c => call'[d] = call[d]
                      /\ call'[c].kind = call[c].kind /\ call'[c].org = call[c].org
                      /\ call'[c].pc = pc /\ call'[c].known = call[c].known
    OBVIOUS
  <2> DEFINE x == [call[c] EXCEPT !.pc = pc]
  <2>1. call' = [call EXCEPT ![c] = x]
    BY DEF Goes
  <2>2. x.kind = call[c].kind /\ x.org = call[c].org /\ x.pc = pc /\ x.known = call[c].known
    BY <1>1 DEF CallRecords
  <2> HIDE DEF x
  <2> QED BY <1>1, <2>1, <2>2
<1>4. CreateSecret(c) => call[c].pc # "idle" /\ \E pc : Goes(c, pc)
  BY DEF CreateSecret
<1>5. AddVersion(c) =>
              /\ call[c].pc # "idle"
              /\ \A d \in Calls : d # c => call'[d] = call[d]
              /\ call'[c] = Idle \/ (call'[c].kind = call[c].kind /\ call'[c].org = call[c].org)
  <2> SUFFICES ASSUME AddVersion(c)
               PROVE  /\ \A d \in Calls : d # c => call'[d] = call[d]
                      /\ call'[c] = Idle \/ (call'[c].kind = call[c].kind /\ call'[c].org = call[c].org)
    BY DEF AddVersion
  <2>1. CASE secret = NoSecret
    <3>1. call' = [call EXCEPT ![c] = IF call[c].kind = "provision"
                                             THEN [call[c] EXCEPT !.pc = "cleanup"] ELSE Idle]
      BY <2>1 DEF AddVersion
    <3> QED BY <1>1, <3>1, CallAfter
  <2>2. CASE secret # NoSecret
    <3>1. call' = [call EXCEPT ![c] = [call[c] EXCEPT !.pc = "publish", !.key = made + 1,
                                    !.name = Len(secret) + 1]]
      BY <2>2 DEF AddVersion
    <3>2. LET x == [call[c] EXCEPT !.pc = "publish", !.key = made + 1, !.name = Len(secret) + 1]
          IN x.kind = call[c].kind /\ x.org = call[c].org
      BY <1>1 DEF CallRecords
    <3> QED BY <1>1, <3>1, <3>2
  <2> QED BY <2>1, <2>2
<1>6. Activate(c) => call[c].pc # "idle" /\ (Ends(c) \/ Goes(c, "cleanup"))
  BY DEF Activate
<1>7. MarkFailed(c) \/ PublishRotated(c) \/ SetEnabled(c) \/ Unregister(c) \/ Dies(c)
        => call[c].pc # "idle" /\ Ends(c)
  BY DEF MarkFailed, PublishRotated, SetEnabled, Unregister, Dies
<1>8. DeleteSecret(c) => call[c].pc # "idle" /\ Goes(c, "deleteDocuments")
  BY DEF DeleteSecret
<1>9. DeleteDocuments(c) => call[c].pc # "idle" /\ Goes(c, "unregister")
  BY DEF DeleteDocuments
<1>10. ProvisionCallFails(c) => call[c].pc # "idle" /\ Goes(c, "cleanup")
  BY DEF ProvisionCallFails
<1>11. Revoke(c) => call[c].pc # "idle" /\
         \/ Ends(c) /\ ~(registry.state = "none" \/ registry.org = call[c].org)
         \/ /\ registry.state = "none" \/ registry.org = call[c].org
            /\ call' = [call EXCEPT ![c] = [call[c] EXCEPT !.known = registry.known,
                          !.pc = IF registry.known THEN "deleteSecret" ELSE "deleteDocuments"]]
  BY DEF Revoke
<1>12. LET x == [call[c] EXCEPT !.known = registry.known,
                          !.pc = IF registry.known THEN "deleteSecret" ELSE "deleteDocuments"]
       IN x.kind = call[c].kind /\ x.org = call[c].org /\ x.known = registry.known
          /\ x.pc = IF registry.known THEN "deleteSecret" ELSE "deleteDocuments"
  BY <1>1 DEF CallRecords
<1>13. Revoke(c) => /\ call[c].pc # "idle"
                    /\ \A d \in Calls : d # c => call'[d] = call[d]
                    /\ \/ call'[c] = Idle /\ ~(registry.state = "none" \/ registry.org = call[c].org)
                       \/ /\ registry.state = "none" \/ registry.org = call[c].org
                          /\ call'[c].kind = call[c].kind /\ call'[c].org = call[c].org
                          /\ call'[c].known = registry.known
                          /\ call'[c].pc = IF registry.known THEN "deleteSecret" ELSE "deleteDocuments"
  BY <1>1, <1>2, <1>11, <1>12
<1>14. ASSUME CreateSecret(c) \/ AddVersion(c) \/ Activate(c) \/ MarkFailed(c) \/ PublishRotated(c)
              \/ SetEnabled(c) \/ Revoke(c) \/ DeleteSecret(c) \/ DeleteDocuments(c) \/ Unregister(c)
              \/ ProvisionCallFails(c) \/ Dies(c)
       PROVE  /\ call[c].pc # "idle"
              /\ \A d \in Calls : d # c => call'[d] = call[d]
              /\ call'[c] = Idle \/ (call'[c].kind = call[c].kind /\ call'[c].org = call[c].org)
  <2>1. CASE CreateSecret(c)
    <3>1. PICK pc : Goes(c, pc)
      BY <1>4, <2>1
    <3> QED BY <1>3, <1>4, <2>1, <3>1
  <2>2. CASE AddVersion(c)
    BY <1>5, <2>2
  <2>3. CASE Activate(c)
    BY <1>2, <1>3, <1>6, <2>3
  <2>4. CASE MarkFailed(c) \/ PublishRotated(c) \/ SetEnabled(c) \/ Unregister(c) \/ Dies(c)
    BY <1>2, <1>7, <2>4
  <2>5. CASE DeleteSecret(c) \/ DeleteDocuments(c) \/ ProvisionCallFails(c)
    BY <1>3, <1>8, <1>9, <1>10, <2>5
  <2>6. CASE Revoke(c)
    BY <1>13, <2>6
  <2> QED BY <1>14, <2>1, <2>2, <2>3, <2>4, <2>5, <2>6
<1>15. DeleteSecret(c) => call'[c].pc = "deleteDocuments" /\ call'[c].known = call[c].known
  BY <1>3, <1>8
<1>16. DeleteDocuments(c) => call'[c].pc = "unregister" /\ call'[c].known = call[c].known
  BY <1>3, <1>9
<1>17. MarkFailed(c) \/ PublishRotated(c) \/ SetEnabled(c) \/ Unregister(c) \/ Dies(c) => call'[c] = Idle
  BY <1>2, <1>7
<1> QED BY <1>13, <1>14, <1>15, <1>16, <1>17

(* A callable under way is not beside a removal. *)
LEMMA NoOtherRemoves ==
  ASSUME Orders, NEW c \in Calls, call[c].pc # "idle", NEW d \in Calls, d # c
  PROVE  call[d].kind # "remove"
BY DEF Orders, CallOrder

(* What a callable expects, the steps of others leave as it is; requests   *)
(* only leave contacts behind.                                             *)
LEMMA OthersKeepOrder ==
  ASSUME General, Orders, NEW d \in Calls, call'[d] = call[d], call[d].kind # "remove",
         call[d].kind = "provision" => /\ registry'.state = registry.state
                                       /\ registry'.reservation = registry.reservation
                                       /\ registry'.org = registry.org,
         call[d].kind = "rotate" => /\ registry'.known
                                    /\ registry'.state \in {"active", "deleting"},
         call[d].kind \in {"enable", "disable"} => /\ registry'.state # "none"
                                                   /\ registry'.org = registry.org
  PROVE  CallOrder(d)'
BY DEF Orders, CallOrder

LEMMA ContactHoldsNothing ==
  ASSUME General, document' = document \/ \E r \in Requests, k \in Keys : Admit(r, k),
         NEW o \in Orgs
  PROVE  /\ document'[o] \in Held => document[o] \in Held
         /\ document'[o] = "enabled" <=> document[o] = "enabled"
<1>1. CASE document' = document
  BY <1>1
<1>2. ASSUME NEW r \in Requests, NEW k \in Keys, Admit(r, k)
      PROVE  /\ document'[o] \in Held => document[o] \in Held
             /\ document'[o] = "enabled" <=> document[o] = "enabled"
  BY <1>2 DEF Admit, General, DocumentOK, Held
<1> QED BY <1>1, <1>2

(* A callable that starts finds the order it needs. *)
LEMMA StartOrder ==
  ASSUME General, [Next]_vars, ~crossed, ~crossed', Orders, NEW c \in Calls,
         Reserve(c) \/ StartRotate(c) \/ StartSetEnabled(c) \/ StartRemove(c)
  PROVE  Orders'
<1>1. PICK x \in CallRecords : Starts(c, x)
  BY Begins DEF General
<1>2. /\ call[c].pc = "idle" /\ call[c].kind = "none" /\ call'[c] = x
      /\ \A d \in Calls : d # c => call'[d] = call[d] /\ call[d].kind # "remove"
      /\ x.kind = "remove" => \A d \in Calls : d # c => call[d].pc = "idle"
  BY <1>1, StartsAlone
<1>3. CASE Reserve(c)
  <2>1. PICK o \in Orgs, y \in CallRecords :
              /\ Starts(c, y) /\ Fresh(y, "provision", "create", o)
              /\ registry.state = "none" \/ (registry.state = "failed" /\ registry.org = o)
              /\ registry' = [Unregistered EXCEPT !.state = "provisioning", !.org = o,
                                                  !.reservation = c]
    BY <1>3, Begins DEF General
  <2>2. registry'.state = "provisioning" /\ registry'.org = o /\ registry'.reservation = c
        /\ ~registry'.known
    BY <2>1, UnregisteredIsRecord DEF RegistryRecords
  <2>3. call'[c].kind = "provision" /\ call'[c].org = o
    BY <2>1, StartsAlone DEF Fresh
  <2>4. CallOrder(c)'
    BY <2>2, <2>3 DEF CallOrder
  <2>5. ASSUME NEW d \in Calls, d # c PROVE CallOrder(d)'
    <3>1. CallOrder(d) /\ RegistryOrder
      BY DEF Orders
    <3>2. call[d].kind # "provision"
      BY <2>1, <3>1 DEF CallOrder
    <3>3. call[d].kind # "rotate"
      BY <2>1, <3>1 DEF CallOrder
    <3>4. call[d].kind \in {"enable", "disable"} => registry'.state # "none" /\ registry'.org = registry.org
      BY <2>1, <2>2, <3>1 DEF CallOrder
    <3> QED BY <1>2, <2>5, <3>2, <3>3, <3>4, OthersKeepOrder
  <2>6. RegistryOrder'
    BY <2>2 DEF RegistryOrder
  <2> QED BY <2>4, <2>5, <2>6 DEF Orders
<1>4. CASE StartRotate(c) \/ StartSetEnabled(c) \/ StartRemove(c)
  <2>1. UNCHANGED <<registry, secret, document>>
    BY <1>4 DEF StartRotate, StartSetEnabled, StartRemove
  <2>2. RegistryOrder'
    BY <2>1 DEF Orders, RegistryOrder
  <2>3. ASSUME NEW d \in Calls, d # c PROVE CallOrder(d)'
    <3>1. CallOrder(d)
      BY DEF Orders
    <3> QED BY <1>2, <2>1, <2>3, <3>1, OthersKeepOrder DEF CallOrder
  <2>4. CallOrder(c)'
    <3>1. registry.state \in States /\ (registry.state = "none" => registry.org = NoOrg)
      BY UnregisteredIsRecord DEF General, RegistryOK, RegistryRecords
    <3>2. CASE StartRotate(c)
      <4>1. PICK y \in CallRecords :
              Starts(c, y) /\ Fresh(y, "rotate", "version", NoOrg) /\ registry.known /\ registry.org # NoOrg
        BY <3>2, Begins DEF General
      <4>2. call'[c].kind = "rotate"
        BY <4>1, StartsAlone DEF Fresh
      <4>3. registry.state \in {"active", "deleting"}
        BY <3>1, <4>1 DEF Orders, RegistryOrder, States
      <4> QED BY <2>1, <4>1, <4>2, <4>3 DEF CallOrder
    <3>3. CASE StartSetEnabled(c)
      <4>1. PICK kind \in {"enable", "disable"}, y \in CallRecords :
              Starts(c, y) /\ Fresh(y, kind, "switch", registry.org) /\ registry.org # NoOrg
        BY <3>3, Begins DEF General
      <4>2. call'[c].kind = kind /\ call'[c].org = registry.org
        BY <4>1, StartsAlone DEF Fresh
      <4> QED BY <2>1, <3>1, <4>1, <4>2 DEF CallOrder
    <3>4. CASE StartRemove(c)
      <4>1. PICK o \in Orgs, y \in CallRecords : Starts(c, y) /\ Fresh(y, "remove", "revoke", o)
        BY <3>4, Begins DEF General
      <4>2. call'[c] = y /\ call'[c].kind = "remove" /\ call'[c].pc = "revoke" /\ call'[c].org = o
        BY <4>1, StartsAlone DEF Fresh
      <4>3. \A d \in Calls : d # c => call'[d].pc = "idle"
        BY <1>2, <4>2
      <4> QED BY <4>2, <4>3 DEF CallOrder
    <3> QED BY <1>4, <3>2, <3>3, <3>4
  <2> QED BY <2>2, <2>3, <2>4 DEF Orders
<1> QED BY <1>3, <1>4

Acts(c) ==
  \/ Reserve(c) \/ CreateSecret(c) \/ AddVersion(c) \/ Activate(c) \/ MarkFailed(c)
  \/ StartRotate(c) \/ PublishRotated(c) \/ StartSetEnabled(c) \/ SetEnabled(c)
  \/ StartRemove(c) \/ Revoke(c) \/ DeleteSecret(c) \/ DeleteDocuments(c)
  \/ Unregister(c) \/ ProvisionCallFails(c) \/ Dies(c)

(* Beside the callables, only a request's contact changes what they share. *)
LEMMA Steps ==
  ASSUME [Next]_vars
  PROVE  \/ \E c \in Calls : Acts(c)
         \/ /\ UNCHANGED <<registry, secret, made, call, handed, crossed>>
            /\ document' = document \/ \E r \in Requests, k \in Keys : Admit(r, k)
BY DEF Next, Step, vars, Acts, Tick, Receive, GetSecrets, Refuse, Admit

LEMMA ActOrder ==
  ASSUME General, [Next]_vars, ~crossed, ~crossed', Orders, NEW c \in Calls, Acts(c)
  PROVE  Orders'
<1>1. CallOrder(c) /\ RegistryOrder /\ \A d \in Calls : CallOrder(d)
  BY DEF Orders
<1>2. RegistryOK /\ PhaseOK(call[c]) /\ \A d \in Calls : PhaseOK(call[d])
  BY DEF General, CallOK
<1>3. ASSUME NEW d \in Calls, d # c, call'[d] = call[d], call[c].pc # "idle",
             UNCHANGED <<registry>>
      PROVE  CallOrder(d)'
  BY <1>1, <1>3, NoOtherRemoves, OthersKeepOrder DEF CallOrder
<1>4. ASSUME call'[c] = Idle PROVE CallOrder(c)'
  BY <1>4 DEF CallOrder, Idle
<1>5. CASE Reserve(c) \/ StartRotate(c) \/ StartSetEnabled(c) \/ StartRemove(c)
  BY <1>5, StartOrder
<1>6. CASE CreateSecret(c) \/ AddVersion(c) \/ ProvisionCallFails(c) \/ Dies(c)
  <2>1. UNCHANGED registry
    BY <1>6 DEF CreateSecret, AddVersion, ProvisionCallFails, Dies
  <2>2. /\ call[c].pc # "idle" /\ \A d \in Calls : d # c => call'[d] = call[d]
        /\ call'[c] = Idle \/ (call'[c].kind = call[c].kind /\ call'[c].org = call[c].org)
    BY <1>6, CallFields
  <2>3. CallOrder(c)'
    <3>1. CASE CreateSecret(c) \/ AddVersion(c) \/ ProvisionCallFails(c)
      <4>1. call[c].kind \in {"provision", "rotate"}
        BY <1>2, <3>1 DEF PhaseOK, CreateSecret, AddVersion, ProvisionCallFails
      <4> QED BY <1>1, <1>4, <2>1, <2>2, <4>1 DEF CallOrder
    <3>2. CASE Dies(c)
      BY <1>4, <3>2, CallFields
    <3> QED BY <1>6, <3>1, <3>2
  <2> QED BY <1>1, <1>3, <2>1, <2>2, <2>3 DEF Orders, RegistryOrder
<1>7. CASE Activate(c)
  <2>1. call[c].kind = "provision" /\ registry.state = "provisioning" /\ registry.reservation = c
        /\ registry.org = call[c].org
    BY <1>1, <1>7 DEF Activate, CallOrder
  <2>2. registry'.state = "active" /\ registry'.known /\ registry'.org = registry.org
    BY <1>2, <1>7, <2>1, RegistryFields
  <2>3. call'[c] = Idle /\ call[c].pc # "idle" /\ \A d \in Calls : d # c => call'[d] = call[d]
    <3>1. call' = [call EXCEPT ![c] = Idle]
      BY <1>7, <2>1 DEF Activate, Ends
    <3>2. call'[c] = Idle
      BY <3>1 DEF General, CallOK
    <3> QED BY <1>7, <3>2, CallFields
  <2>4. ASSUME NEW d \in Calls, d # c PROVE CallOrder(d)'
    <3>1. call[d].kind # "provision" /\ call[d].kind # "rotate"
      BY <1>1, <2>1, <2>4 DEF CallOrder
    <3> QED BY <2>2, <2>3, <2>4, <3>1, NoOtherRemoves, OthersKeepOrder
  <2> QED BY <1>1, <1>4, <2>1, <2>2, <2>3, <2>4 DEF Orders, RegistryOrder
<1>8. CASE MarkFailed(c)
  <2>1. call[c].kind = "provision" /\ registry.state = "provisioning" /\ registry.reservation = c
    BY <1>1, <1>2, <1>8 DEF MarkFailed, CallOrder, PhaseOK
  <2>2. /\ registry'.state = "failed" /\ registry'.org = registry.org
        /\ registry'.known = registry.known
    BY <1>2, <1>8, RegistryFields
  <2>3. call'[c] = Idle /\ call[c].pc # "idle" /\ \A d \in Calls : d # c => call'[d] = call[d]
    BY <1>8, CallFields
  <2>4. ASSUME NEW d \in Calls, d # c PROVE CallOrder(d)'
    <3>1. call[d].kind # "provision" /\ call[d].kind # "rotate"
      BY <1>1, <2>1, <2>4 DEF CallOrder
    <3> QED BY <2>2, <2>3, <2>4, <3>1, NoOtherRemoves, OthersKeepOrder
  <2> QED BY <1>1, <1>4, <2>1, <2>2, <2>3, <2>4 DEF Orders, RegistryOrder
<1>9. CASE PublishRotated(c) \/ SetEnabled(c)
  <2>1. /\ registry'.state = registry.state /\ registry'.org = registry.org
        /\ registry'.known = registry.known /\ registry'.reservation = registry.reservation
    BY <1>2, <1>9, RegistryFields
  <2>2. call'[c] = Idle /\ call[c].pc # "idle" /\ \A d \in Calls : d # c => call'[d] = call[d]
    <3>1. CASE PublishRotated(c)
      BY <3>1, CallFields
    <3>2. CASE SetEnabled(c)
      BY <3>2, CallFields
    <3> QED BY <1>9, <3>1, <3>2
  <2>3. ASSUME NEW d \in Calls, d # c PROVE CallOrder(d)'
    BY <1>1, <2>1, <2>2, <2>3, NoOtherRemoves, OthersKeepOrder DEF CallOrder
  <2> QED BY <1>1, <1>4, <2>1, <2>2, <2>3 DEF Orders, RegistryOrder
<1>10. CASE Revoke(c) \/ DeleteSecret(c) \/ DeleteDocuments(c) \/ Unregister(c)
  <2>1. call[c].kind = "remove" /\ call[c].pc # "idle" /\ call[c].org \in Orgs
        /\ \A d \in Calls : d # c => call[d].pc = "idle"
    BY <1>1, <1>2, <1>10 DEF Revoke, DeleteSecret, DeleteDocuments, Unregister, PhaseOK, CallOrder
  <2>2. \A d \in Calls : d # c => call'[d] = call[d]
    BY <1>10, CallFields
  <2>3. ASSUME NEW d \in Calls, d # c PROVE CallOrder(d)'
    <3>1. call'[d].kind = "none"
      BY <1>2, <2>1, <2>2, <2>3 DEF PhaseOK
    <3> QED BY <3>1 DEF CallOrder
  <2>4. call'[c] = Idle \/ (call'[c].kind = "remove" /\ call'[c].org = call[c].org)
    BY <1>10, <2>1, CallFields
  <2>5. \A d \in Calls : d # c => call'[d].pc = "idle"
    BY <2>1, <2>2
  <2>6. CASE Revoke(c)
    <3>1. CASE registry.state = "none" \/ registry.org = call[c].org
      <4>1. /\ registry'.state = "deleting" /\ registry'.org = call[c].org
            /\ registry'.known = registry.known
        BY <1>2, <2>6, <3>1, RegistryFields
      <4>2. \/ call'[c] = Idle
            \/ /\ call'[c].known = registry.known
               /\ call'[c].pc = IF registry.known THEN "deleteSecret" ELSE "deleteDocuments"
        BY <2>6, CallFields
      <4>3. CallOrder(c)'
        BY <1>4, <2>1, <2>4, <2>5, <4>1, <4>2 DEF CallOrder
      <4>4. RegistryOrder'
        BY <2>1, <4>1 DEF RegistryOrder
      <4> QED BY <2>3, <4>3, <4>4 DEF Orders
    <3>2. CASE ~(registry.state = "none" \/ registry.org = call[c].org)
      <4>1. registry' = registry /\ call'[c] = Idle
        BY <1>2, <2>6, <3>2, RegistryFields, CallFields
      <4> QED BY <1>1, <1>4, <2>3, <4>1 DEF Orders, RegistryOrder
    <3> QED BY <3>1, <3>2
  <2>7. CASE DeleteSecret(c)
    <3>1. registry' = registry /\ secret' = NoSecret /\ call[c].pc = "deleteSecret"
      BY <2>7 DEF DeleteSecret
    <3>2. call'[c].pc = "deleteDocuments" /\ call'[c].known = call[c].known
      BY <2>7, CallFields
    <3>3. CallOrder(c)'
      BY <1>1, <1>4, <2>1, <2>4, <2>5, <3>1, <3>2 DEF CallOrder
    <3> QED BY <1>1, <2>3, <3>1, <3>3 DEF Orders, RegistryOrder
  <2>8. CASE DeleteDocuments(c)
    <3>1. registry' = registry /\ secret' = secret /\ call[c].pc = "deleteDocuments"
          /\ document' = [document EXCEPT ![call[c].org] = "absent"]
      BY <2>8 DEF DeleteDocuments
    <3>2. document'[call[c].org] \notin Held
      BY <2>1, <3>1 DEF General, DocumentOK, Held
    <3>3. call'[c].pc = "unregister" /\ call'[c].known = call[c].known
      BY <2>8, CallFields
    <3>4. CallOrder(c)'
      BY <1>1, <1>4, <2>1, <2>4, <2>5, <3>1, <3>2, <3>3 DEF CallOrder
    <3> QED BY <1>1, <2>3, <3>1, <3>4 DEF Orders, RegistryOrder
  <2>9. CASE Unregister(c)
    <3>1. registry'.state = "none" /\ ~registry'.known
      BY <1>2, <2>9, RegistryFields
    <3>2. CallOrder(c)'
      BY <1>4, <2>9, CallFields
    <3> QED BY <2>3, <3>1, <3>2 DEF Orders, RegistryOrder
  <2> QED BY <1>10, <2>6, <2>7, <2>8, <2>9
<1> QED BY <1>5, <1>6, <1>7, <1>8, <1>9, <1>10 DEF Acts

LEMMA InitOrder == Init => Orders
BY UnregisteredIsRecord DEF Init, Orders, RegistryOrder, CallOrder, Idle

LEMMA NextOrder == General /\ (crossed \/ Orders) /\ [Next]_vars => (crossed \/ Orders)'
<1> SUFFICES ASSUME General, crossed \/ Orders, [Next]_vars, ~crossed' PROVE Orders'
  OBVIOUS
<1>1. ~crossed /\ Orders
  BY CrossedStays
<1>2. ASSUME NEW c \in Calls, Acts(c) PROVE Orders'
  BY <1>1, <1>2, ActOrder
<1>3. CASE /\ UNCHANGED <<registry, secret, made, call, handed, crossed>>
           /\ document' = document \/ \E r \in Requests, k \in Keys : Admit(r, k)
  <2>1. \A o \in Orgs : document'[o] \in Held => document[o] \in Held
    BY <1>3, ContactHoldsNothing
  <2> QED BY <1>1, <1>3, <2>1 DEF Orders, RegistryOrder, CallOrder
<1> QED BY <1>2, <1>3, Steps

-----------------------------------------------------------------------------
(* The keys. *)

Published(c) ==
  call[c].pc = "publish" => Resolves(call[c].name) /\ secret[call[c].name] = call[c].key
UnknownInv == ~registry.known /\ secret # NoSecret => ToSet(secret) \intersect HandedKeys = {}
NewestInv == registry.state = "active" =>
  /\ registry.versions # <<>> /\ handed # <<>>
  /\ Resolves(registry.versions[1]) /\ secret[registry.versions[1]] = Last(handed).key

KeyInv == (\A c \in Calls : Published(c)) /\ UnknownInv /\ NewestInv

LEMMA SecretsAreNames == \A s \in Seq(Keys) : s # NoSecret
<1> SUFFICES ASSUME NoSecret \in Seq(Keys) PROVE FALSE
  OBVIOUS
<1>1. 1 \in DOMAIN NoSecret /\ NoSecret[1] = 0
  BY DEF NoSecret
<1>2. NoSecret[1] \in Keys
  BY <1>1
<1> QED BY <1>1, <1>2, Bounds

(* A version added leaves the others what they are, and has a new key.     *)
LEMMA VersionAdded ==
  ASSUME General, NEW c \in Calls, AddVersion(c), secret # NoSecret
  PROVE  /\ \A n : Resolves(n) => Resolves(n)' /\ secret'[n] = secret[n]
         /\ \A n : Resolves(n)' /\ ~Resolves(n) => secret'[n] = made + 1
         /\ Resolves(call[c].name)' /\ secret'[call'[c].name] = call'[c].key
         /\ ToSet(secret)' = ToSet(secret) \union {made + 1}
         /\ made + 1 \notin HandedKeys
<1>1. secret \in Seq(Keys) /\ made \in Nat /\ Len(secret) \in Nat
  BY Bounds DEF General, SecretOK, Names
<1>2. made + 1 \in Keys
  BY <1>1, Bounds DEF AddVersion, Keys
<1>3. secret' = Append(secret, made + 1)
  BY DEF AddVersion
<1>4. /\ secret' \in Seq(Keys) /\ Len(secret') = Len(secret) + 1 /\ secret'[Len(secret) + 1] = made + 1
      /\ \A i \in 1..Len(secret) : secret'[i] = secret[i]
  BY <1>1, <1>2, <1>3
<1>5. DOMAIN secret = 1..Len(secret) /\ DOMAIN secret' = 1..(Len(secret) + 1)
  BY <1>1, <1>4
<1>6. secret' # NoSecret
  BY <1>4, SecretsAreNames
<1>7. ASSUME NEW n, Resolves(n) PROVE Resolves(n)' /\ secret'[n] = secret[n]
  BY <1>4, <1>5, <1>6, <1>7, <1>1 DEF Resolves
<1>8. ASSUME NEW n, Resolves(n)', ~Resolves(n) PROVE secret'[n] = made + 1
  BY <1>1, <1>4, <1>5, <1>6, <1>8 DEF Resolves
<1>9. Resolves(call[c].name)' /\ secret'[call'[c].name] = call'[c].key
  <2>1. call' = [call EXCEPT ![c] = [call[c] EXCEPT !.pc = "publish", !.key = made + 1,
                                    !.name = Len(secret) + 1]]
    BY DEF AddVersion
  <2>2. call[c] \in CallRecords /\ call \in [Calls -> CallRecords]
    BY DEF General, CallOK
  <2>3. call'[c] = [call[c] EXCEPT !.pc = "publish", !.key = made + 1, !.name = Len(secret) + 1]
    BY <2>1, <2>2
  <2>4. call'[c].name = Len(secret) + 1 /\ call'[c].key = made + 1
    BY <2>2, <2>3 DEF CallRecords
  <2>5. Len(secret) + 1 \in DOMAIN secret' /\ secret'[Len(secret) + 1] = made + 1
    BY <1>1, <1>4, <1>5
  <2>6. call'[c].name \in DOMAIN secret' /\ secret'[call'[c].name] = call'[c].key
    BY <2>4, <2>5
  <2> QED BY <1>6, <2>6 DEF Resolves
<1>10. ToSet(secret)' = ToSet(secret) \union {made + 1}
  BY <1>1, <1>4, <1>5 DEF ToSet
<1>11. made + 1 \notin HandedKeys
  <2>1. \A k \in HandedKeys : k \in Nat /\ k <= made
    BY HandedKeysTyped, Bounds DEF General, SecretOK, Keys
  <2> QED BY <1>1, <2>1
<1> QED BY <1>7, <1>8, <1>9, <1>10, <1>11

(* What rotate writes begins with the version it has made. *)
LEMMA NewestFirst ==
  ASSUME CallOK, NEW c \in Calls
  PROVE  NewVersions(c) # <<>> /\ NewVersions(c)[1] = call[c].name
<1>1. call[c].versions \in Seq(Keys)
  BY DEF CallOK, CallRecords, Names
<1> DEFINE rest == SubSeq(call[c].versions, 1, IF call[c].versions = <<>> THEN 0 ELSE 1)
<1>2. rest \in Seq(Keys)
  <2>1. CASE call[c].versions = <<>>
    <3>1. rest = SubSeq(call[c].versions, 1, 0)
      BY <2>1
    <3> QED BY <1>1, <3>1
  <2>2. CASE call[c].versions # <<>>
    <3>1. rest = SubSeq(call[c].versions, 1, 1)
      BY <2>2
    <3>2. Len(call[c].versions) >= 1 /\ Len(call[c].versions) \in Nat
      BY <1>1, <2>2
    <3> QED BY <1>1, <3>1, <3>2
  <2> QED BY <2>1, <2>2
<1>3. NewVersions(c) = <<call[c].name>> \o rest
  BY DEF NewVersions
<1> HIDE DEF rest
<1>4. Len(<<call[c].name>>) = 1 /\ <<call[c].name>> \in Seq({call[c].name})
  OBVIOUS
<1>5. rest \in Seq(Keys \union {call[c].name}) /\ <<call[c].name>> \in Seq(Keys \union {call[c].name})
      /\ Len(rest) \in Nat
  BY <1>2
<1>6. Len(NewVersions(c)) = 1 + Len(rest) /\ NewVersions(c)[1] = call[c].name
      /\ NewVersions(c) \in Seq(Keys \union {call[c].name})
  BY <1>3, <1>5
<1> QED BY <1>5, <1>6

(* The secret of callables that publish, and of an active registration, is *)
(* there; so it is created and deleted only while nobody relies on it.     *)
LEMMA ActKeys ==
  ASSUME General, [Next]_vars, ~crossed, ~crossed', Orders, KeyInv, NEW c \in Calls, Acts(c)
  PROVE  KeyInv'
<1>1. CallOrder(c) /\ RegistryOrder /\ (\A d \in Calls : CallOrder(d)) /\ UnknownInv /\ NewestInv
      /\ \A d \in Calls : Published(d)
  BY DEF Orders, KeyInv
<1>2. RegistryOK /\ PhaseOK(call[c]) /\ \A d \in Calls : PhaseOK(call[d])
  BY DEF General, CallOK
<1>3. Idle.pc # "publish"
  BY DEF Idle
<1>4. ASSUME NEW d \in Calls, UNCHANGED secret, call'[d] = call[d] \/ call'[d].pc # "publish"
      PROVE  Published(d)'
  BY <1>1, <1>4 DEF Published, Resolves
<1>5. ASSUME UNCHANGED <<secret, handed>>, registry'.known = registry.known PROVE UnknownInv'
  BY <1>1, <1>5 DEF UnknownInv, HandedKeys
<1>6. ASSUME UNCHANGED <<secret, handed>>, registry'.state # "active" \/
               (registry'.state = registry.state /\ registry'.versions = registry.versions)
      PROVE  NewestInv'
  BY <1>1, <1>6 DEF NewestInv, Resolves
<1>7. CASE Reserve(c)
  <2>1. PICK o \in Orgs, x \in CallRecords :
              /\ Starts(c, x) /\ Fresh(x, "provision", "create", o)
              /\ registry.state = "none" \/ (registry.state = "failed" /\ registry.org = o)
              /\ registry' = [Unregistered EXCEPT !.state = "provisioning", !.org = o,
                                                  !.reservation = c]
    BY <1>2, <1>7, Begins DEF General
  <2>2. registry'.state = "provisioning" /\ ~registry'.known /\ ~registry.known
    BY <1>1, <2>1, UnregisteredIsRecord DEF RegistryRecords, RegistryOrder
  <2>3. UNCHANGED <<secret, handed>>
    BY <1>7 DEF Reserve
  <2>4. \A d \in Calls : call'[d] = call[d] \/ call'[d].pc # "publish"
    BY <2>1, StartsAlone DEF Fresh
  <2>5. UnknownInv'
    BY <1>1, <2>2, <2>3 DEF UnknownInv, HandedKeys
  <2> QED BY <1>4, <1>6, <2>2, <2>3, <2>4, <2>5 DEF KeyInv
<1>8. CASE StartRotate(c) \/ StartSetEnabled(c) \/ StartRemove(c)
  <2>1. PICK x \in CallRecords : Starts(c, x) /\ x.pc # "publish"
    BY <1>2, <1>8, Begins DEF General, Fresh
  <2>2. \A d \in Calls : call'[d] = call[d] \/ call'[d].pc # "publish"
    BY <2>1, StartsAlone
  <2>3. UNCHANGED <<secret, handed, registry>>
    BY <1>8 DEF StartRotate, StartSetEnabled, StartRemove
  <2> QED BY <1>4, <1>5, <1>6, <2>2, <2>3 DEF KeyInv
<1>9. CASE CreateSecret(c)
  <2>1. \A d \in Calls : call'[d] = call[d] \/ call'[d].pc # "publish"
    <3>1. \E pc \in {"version", "cleanup"} : Goes(c, pc)
      BY <1>9 DEF CreateSecret
    <3>2. ASSUME NEW pc, Goes(c, pc) PROVE call'[c].pc = pc
      <4>1. call'[c] = [call[c] EXCEPT !.pc = pc]
        BY <3>2 DEF Goes, General, CallOK
      <4> QED BY <4>1, CallAfter DEF General
    <3> QED BY <1>9, <3>1, <3>2, CallFields
  <2>2. UNCHANGED <<handed, registry>>
    BY <1>9 DEF CreateSecret
  <2>3. CASE secret = NoSecret
    <3>1. secret' = <<>> /\ ToSet(<<>>) = {}
      BY <1>9, <2>3 DEF CreateSecret, ToSet
    <3>2. \A d \in Calls : call[d].pc # "publish"
      BY <1>1, <2>3 DEF Published, Resolves
    <3>3. \A d \in Calls : Published(d)'
      BY <2>1, <3>2 DEF Published
    <3>4. UnknownInv'
      BY <3>1 DEF UnknownInv
    <3>5. registry.state # "active"
      BY <1>1, <2>3 DEF NewestInv, Resolves
    <3>6. NewestInv'
      BY <2>2, <3>5 DEF NewestInv
    <3> QED BY <3>3, <3>4, <3>6 DEF KeyInv
  <2>4. CASE secret # NoSecret
    <3>1. UNCHANGED secret
      BY <1>9, <2>4 DEF CreateSecret
    <3> QED BY <1>4, <1>5, <1>6, <2>1, <2>2, <3>1 DEF KeyInv
  <2> QED BY <2>3, <2>4
<1>10. CASE AddVersion(c)
  <2>1. UNCHANGED <<handed, registry>> /\ \A d \in Calls : d # c => call'[d] = call[d]
    BY <1>10, CallFields DEF AddVersion
  <2>2. CASE secret = NoSecret
    <3>1. UNCHANGED secret
      BY <1>10, <2>2 DEF AddVersion
    <3>2. \A d \in Calls : call[d].pc # "publish"
      BY <1>1, <2>2 DEF Published, Resolves
    <3>3. call'[c].pc # "publish"
      <4>1. call' = [call EXCEPT ![c] = IF call[c].kind = "provision"
                                             THEN [call[c] EXCEPT !.pc = "cleanup"] ELSE Idle]
        BY <1>10, <2>2 DEF AddVersion
      <4>2. call'[c] = IF call[c].kind = "provision" THEN [call[c] EXCEPT !.pc = "cleanup"] ELSE Idle
        BY <4>1 DEF General, CallOK
      <4> QED BY <1>3, <4>2, CallAfter DEF General
    <3> QED BY <1>4, <1>5, <1>6, <2>1, <3>1, <3>3 DEF KeyInv
  <2>3. CASE secret # NoSecret
    <3>1. ASSUME NEW d \in Calls PROVE Published(d)'
      <4>1. CASE d = c
        BY <1>10, <2>3, <4>1, VersionAdded DEF Published
      <4>2. CASE d # c
        <5>1. call'[d] = call[d] /\ Published(d)
          BY <1>1, <2>1, <4>2
        <5> QED BY <1>10, <2>3, <5>1, VersionAdded DEF Published
      <4> QED BY <4>1, <4>2
    <3>2. UnknownInv'
      <4>1. HandedKeys' = HandedKeys
        BY <2>1 DEF HandedKeys
      <4> QED BY <1>1, <1>10, <2>1, <2>3, <4>1, VersionAdded DEF UnknownInv
    <3>3. NewestInv'
      BY <1>1, <1>10, <2>1, <2>3, VersionAdded DEF NewestInv
    <3> QED BY <3>1, <3>2, <3>3 DEF KeyInv
  <2> QED BY <2>2, <2>3
<1>11. CASE Activate(c)
  <2>1. call[c].kind = "provision" /\ registry.state = "provisioning" /\ registry.reservation = c
        /\ call[c].pc = "publish"
    BY <1>1, <1>11 DEF Activate, CallOrder
  <2>2. registry'.state = "active" /\ registry'.known /\ registry'.versions = <<call[c].name>>
    BY <1>2, <1>11, <2>1, RegistryFields
  <2>3. HandsOut(c) /\ UNCHANGED secret /\ call' = [call EXCEPT ![c] = Idle]
    BY <1>11, <2>1 DEF Activate, HandsOut, Ends
  <2>4. \A d \in Calls : call'[d] = call[d] \/ call'[d].pc # "publish"
    BY <1>3, <2>3, CallAfter DEF General
  <2>5. UnknownInv'
    BY <2>2 DEF UnknownInv
  <2>6. NewestInv'
    <3>1. handed' # <<>> /\ Last(handed').key = call[c].key
      BY <2>3, HandsOutKey
    <3>2. registry'.versions # <<>> /\ registry'.versions[1] = call[c].name
      BY <2>2
    <3>3. Resolves(call[c].name) /\ secret[call[c].name] = call[c].key
      BY <1>1, <2>1 DEF Published
    <3> QED BY <2>3, <3>1, <3>2, <3>3 DEF NewestInv, Resolves
  <2> QED BY <1>4, <2>3, <2>4, <2>5, <2>6 DEF KeyInv
<1>12. CASE PublishRotated(c)
  <2>1. call[c].kind = "rotate" /\ registry.known /\ registry.state # "none" /\ call[c].pc = "publish"
    BY <1>1, <1>12 DEF PublishRotated, CallOrder
  <2>2. registry'.state = registry.state /\ registry'.known = registry.known
        /\ registry'.versions = NewVersions(c)
    BY <1>2, <1>12, <2>1, RegistryFields
  <2>3. HandsOut(c) /\ UNCHANGED secret /\ call' = [call EXCEPT ![c] = Idle]
    BY <1>12, <2>1 DEF PublishRotated, HandsOut, Ends
  <2>4. \A d \in Calls : call'[d] = call[d] \/ call'[d].pc # "publish"
    BY <1>3, <2>3, CallAfter DEF General
  <2>5. UnknownInv'
    BY <2>1, <2>2 DEF UnknownInv
  <2>6. NewestInv'
    <3>1. handed' # <<>> /\ Last(handed').key = call[c].key
      BY <2>3, HandsOutKey
    <3>2. registry'.versions # <<>> /\ registry'.versions[1] = call[c].name
      BY <2>2, NewestFirst DEF General
    <3>3. Resolves(call[c].name) /\ secret[call[c].name] = call[c].key
      BY <1>1, <2>1 DEF Published
    <3> QED BY <2>3, <3>1, <3>2, <3>3 DEF NewestInv, Resolves
  <2> QED BY <1>4, <2>3, <2>4, <2>5, <2>6 DEF KeyInv
<1>13. CASE MarkFailed(c) \/ SetEnabled(c) \/ ProvisionCallFails(c) \/ Dies(c)
  <2>1. UNCHANGED <<secret, handed>>
    BY <1>13 DEF MarkFailed, SetEnabled, ProvisionCallFails, Dies
  <2>2. \A d \in Calls : call'[d] = call[d] \/ call'[d].pc # "publish"
    <3>1. CASE MarkFailed(c) \/ SetEnabled(c) \/ Dies(c)
      <4>1. call'[c] = Idle
        BY <3>1, CallFields
      <4>2. \A d \in Calls : d # c => call'[d] = call[d]
        BY <3>1, CallFields
      <4> QED BY <1>3, <4>1, <4>2
    <3>2. CASE ProvisionCallFails(c)
      <4>1. call' = [call EXCEPT ![c] = [call[c] EXCEPT !.pc = "cleanup"]]
        BY <3>2 DEF ProvisionCallFails, Goes
      <4> QED BY <4>1, CallAfter DEF General
    <3> QED BY <1>13, <3>1, <3>2
  <2>3. CASE MarkFailed(c)
    <3>1. registry'.state = "failed" /\ registry'.known = registry.known
      BY <1>2, <2>3, RegistryFields
    <3> QED BY <1>4, <1>5, <1>6, <2>1, <2>2, <3>1 DEF KeyInv
  <2>4. CASE SetEnabled(c)
    <3>1. registry'.state = registry.state /\ registry'.known = registry.known
          /\ registry'.versions = registry.versions
      BY <1>2, <2>4, RegistryFields
    <3> QED BY <1>4, <1>5, <1>6, <2>1, <2>2, <3>1 DEF KeyInv
  <2>5. CASE ProvisionCallFails(c) \/ Dies(c)
    <3>1. UNCHANGED registry
      BY <2>5 DEF ProvisionCallFails, Dies
    <3> QED BY <1>4, <1>5, <1>6, <2>1, <2>2, <3>1 DEF KeyInv
  <2> QED BY <1>13, <2>3, <2>4, <2>5
<1>14. CASE Revoke(c) \/ DeleteSecret(c) \/ DeleteDocuments(c) \/ Unregister(c)
  <2>1. call[c].kind = "remove" /\ \A d \in Calls : d # c => call[d].pc = "idle"
    BY <1>1, <1>2, <1>14 DEF Revoke, DeleteSecret, DeleteDocuments, Unregister, PhaseOK, CallOrder
  <2>2. \A d \in Calls : d # c => call'[d] = call[d]
    BY <1>14, CallFields
  <2>3. call'[c].kind \in {"remove", "none"}
    <3>1. call'[c] = Idle \/ call'[c].kind = call[c].kind
      BY <1>14, CallFields
    <3> QED BY <2>1, <3>1 DEF Idle
  <2>4. call'[c].pc # "publish"
    <3>1. PhaseOK(call'[c])
      BY NextGeneral DEF General, CallOK
    <3> QED BY <2>3, <3>1 DEF PhaseOK
  <2>5. \A d \in Calls : Published(d)'
    BY <2>1, <2>2, <2>4 DEF Published
  <2>6. UNCHANGED handed
    BY <1>14 DEF Revoke, DeleteSecret, DeleteDocuments, Unregister
  <2>7. CASE Revoke(c)
    <3>1. UNCHANGED secret
      BY <2>7 DEF Revoke
    <3>2. CASE registry.state = "none" \/ registry.org = call[c].org
      <4>1. registry'.state = "deleting" /\ registry'.known = registry.known
        BY <1>2, <2>7, <3>2, RegistryFields
      <4> QED BY <1>5, <1>6, <2>5, <2>6, <3>1, <4>1 DEF KeyInv
    <3>3. CASE ~(registry.state = "none" \/ registry.org = call[c].org)
      <4>1. registry' = registry
        BY <1>2, <2>7, <3>3, RegistryFields
      <4> QED BY <1>5, <1>6, <2>5, <2>6, <3>1, <4>1 DEF KeyInv
    <3> QED BY <3>2, <3>3
  <2>8. CASE DeleteSecret(c)
    <3>1. registry' = registry /\ secret' = NoSecret /\ call[c].pc = "deleteSecret"
      BY <2>8 DEF DeleteSecret
    <3>2. registry.state = "deleting"
      BY <1>1, <2>1, <3>1 DEF CallOrder
    <3> QED BY <2>5, <3>1, <3>2 DEF KeyInv, UnknownInv, NewestInv
  <2>9. CASE DeleteDocuments(c)
    <3>1. UNCHANGED <<secret, registry>>
      BY <2>9 DEF DeleteDocuments
    <3> QED BY <1>5, <1>6, <2>5, <2>6, <3>1 DEF KeyInv
  <2>10. CASE Unregister(c)
    <3>1. registry'.state = "none" /\ ~registry'.known
      BY <1>2, <2>10, RegistryFields
    <3>2. UNCHANGED secret /\ call[c].pc = "unregister"
      BY <2>10 DEF Unregister
    <3>3. registry.known => secret = NoSecret
      BY <1>1, <2>1, <3>2 DEF CallOrder
    <3>4. UnknownInv'
      BY <1>1, <2>6, <3>2, <3>3 DEF UnknownInv, HandedKeys
    <3> QED BY <1>6, <2>5, <2>6, <3>1, <3>2, <3>4 DEF KeyInv
  <2> QED BY <1>14, <2>7, <2>8, <2>9, <2>10
<1> QED BY <1>7, <1>8, <1>9, <1>10, <1>11, <1>12, <1>13, <1>14 DEF Acts

LEMMA InitKeys == Init => KeyInv
BY UnregisteredIsRecord DEF Init, KeyInv, Published, UnknownInv, NewestInv, Idle

LEMMA NextKeys ==
  General /\ (crossed \/ Orders) /\ (crossed \/ KeyInv) /\ [Next]_vars => (crossed \/ KeyInv)'
<1> SUFFICES ASSUME General, crossed \/ Orders, crossed \/ KeyInv, [Next]_vars, ~crossed'
             PROVE  KeyInv'
  OBVIOUS
<1>1. ~crossed /\ Orders /\ KeyInv
  BY CrossedStays
<1>2. ASSUME NEW c \in Calls, Acts(c) PROVE KeyInv'
  BY <1>1, <1>2, ActKeys
<1>3. CASE UNCHANGED <<registry, secret, made, call, handed, crossed>>
  <2>1. KeyInv
    BY <1>1
  <2> QED BY <1>3, <2>1 DEF KeyInv, Published, UnknownInv, NewestInv, Resolves, HandedKeys
<1> QED BY <1>2, <1>3, Steps

(* The key handed out last works: rotations that overlap, failed and       *)
(* repeated provisioning leave nobody with a key that is not the newest    *)
(* version (provision, rotate).                                            *)
THEOREM LastKeyAlwaysWorks == Spec => []LastKeyWorks
<1>1. Spec => []General
  BY InitGeneral, NextGeneral, PTL DEF Spec
<1>2. Spec => [](crossed \/ Orders)
  <2>1. Init => crossed \/ Orders
    BY InitOrder
  <2> QED BY <1>1, <2>1, NextOrder, PTL DEF Spec
<1>3. Spec => [](crossed \/ KeyInv)
  <2>1. Init => crossed \/ KeyInv
    BY InitKeys
  <2> QED BY <1>1, <1>2, <2>1, NextKeys, PTL DEF Spec
<1>4. General /\ (crossed \/ KeyInv) => LastKeyWorks
  <2> SUFFICES ASSUME General, KeyInv, registry.state = "active"
               PROVE  /\ Resolves(Head(registry.versions))
                      /\ secret[Head(registry.versions)] = Last(handed).key
    BY DEF LastKeyWorks
  <2>1. registry.versions \in Seq(Keys) /\ registry.versions # <<>>
    BY DEF General, RegistryOK, RegistryRecords, Names, KeyInv, NewestInv
  <2>2. Head(registry.versions) = registry.versions[1]
    BY <2>1
  <2> QED BY <2>2 DEF KeyInv, NewestInv
<1> QED BY <1>1, <1>3, <1>4, PTL

-----------------------------------------------------------------------------
(* The documents. *)

HeldByOwner == \A o \in Orgs : document[o] \in Held => registry.state # "none" /\ registry.org = o
AdmittedIsEnabled ==
  registry.state = "active" => (registry.enabled <=> document[registry.org] = "enabled")

DocumentInv == HeldByOwner /\ AdmittedIsEnabled

LEMMA ActDocuments ==
  ASSUME General, [Next]_vars, ~crossed, ~crossed', Orders, DocumentInv, NEW c \in Calls, Acts(c)
  PROVE  DocumentInv'
<1>1. CallOrder(c) /\ RegistryOrder /\ HeldByOwner /\ AdmittedIsEnabled
  BY DEF Orders, DocumentInv
<1>2. RegistryOK /\ PhaseOK(call[c]) /\ registry.enabled \in BOOLEAN
      /\ document \in [Orgs -> {"absent", "contact", "enabled", "disabled"}]
  BY DEF General, CallOK, DocumentOK, RegistryOK, RegistryRecords
<1>3. CASE Reserve(c)
  <2>1. PICK o \in Orgs, x \in CallRecords :
              /\ Starts(c, x) /\ Fresh(x, "provision", "create", o)
              /\ registry.state = "none" \/ (registry.state = "failed" /\ registry.org = o)
              /\ registry' = [Unregistered EXCEPT !.state = "provisioning", !.org = o,
                                                  !.reservation = c]
    BY <1>2, <1>3, Begins DEF General
  <2>2. registry'.state = "provisioning" /\ registry'.org = o
    BY <2>1, UnregisteredIsRecord DEF RegistryRecords
  <2>3. UNCHANGED document
    BY <1>3 DEF Reserve
  <2> QED BY <1>1, <2>1, <2>2, <2>3 DEF DocumentInv, HeldByOwner, AdmittedIsEnabled
<1>4. CASE UNCHANGED <<registry, document>>
  BY <1>1, <1>4 DEF DocumentInv, HeldByOwner, AdmittedIsEnabled
<1>5. CASE StartRotate(c) \/ StartSetEnabled(c) \/ StartRemove(c) \/ CreateSecret(c) \/ AddVersion(c)
           \/ DeleteSecret(c) \/ ProvisionCallFails(c) \/ Dies(c)
  BY <1>4, <1>5 DEF StartRotate, StartSetEnabled, StartRemove, CreateSecret, AddVersion,
                    DeleteSecret, ProvisionCallFails, Dies
<1>6. CASE Activate(c)
  <2>1. call[c].kind = "provision" /\ registry.state = "provisioning" /\ registry.reservation = c
        /\ registry.org = call[c].org
    BY <1>1, <1>6 DEF Activate, CallOrder
  <2>2. registry'.state = "active" /\ registry'.enabled /\ registry'.org = registry.org
        /\ registry.org \in Orgs
    BY <1>1, <1>2, <1>6, <2>1, RegistryFields DEF RegistryOrder
  <2>3. document' = [document EXCEPT ![registry.org] = "enabled"]
    BY <1>6, <2>1 DEF Activate
  <2>4. document'[registry.org] = "enabled" /\ \A o \in Orgs : o # registry.org => document'[o] = document[o]
    BY <1>2, <2>2, <2>3
  <2> QED BY <1>1, <2>2, <2>4 DEF DocumentInv, HeldByOwner, AdmittedIsEnabled
<1>7. CASE MarkFailed(c)
  <2>1. registry'.state = "failed" /\ registry'.org = registry.org
    BY <1>2, <1>7, RegistryFields
  <2>2. UNCHANGED document
    BY <1>7 DEF MarkFailed
  <2> QED BY <1>1, <2>1, <2>2 DEF DocumentInv, HeldByOwner, AdmittedIsEnabled
<1>8. CASE PublishRotated(c)
  <2>1. registry'.state = registry.state /\ registry'.org = registry.org
        /\ registry'.enabled = registry.enabled
    BY <1>2, <1>8, RegistryFields
  <2>2. UNCHANGED document
    BY <1>8 DEF PublishRotated
  <2> QED BY <1>1, <2>1, <2>2 DEF DocumentInv, HeldByOwner, AdmittedIsEnabled
<1>9. CASE SetEnabled(c)
  <2>1. registry.state # "none" /\ registry.org = call[c].org /\ registry.org \in Orgs
    BY <1>1, <1>2, <1>9 DEF SetEnabled, PhaseOK, CallOrder, RegistryOrder
  <2>2. registry'.state = registry.state /\ registry'.org = registry.org
        /\ registry'.enabled = (call[c].kind = "enable")
    BY <1>2, <1>9, <2>1, RegistryFields
  <2>3. document' = [document EXCEPT ![registry.org] = IF call[c].kind = "enable" THEN "enabled" ELSE "disabled"]
    BY <1>9, <2>1 DEF SetEnabled
  <2>4. document'[registry.org] = (IF call[c].kind = "enable" THEN "enabled" ELSE "disabled")
        /\ \A o \in Orgs : o # registry.org => document'[o] = document[o]
    BY <1>2, <2>1, <2>3
  <2>5. HeldByOwner'
    BY <1>1, <2>1, <2>2, <2>4 DEF HeldByOwner
  <2>6. AdmittedIsEnabled'
    BY <2>2, <2>4 DEF AdmittedIsEnabled
  <2> QED BY <2>5, <2>6 DEF DocumentInv
<1>10. CASE Revoke(c)
  <2>1. call[c].org \in Orgs
    BY <1>1, <1>2, <1>10 DEF Revoke, PhaseOK, CallOrder
  <2>2. CASE registry.state = "none" \/ registry.org = call[c].org
    <3>1. registry'.state = "deleting" /\ registry'.org = call[c].org
      BY <1>2, <1>10, <2>2, RegistryFields
    <3>2. \A o \in Orgs : o # call[c].org => document'[o] = document[o]
      BY <1>2, <1>10, <2>2 DEF Revoke
    <3> QED BY <1>1, <2>2, <3>1, <3>2 DEF DocumentInv, HeldByOwner, AdmittedIsEnabled
  <2>3. CASE ~(registry.state = "none" \/ registry.org = call[c].org)
    BY <1>4, <1>10, <2>3 DEF Revoke
  <2> QED BY <2>2, <2>3
<1>11. CASE DeleteDocuments(c)
  <2>1. registry.state = "deleting" /\ call[c].org \in Orgs
    BY <1>1, <1>2, <1>11 DEF DeleteDocuments, PhaseOK, CallOrder
  <2>2. UNCHANGED registry /\ document' = [document EXCEPT ![call[c].org] = "absent"]
    BY <1>11 DEF DeleteDocuments
  <2>3. \A o \in Orgs : document'[o] = document[o] \/ document'[o] = "absent"
    BY <1>2, <2>2
  <2> QED BY <1>1, <2>1, <2>2, <2>3 DEF DocumentInv, HeldByOwner, AdmittedIsEnabled, Held
<1>12. CASE Unregister(c)
  <2>1. registry.org = call[c].org /\ document[call[c].org] \notin Held
    BY <1>1, <1>2, <1>12 DEF Unregister, PhaseOK, CallOrder
  <2>2. UNCHANGED document /\ registry'.state = "none"
    BY <1>2, <1>12, RegistryFields DEF Unregister
  <2> QED BY <1>1, <2>1, <2>2 DEF DocumentInv, HeldByOwner, AdmittedIsEnabled
<1> QED BY <1>3, <1>5, <1>6, <1>7, <1>8, <1>9, <1>10, <1>11, <1>12 DEF Acts

LEMMA InitDocuments == Init => DocumentInv
BY UnregisteredIsRecord DEF Init, DocumentInv, HeldByOwner, AdmittedIsEnabled, Held

LEMMA NextDocuments ==
  General /\ (crossed \/ Orders) /\ (crossed \/ DocumentInv) /\ [Next]_vars => (crossed \/ DocumentInv)'
<1> SUFFICES ASSUME General, crossed \/ Orders, crossed \/ DocumentInv, [Next]_vars, ~crossed'
             PROVE  DocumentInv'
  OBVIOUS
<1>1. ~crossed /\ Orders /\ DocumentInv
  BY CrossedStays
<1>2. ASSUME NEW c \in Calls, Acts(c) PROVE DocumentInv'
  BY <1>1, <1>2, ActDocuments
<1>3. CASE /\ UNCHANGED <<registry, secret, made, call, handed, crossed>>
           /\ document' = document \/ \E r \in Requests, k \in Keys : Admit(r, k)
  <2>1. \A o \in Orgs : /\ document'[o] \in Held => document[o] \in Held
                        /\ document'[o] = "enabled" <=> document[o] = "enabled"
    BY <1>3, ContactHoldsNothing
  <2>2. registry.state = "active" => registry.org \in Orgs
    BY <1>1 DEF Orders, RegistryOrder
  <2>3. HeldByOwner'
    BY <1>1, <1>3, <2>1 DEF DocumentInv, HeldByOwner
  <2>4. AdmittedIsEnabled'
    BY <1>1, <1>3, <2>1, <2>2 DEF DocumentInv, AdmittedIsEnabled
  <2> QED BY <2>3, <2>4 DEF DocumentInv
<1> QED BY <1>2, <1>3, Steps

(* The documents follow the registration: what is left of a removed device *)
(* neither counts nor signs, and an active device is admitted exactly when *)
(* its document is enabled (setEnabled, remove).                           *)
THEOREM DocumentsAlwaysFollow == Spec => []DocumentsFollowRegistry
<1>1. Spec => []General
  BY InitGeneral, NextGeneral, PTL DEF Spec
<1>2. Spec => [](crossed \/ Orders)
  <2>1. Init => crossed \/ Orders
    BY InitOrder
  <2> QED BY <1>1, <2>1, NextOrder, PTL DEF Spec
<1>3. Spec => [](crossed \/ KeyInv)
  <2>1. Init => crossed \/ KeyInv
    BY InitKeys
  <2> QED BY <1>1, <1>2, <2>1, NextKeys, PTL DEF Spec
<1>4. Spec => [](crossed \/ DocumentInv)
  <2>1. Init => crossed \/ DocumentInv
    BY InitDocuments
  <2> QED BY <1>1, <1>2, <2>1, NextDocuments, PTL DEF Spec
<1>5. (crossed \/ Orders) /\ (crossed \/ KeyInv) /\ (crossed \/ DocumentInv) => DocumentsFollowRegistry
  BY DEF DocumentsFollowRegistry, Orders, RegistryOrder, KeyInv, UnknownInv, DocumentInv,
         HeldByOwner, AdmittedIsEnabled, Held
<1> QED BY <1>2, <1>3, <1>4, <1>5, PTL

-----------------------------------------------------------------------------
(* Admission.  This part holds whatever the callables overlap.             *)

LEMMA Ages ==
  ASSUME NEW n \in Int, NEW s \in Int
  PROVE  \A t, v \in Int : n - t < s /\ v >= t => n - v < s
OBVIOUS

LEMMA OneTick ==
  ASSUME NEW n \in Int, NEW m \in Int, NEW s \in Int, s > 1, n <= m + 1
  PROVE  n - m < s
OBVIOUS

LEMMA RequestAges ==
  ASSUME NEW n \in Int, NEW s \in Int, NEW t \in Int, NEW C \in Nat, NEW R \in Nat,
         R > 0, n <= s + R, t = s \/ t = s + 1 - C - R
  PROVE  n - t < C + 2 * R
OBVIOUS

(* What was good, or handed out, at a time stays known as such until it is *)
(* stale.                                                                  *)
LEMMA GoodStays ==
  ASSUME General, [Next]_vars, NEW k \in Keys, NEW t \in Int,
         LastGood(k) >= t, t <= now, now' - t < StaleTime
  PROVE  LastGood(k)' >= t
<1>1. General' /\ now \in Nat /\ now' \in Nat /\ now <= now'
  BY NextGeneral, ClockStep, Bounds DEF General, ClockOK
<1>2. vouched'[k] \in Int /\ vouched[k] \in Int /\ LastGood(k) \in Int
  BY <1>1, LastGoodTyped, Bounds DEF General, VouchedOK
<1>3. CASE UNCHANGED vars
  BY <1>3, Bounds DEF vars, LastGood, Good, Admits, Resolves
<1>4. CASE Vouch
  <2>1. vouched'[k] = now \/ vouched'[k] = LastGood(k)
    BY <1>4, Zenon DEF Vouch
  <2>2. vouched'[k] >= t
    BY <1>1, <1>2, <2>1
  <2>3. now' - vouched'[k] < StaleTime
    <3>1. StaleTime \in Int /\ now' \in Int
      BY <1>1, Bounds
    <3> QED BY <1>2, <2>2, <3>1, Ages
  <2>4. LastGood(k)' = IF Good(k)' THEN now' ELSE vouched'[k]
    BY <2>3 DEF LastGood
  <2> QED BY <1>1, <2>2, <2>4
<1> QED BY <1>3, <1>4 DEF Next

LEMMA HandedIsRecent ==
  ASSUME General, [Next]_vars, NEW k \in HandedKeys' \ HandedKeys
  PROVE  k \in Keys /\ LastGood(k)' >= now
<1>1. General' /\ now \in Nat /\ now' \in Nat /\ now <= now' /\ now' <= now + 1
  BY NextGeneral, ClockStep, Bounds DEF General, ClockOK
<1>2. k \in Keys
  <2>1. HandedOK' /\ made' \in 0..MaxKeys
    BY <1>1 DEF General, SecretOK
  <2>2. \A i \in DOMAIN handed' : handed'[i] \in HandedRecords
    BY <2>1 DEF HandedOK
  <2>3. PICK i \in DOMAIN handed' : k = handed'[i].key
    BY DEF HandedKeys
  <2> QED BY <2>2, <2>3 DEF HandedRecords
<1>3. Vouch
  BY DEF Next, vars, HandedKeys
<1>4. vouched'[k] = now
  BY <1>2, <1>3, Zenon DEF Vouch
<1>5. now' - vouched'[k] < StaleTime
  <2>1. StaleTime \in Int /\ StaleTime > 1
    BY Bounds
  <2>2. PICK n, m \in Nat : n = now' /\ m = now
    BY <1>1
  <2>3. n <= m + 1
    BY <1>1, <2>2
  <2>4. n - m < StaleTime
    BY <2>1, <2>3, OneTick
  <2> QED BY <1>4, <2>2, <2>4
<1>6. LastGood(k)' = IF Good(k)' THEN now' ELSE vouched'[k]
  BY <1>5 DEF LastGood
<1> QED BY <1>1, <1>2, <1>4, <1>6

LEMMA HandedStays == General /\ [Next]_vars => HandedKeys \subseteq HandedKeys'
<1> SUFFICES ASSUME General, [Next]_vars PROVE HandedKeys \subseteq HandedKeys'
  OBVIOUS
<1>1. CASE handed' = handed
  BY <1>1 DEF HandedKeys
<1>2. ASSUME NEW c \in Calls, HandsOut(c) PROVE HandedKeys \subseteq HandedKeys'
  BY <1>2, HandsOutKey
<1> QED BY <1>1, <1>2, HandedGrows

(* A version that Secret Manager has, with a key that somebody holds, was  *)
(* there before the step: new versions have new keys.                      *)
LEMMA ResolvedBefore ==
  ASSUME General, [Next]_vars, NEW n, Resolves(n)', secret'[n] \in HandedKeys
  PROVE  Resolves(n) /\ secret'[n] = secret[n]
<1>1. CASE UNCHANGED secret
  BY <1>1 DEF Resolves
<1>2. ASSUME NEW c \in Calls, CreateSecret(c) PROVE UNCHANGED secret
  <2>1. secret' # <<>>
    BY DEF Resolves
  <2> QED BY <1>2, <2>1 DEF CreateSecret
<1>3. ASSUME NEW c \in Calls, AddVersion(c) PROVE Resolves(n) /\ secret'[n] = secret[n]
  <2>1. CASE secret = NoSecret
    BY <1>1, <1>3, <2>1 DEF AddVersion
  <2>2. CASE secret # NoSecret
    BY <1>3, <2>2, VersionAdded
  <2> QED BY <2>1, <2>2
<1>4. ASSUME NEW c \in Calls, DeleteSecret(c) PROVE FALSE
  BY <1>4 DEF DeleteSecret, Resolves
<1> QED BY <1>1, <1>2, <1>3, <1>4, SecretChanges

(* What a request in service knows of keys: those handed out since it was  *)
(* sent are recent, and so are those that sign it when Secret Manager has  *)
(* them as versions it has read, or it has fetched them.                   *)
InTime(r) == request[r].since <= now /\ now <= request[r].since + RequestTime
SignersInv(r) ==
  /\ request[r].signers \subseteq HandedKeys
  /\ \A k \in HandedKeys : k \notin request[r].signers => LastGood(k) >= request[r].since
SecretsInv(r) ==
  request[r].pc = "secrets" =>
    \A n \in ToSet(request[r].names) :
      Resolves(n) /\ secret[n] \in request[r].signers => LastGood(secret[n]) >= request[r].since
FetchedSince(r, i) ==
  IF request[r].fetched[i].hit THEN request[r].since + 1 - CacheTime - RequestTime
                               ELSE request[r].since
CheckInv(r) ==
  request[r].pc = "check" =>
    \A i \in DOMAIN request[r].fetched :
      request[r].fetched[i].key \in request[r].signers =>
        LastGood(request[r].fetched[i].key) >= FetchedSince(r, i)
RequestInv(r) ==
  request[r].pc # "idle" => InTime(r) /\ SignersInv(r) /\ SecretsInv(r) /\ CheckInv(r)

(* A cached key was good, or handed out, at most the length of a request   *)
(* before it was cached.                                                   *)
CacheInv(n) ==
  /\ cache[n].expires <= now + CacheTime
  /\ cache[n].key \in HandedKeys /\ cache[n].expires > now =>
       LastGood(cache[n].key) >= cache[n].expires - CacheTime - RequestTime

AdmissionInv == (\A r \in Requests : RequestInv(r)) /\ (\A n \in Keys : CacheInv(n))

LEMMA RequestFacts ==
  ASSUME General, NEW r \in Requests
  PROVE  /\ request[r].since \in Nat /\ request[r].signers \subseteq Keys
         /\ request[r].names \in Seq(Keys)
         /\ \A i \in DOMAIN request[r].fetched :
              request[r].fetched[i].hit \in BOOLEAN /\ request[r].fetched[i].key \in Nat
<1>1. request[r] \in RequestRecords /\ request[r].fetched \in Seq(Fetches)
  BY DEF General, RequestOK, RequestRecords
<1>2. \A i \in DOMAIN request[r].fetched : request[r].fetched[i] \in Fetches
  BY <1>1
<1>3. request[r].since \in Nat /\ request[r].signers \subseteq Keys /\ request[r].names \in Seq(Keys)
  BY <1>1 DEF RequestRecords, Names
<1> QED BY <1>2, <1>3, Bounds DEF Fetches

LEMMA ClockFacts ==
  ASSUME General, [Next]_vars
  PROVE  now \in Nat /\ now' \in Nat /\ now <= now' /\ now' <= now + 1
BY ClockStep, Bounds DEF General, ClockOK

(* Until a request is cut off nothing it may rely on becomes stale. *)
LEMMA StaysForRequest ==
  ASSUME General, [Next]_vars, NEW r \in Requests, InTime(r),
         now' <= request[r].since + RequestTime, NEW k \in Keys, NEW t \in Int, LastGood(k) >= t,
         t = request[r].since \/ t = request[r].since + 1 - CacheTime - RequestTime
  PROVE  LastGood(k)' >= t
<1>1. PICK s, n, m \in Nat : s = request[r].since /\ n = now' /\ m = now
  BY ClockFacts, RequestFacts
<1>2. /\ CacheTime \in Nat /\ RequestTime \in Nat /\ RequestTime > 0
      /\ StaleTime = CacheTime + 2 * RequestTime
  BY Bounds
<1>3. s <= m /\ n <= s + RequestTime /\ (t = s \/ t = s + 1 - CacheTime - RequestTime)
  BY <1>1 DEF InTime
<1>4. t <= m
  BY <1>2, <1>3
<1>5. n - t < CacheTime + 2 * RequestTime
  BY <1>2, <1>3, RequestAges
<1> QED BY <1>1, <1>2, <1>4, <1>5, GoodStays

(* A request that waits for its turn. *)
LEMMA RequestKeeps ==
  ASSUME General, [Next]_vars, NEW r \in Requests, RequestInv(r), request'[r] = request[r]
  PROVE  RequestInv(r)'
<1> SUFFICES ASSUME request[r].pc # "idle" PROVE RequestInv(r)'
  BY DEF RequestInv
<1>1. InTime(r) /\ SignersInv(r) /\ SecretsInv(r) /\ CheckInv(r)
  BY DEF RequestInv
<1>2. now \in Nat /\ now' \in Nat /\ now <= now' /\ request[r].since \in Nat
      /\ request[r].signers \subseteq Keys /\ HandedKeys \subseteq Keys
  BY ClockFacts, RequestFacts, HandedKeysTyped DEF General, SecretOK
<1>3. InTime(r)'
  <2>1. CASE now' = now
    BY <1>1, <2>1 DEF InTime
  <2>2. CASE Tick
    BY <1>1, <1>2, <2>2, Bounds DEF InTime, Tick
  <2> QED BY <2>1, <2>2, ClockChanges
<1>4. ASSUME NEW k \in Keys, NEW t \in Int, LastGood(k) >= t,
             t = request[r].since \/ t = request[r].since + 1 - CacheTime - RequestTime
      PROVE  LastGood(k)' >= t
  <2>1. now' <= request[r].since + RequestTime
    BY <1>3 DEF InTime
  <2> QED BY <1>1, <1>2, <1>4, <2>1, StaysForRequest
<1>5. SignersInv(r)'
  <2>1. request[r].signers \subseteq HandedKeys'
    BY <1>1, HandedStays DEF SignersInv
  <2>2. ASSUME NEW k \in HandedKeys', k \notin request[r].signers
        PROVE  LastGood(k)' >= request[r].since
    <3>1. CASE k \in HandedKeys
      BY <1>1, <1>2, <1>4, <2>2, <3>1 DEF SignersInv
    <3>2. CASE k \notin HandedKeys
      <4>1. LastGood(k)' >= now /\ k \in Keys
        BY <2>2, <3>2, HandedIsRecent
      <4>2. LastGood(k)' \in Int
        BY <4>1, NextGeneral, LastGoodTyped, <1>2, Bounds DEF LastGood, General, VouchedOK
      <4> QED BY <1>1, <1>2, <4>1, <4>2 DEF InTime
    <3> QED BY <3>1, <3>2
  <2> QED BY <2>1, <2>2 DEF SignersInv
<1>6. SecretsInv(r)'
  <2> SUFFICES ASSUME request[r].pc = "secrets", NEW n \in ToSet(request[r].names), Resolves(n)',
                      secret'[n] \in request[r].signers
               PROVE  LastGood(secret[n])' >= request[r].since
    BY DEF SecretsInv
  <2>1. Resolves(n) /\ secret'[n] = secret[n]
    BY <1>1, ResolvedBefore DEF SignersInv
  <2>2. LastGood(secret[n]) >= request[r].since
    BY <1>1, <2>1 DEF SecretsInv
  <2>3. PICK k \in Keys : k = secret[n] /\ k = secret'[n]
    BY <1>2, <2>1
  <2>4. LastGood(k)' >= request[r].since
    BY <1>2, <1>4, <2>2, <2>3
  <2> QED BY <2>3, <2>4 DEF LastGood, Good
<1>7. CheckInv(r)'
  <2> SUFFICES ASSUME request[r].pc = "check", NEW i \in DOMAIN request[r].fetched,
                      request[r].fetched[i].key \in request[r].signers
               PROVE  LastGood(request[r].fetched[i].key)' >= FetchedSince(r, i)'
    BY DEF CheckInv
  <2>1. LastGood(request[r].fetched[i].key) >= FetchedSince(r, i)
    BY <1>1 DEF CheckInv
  <2>2. FetchedSince(r, i)' = FetchedSince(r, i)
    BY DEF FetchedSince
  <2>3. /\ FetchedSince(r, i) \in Int
        /\ FetchedSince(r, i) = request[r].since
           \/ FetchedSince(r, i) = request[r].since + 1 - CacheTime - RequestTime
    BY <1>2, Bounds DEF FetchedSince
  <2>4. PICK k \in Keys : k = request[r].fetched[i].key /\ k = request'[r].fetched[i].key
    BY <1>2
  <2>5. LastGood(k)' >= FetchedSince(r, i)
    BY <1>4, <2>1, <2>3, <2>4
  <2> QED BY <2>2, <2>4, <2>5 DEF LastGood, Good
<1> QED BY <1>3, <1>5, <1>6, <1>7 DEF RequestInv

(* getDevice names versions that make their keys good. *)
LEMMA ReceiveStarts ==
  ASSUME General, [Next]_vars, NEW r \in Requests, Receive(r)
  PROVE  RequestInv(r)'
<1>1. request'[r] = Received
  <2>1. request' = [request EXCEPT ![r] = Received]
    BY RequestMovesTo
  <2> QED BY <2>1, RequestMoves, ReceivedIsRecord DEF General, RequestOK
<1>2. /\ request'[r].pc = "secrets" /\ request'[r].names = ActiveVersions
      /\ request'[r].since = now /\ request'[r].signers = HandedKeys
  BY <1>1 DEF Received
<1>3. UNCHANGED <<now, registry, secret, handed>> /\ Admits
  BY DEF Receive
<1>4. now \in Nat
  BY ClockFacts
<1>5. InTime(r)'
  BY <1>2, <1>3, <1>4, Bounds DEF InTime
<1>6. SignersInv(r)'
  BY <1>2, <1>3 DEF SignersInv, HandedKeys
<1>7. SecretsInv(r)'
  <2> SUFFICES ASSUME NEW n \in ToSet(ActiveVersions), Resolves(n)' PROVE LastGood(secret[n])' >= now
    BY <1>2 DEF SecretsInv
  <2>1. PICK i \in DOMAIN ActiveVersions : n = ActiveVersions[i]
    BY DEF ToSet
  <2>2. /\ i \in DOMAIN registry.versions /\ n = registry.versions[i]
        /\ i = 1 \/ (i = 2 /\ now <= registry.grace)
    BY <2>1, ActiveAreListed DEF General
  <2>3. Resolves(n)
    BY <1>3 DEF Resolves
  <2>4. Good(secret[n])
    BY <1>3, <2>2, <2>3 DEF Good
  <2>5. Good(secret[n])'
    BY <1>3, <2>4 DEF Good, Admits, Resolves
  <2> QED BY <1>3, <1>4, <2>5 DEF LastGood
<1>8. CheckInv(r)'
  BY <1>2 DEF CheckInv
<1> QED BY <1>5, <1>6, <1>7, <1>8 DEF RequestInv

(* getSecrets answers with keys that were good when the request was        *)
(* received, or that were cached from such an answer.                      *)
LEMMA GetSecretsAnswers ==
  ASSUME General, AdmissionInv, [Next]_vars, NEW r \in Requests, GetSecrets(r)
  PROVE  RequestInv(r)'
<1>1. RequestOK /\ RequestInv(r)
  BY DEF General, AdmissionInv
<1>2. CASE request' = [request EXCEPT ![r] = Waiting]
  <2>1. request'[r].pc = "idle"
    BY <1>1, <1>2, RequestMoves, WaitingIsRecord
  <2> QED BY <2>1 DEF RequestInv
<1>3. CASE request' = [request EXCEPT ![r] = Answered(r)]
           /\ \A n \in ToSet(request[r].names) : Cached(n) \/ Resolves(n)
  <2>1. request'[r] = Answered(r)
    BY <1>1, <1>3, AnsweredIsRecord, RequestMoves
  <2>2. /\ request'[r].pc = "check" /\ request'[r].since = request[r].since
        /\ request'[r].signers = request[r].signers
        /\ DOMAIN request'[r].fetched = DOMAIN request[r].names
        /\ \A i \in DOMAIN request[r].names : request'[r].fetched[i] = Fetch(request[r].names[i])
    BY <1>3, <2>1, AnsweredIsRecord
  <2>3. UNCHANGED <<now, registry, secret, handed>> /\ request[r].pc = "secrets"
    BY DEF GetSecrets
  <2>4. InTime(r) /\ SignersInv(r) /\ SecretsInv(r)
    BY <1>1, <2>3 DEF RequestInv
  <2>5. InTime(r)'
    BY <2>2, <2>3, <2>4 DEF InTime
  <2>6. now' <= request[r].since + RequestTime
    BY <2>3, <2>4 DEF InTime
  <2>7. HandedKeys \subseteq Keys /\ request[r].since \in Nat /\ request[r].names \in Seq(Keys)
    BY HandedKeysTyped, RequestFacts DEF General, SecretOK
  <2>8. SignersInv(r)'
    <3> SUFFICES ASSUME NEW k \in HandedKeys, k \notin request[r].signers
                 PROVE  LastGood(k)' >= request[r].since
      BY <2>2, <2>3, <2>4 DEF SignersInv, HandedKeys
    <3>1. LastGood(k) >= request[r].since
      BY <2>4 DEF SignersInv
    <3> QED BY <2>4, <2>6, <2>7, <3>1, StaysForRequest
  <2>9. CheckInv(r)'
    <3> SUFFICES ASSUME NEW i \in DOMAIN request[r].names,
                        request'[r].fetched[i].key \in request[r].signers
                 PROVE  LastGood(request[r].fetched[i].key)' >= FetchedSince(r, i)'
      BY <2>2 DEF CheckInv
    <3> DEFINE n == request[r].names[i]
    <3>1. n \in Keys /\ n \in ToSet(request[r].names)
      BY <2>7 DEF ToSet
    <3>2. request'[r].fetched[i] = Fetch(n)
      BY <2>2
    <3>3. Cached(n) \/ Resolves(n)
      BY <1>3, <3>1
    <3> HIDE DEF n
    <3>4. PICK k \in HandedKeys : k = request'[r].fetched[i].key
      BY <2>4 DEF SignersInv
    <3>5. CASE Cached(n)
      <4>1. k = cache[n].key /\ request'[r].fetched[i].hit = TRUE
        BY <3>2, <3>4, <3>5 DEF Fetch
      <4>2. cache[n].expires > now /\ CacheInv(n)
        BY <3>1, <3>5 DEF Cached, AdmissionInv
      <4>3. LastGood(k) >= cache[n].expires - CacheTime - RequestTime
        BY <3>4, <4>1, <4>2 DEF CacheInv
      <4>4. cache[n].expires \in Int /\ now \in Nat /\ LastGood(k) \in Int
        BY <2>7, <3>1, ClockFacts, LastGoodTyped, Bounds DEF General, CacheOK, CacheRecords
      <4>5. LastGood(k) >= request[r].since + 1 - CacheTime - RequestTime
        <5>1. request[r].since <= now
          BY <2>4 DEF InTime
        <5>2. PICK e, s, g, m \in Int : e = cache[n].expires /\ s = request[r].since /\ g = LastGood(k) /\ m = now
          BY <2>7, <4>4
        <5>3. g >= e - CacheTime - RequestTime /\ e > m /\ s <= m
          BY <4>2, <4>3, <5>1, <5>2
        <5>4. g >= s + 1 - CacheTime - RequestTime
          BY <5>3, Bounds
        <5> QED BY <5>2, <5>4
      <4>6. request[r].since + 1 - CacheTime - RequestTime \in Int
        BY <2>7, Bounds
      <4>7. LastGood(k)' >= request[r].since + 1 - CacheTime - RequestTime
        BY <2>4, <2>6, <2>7, <4>5, <4>6, StaysForRequest
      <4> QED BY <2>2, <3>4, <4>1, <4>7 DEF FetchedSince, LastGood, Good
    <3>6. CASE ~Cached(n)
      <4>1. Resolves(n) /\ k = secret[n] /\ request'[r].fetched[i].hit = FALSE
        BY <3>2, <3>3, <3>4, <3>6 DEF Fetch
      <4>2. LastGood(k) >= request[r].since
        BY <2>3, <2>4, <3>1, <3>4, <4>1 DEF SecretsInv
      <4>3. LastGood(k)' >= request[r].since
        BY <2>4, <2>6, <2>7, <4>2, StaysForRequest
      <4> QED BY <2>2, <3>4, <4>1, <4>3 DEF FetchedSince, LastGood, Good
    <3> QED BY <3>5, <3>6
  <2>10. SecretsInv(r)'
    BY <2>2 DEF SecretsInv
  <2> QED BY <2>5, <2>8, <2>9, <2>10 DEF RequestInv
<1> QED BY <1>2, <1>3, RequestMovesTo

LEMMA NextRequestInv ==
  ASSUME General, AdmissionInv, [Next]_vars, NEW r \in Requests
  PROVE  RequestInv(r)'
<1>1. RequestOK /\ RequestInv(r)
  BY DEF General, AdmissionInv
<1>2. ASSUME NEW s \in Requests, NEW x, request' = [request EXCEPT ![s] = x], s # r
      PROVE  RequestInv(r)'
  <2>1. request'[r] = request[r]
    BY <1>1, <1>2 DEF RequestOK
  <2> QED BY <1>1, <2>1, RequestKeeps
<1>3. ASSUME NEW s \in Requests, Receive(s) PROVE RequestInv(r)'
  <2>1. CASE s = r
    BY <1>3, <2>1, ReceiveStarts
  <2> QED BY <1>2, <1>3, <2>1, RequestMovesTo
<1>4. ASSUME NEW s \in Requests, GetSecrets(s) PROVE RequestInv(r)'
  <2>1. CASE s = r
    BY <1>4, <2>1, GetSecretsAnswers
  <2> QED BY <1>2, <1>4, <2>1, RequestMovesTo
<1>5. ASSUME NEW s \in Requests, request' = [request EXCEPT ![s] = Waiting] PROVE RequestInv(r)'
  <2>1. CASE s = r
    <3>1. request'[r].pc = "idle"
      BY <1>1, <1>5, <2>1, RequestMoves, WaitingIsRecord
    <3> QED BY <3>1 DEF RequestInv
  <2> QED BY <1>2, <1>5, <2>1
<1>6. ASSUME NEW s \in Requests, Refuse(s) \/ \E k \in Keys : Admit(s, k) PROVE RequestInv(r)'
  BY <1>5, <1>6 DEF Refuse, Admit
<1>7. CASE request' = request
  BY <1>1, <1>7, RequestKeeps
<1> QED BY <1>3, <1>4, <1>6, <1>7, RequestChanges

(* An entry of the cache that stays. *)
LEMMA CacheKeeps ==
  ASSUME General, [Next]_vars, NEW n \in Keys, CacheInv(n), cache'[n] = cache[n]
  PROVE  CacheInv(n)'
<1>1. PICK e \in Nat : e = cache[n].expires
  BY Bounds DEF General, CacheOK, CacheRecords
<1>2. PICK m, q \in Nat : m = now /\ q = now' /\ m <= q /\ q <= m + 1
  BY ClockFacts
<1>3. e <= m + CacheTime
  BY <1>1, <1>2 DEF CacheInv
<1>4. cache'[n].expires <= now' + CacheTime
  BY <1>1, <1>2, <1>3, Bounds
<1>5. ASSUME NEW k \in HandedKeys', k = cache[n].key, e > q
      PROVE  LastGood(k)' >= e - CacheTime - RequestTime
  <2>1. e - CacheTime - RequestTime <= m /\ q - (e - CacheTime - RequestTime) < StaleTime
        /\ e - CacheTime - RequestTime \in Int /\ e > m
    BY <1>2, <1>3, <1>5, Bounds
  <2>2. CASE k \in HandedKeys
    <3>1. LastGood(k) >= e - CacheTime - RequestTime
      BY <1>1, <1>2, <1>5, <2>1, <2>2 DEF CacheInv
    <3>2. k \in Keys
      BY <2>2, HandedKeysTyped DEF General, SecretOK
    <3> QED BY <1>2, <2>1, <3>1, <3>2, GoodStays
  <2>3. CASE k \notin HandedKeys
    <3>1. k \in Keys /\ LastGood(k)' >= now
      BY <1>5, <2>3, HandedIsRecent
    <3>2. PICK g \in Int : g = LastGood(k)'
      BY <3>1, NextGeneral, LastGoodTyped, <1>2, Bounds DEF LastGood, General, VouchedOK
    <3>3. g >= e - CacheTime - RequestTime
      BY <1>2, <2>1, <3>1, <3>2, Bounds
    <3> QED BY <3>2, <3>3
  <2> QED BY <2>2, <2>3
<1>6. cache[n].key \in HandedKeys' /\ e > q =>
        LastGood(cache[n].key)' >= e - CacheTime - RequestTime
  <2> SUFFICES ASSUME cache[n].key \in HandedKeys', e > q
               PROVE  LastGood(cache[n].key)' >= e - CacheTime - RequestTime
    OBVIOUS
  <2>1. PICK k \in HandedKeys' : k = cache[n].key /\ k = cache'[n].key
    OBVIOUS
  <2>2. LastGood(k)' >= e - CacheTime - RequestTime
    BY <1>5, <2>1
  <2> QED BY <2>1, <2>2 DEF LastGood, Good
<1> QED BY <1>1, <1>2, <1>4, <1>6 DEF CacheInv

(* An entry that a request loads when it ends. *)
LEMMA CacheLoads ==
  ASSUME General, AdmissionInv, [Next]_vars, NEW r \in Requests, request[r].pc = "check",
         CacheLoaded(r), UNCHANGED <<now, handed>>, NEW n \in Keys
  PROVE  CacheInv(n)'
<1>1. CASE cache'[n] = cache[n]
  BY <1>1, CacheKeeps DEF AdmissionInv
<1>2. ASSUME NEW i \in DOMAIN request[r].fetched, ~request[r].fetched[i].hit,
             cache'[n] = [key |-> request[r].fetched[i].key, expires |-> now + CacheTime]
      PROVE  CacheInv(n)'
  <2>1. InTime(r) /\ SignersInv(r) /\ CheckInv(r)
    BY DEF AdmissionInv, RequestInv
  <2>2. PICK s, m \in Nat : s = request[r].since /\ m = now /\ m = now' /\ m <= s + RequestTime
    BY <2>1, ClockFacts, RequestFacts DEF InTime
  <2>3. cache'[n].expires = m + CacheTime /\ cache'[n].key = request[r].fetched[i].key
    BY <1>2, <2>2
  <2>4. ASSUME NEW k \in HandedKeys, k = request[r].fetched[i].key
        PROVE  LastGood(k)' >= m - RequestTime
    <3>1. LastGood(k) >= request[r].since
      <4>1. CASE k \in request[r].signers
        BY <1>2, <2>1, <2>4, <4>1 DEF CheckInv, FetchedSince
      <4>2. CASE k \notin request[r].signers
        BY <2>1, <2>4, <4>2 DEF SignersInv
      <4> QED BY <4>1, <4>2
    <3>2. k \in Keys
      BY HandedKeysTyped DEF General, SecretOK
    <3>3. LastGood(k)' >= request[r].since
      BY <2>1, <2>2, <3>1, <3>2, StaysForRequest
    <3>4. PICK g \in Int : g = LastGood(k)'
      BY <3>2, NextGeneral, LastGoodTyped, <2>2, Bounds DEF LastGood, General, VouchedOK
    <3>5. g >= m - RequestTime
      BY <2>2, <3>3, <3>4, Bounds
    <3> QED BY <3>4, <3>5
  <2>5. cache'[n].expires <= now' + CacheTime
    BY <2>2, <2>3, Bounds
  <2>6. ASSUME cache'[n].key \in HandedKeys'
        PROVE  LastGood(cache[n].key)' >= cache'[n].expires - CacheTime - RequestTime
    <3>1. PICK k \in HandedKeys : k = cache'[n].key
      BY <2>6 DEF HandedKeys
    <3>2. LastGood(k)' >= m - RequestTime
      BY <2>3, <2>4, <3>1
    <3>3. cache'[n].expires - CacheTime - RequestTime = m - RequestTime
      BY <2>2, <2>3, Bounds
    <3> QED BY <3>1, <3>2, <3>3 DEF LastGood, Good
  <2> QED BY <2>5, <2>6 DEF CacheInv
<1> QED BY <1>1, <1>2, CacheAfterLoad

LEMMA InitAdmission == Init => AdmissionInv
<1> SUFFICES ASSUME Init PROVE AdmissionInv
  OBVIOUS
<1>1. ASSUME NEW r \in Requests PROVE RequestInv(r)
  BY DEF Init, RequestInv, Waiting
<1>2. ASSUME NEW n \in Keys PROVE CacheInv(n)
  BY Bounds DEF Init, CacheInv
<1> QED BY <1>1, <1>2 DEF AdmissionInv

LEMMA NextAdmission == General /\ AdmissionInv /\ [Next]_vars => AdmissionInv'
<1> SUFFICES ASSUME General, AdmissionInv, [Next]_vars PROVE AdmissionInv'
  OBVIOUS
<1>1. ASSUME NEW r \in Requests PROVE RequestInv(r)'
  BY NextRequestInv
<1>2. ASSUME NEW n \in Keys PROVE CacheInv(n)'
  <2>1. CASE cache' = cache
    BY <2>1, CacheKeeps DEF AdmissionInv
  <2>2. ASSUME NEW r \in Requests, Receive(r) \/ GetSecrets(r) PROVE cache' = cache
    BY <2>2 DEF Receive, GetSecrets
  <2>3. ASSUME NEW r \in Requests, Refuse(r) \/ \E k \in Keys : Admit(r, k) PROVE CacheInv(n)'
    <3>1. request[r].pc = "check" /\ CacheLoaded(r) /\ UNCHANGED <<now, handed>>
      BY <2>3 DEF Refuse, Admit
    <3> QED BY <3>1, CacheLoads
  <2> QED BY <2>1, <2>2, <2>3, RequestChanges
<1> QED BY <1>1, <1>2 DEF AdmissionInv

LEMMA AdmittedRecently ==
  ASSUME General, AdmissionInv, NEW r \in Requests, NEW k \in Keys, Admit(r, k)
  PROVE  now - LastGood(k) < StaleTime
<1>1. request[r].pc = "check" /\ k \in request[r].signers
  BY DEF Admit, HasValidSignature
<1>2. PICK i \in DOMAIN request[r].fetched : k = request[r].fetched[i].key
  BY DEF Admit, HasValidSignature, Fetched
<1>3. InTime(r) /\ LastGood(k) >= FetchedSince(r, i)
  BY <1>1, <1>2 DEF AdmissionInv, RequestInv, CheckInv
<1>4. PICK s, m \in Nat : s = request[r].since /\ m = now /\ m <= s + RequestTime
  BY <1>3, RequestFacts, Bounds DEF InTime, General, ClockOK
<1>5. PICK g \in Int : g = LastGood(k)
  BY LastGoodTyped DEF General
<1>6. g >= s \/ g >= s + 1 - CacheTime - RequestTime
  BY <1>3, <1>4, <1>5 DEF FetchedSince
<1>7. m - g < CacheTime + 2 * RequestTime
  BY <1>4, <1>6, Bounds
<1> QED BY <1>4, <1>5, <1>7, Bounds

(* A request is served only with a key that was good, or handed out, less  *)
(* than StaleTime ago: the cache of getSecrets and the time a request is   *)
(* in service are all that a rotated, disabled or removed key outlives,    *)
(* whatever callables and requests overlap.                                *)
THEOREM AdmittedAlwaysRecent == Spec => AdmittedKeyIsRecent
<1>1. Spec => []General
  BY InitGeneral, NextGeneral, PTL DEF Spec
<1>2. Spec => []AdmissionInv
  BY <1>1, InitAdmission, NextAdmission, PTL DEF Spec
<1>3. General /\ AdmissionInv /\ [Next]_vars =>
        [\A r \in Requests, k \in Keys : Admit(r, k) => now - LastGood(k) < StaleTime]_vars
  BY AdmittedRecently
<1> QED BY <1>1, <1>2, <1>3, PTL DEF Spec, AdmittedKeyIsRecent
=============================================================================
