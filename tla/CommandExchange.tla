--------------------------- MODULE CommandExchange ---------------------------
(***************************************************************************)
(* How a command reaches the terminal and its result comes back:           *)
(*  - the cloud's command documents, fingerprint lock and enrollment       *)
(*    documents (employees/management.ts and exchangeCommands in           *)
(*    ingest/firestore-repository.ts);                                     *)
(*  - the bridge's exchangeCommandsOnce and executeCommand                 *)
(*    (internal/bridge/runner.go) with its durable receipts                *)
(*    (PutCommandResult and its kin in internal/store/store.go).           *)
(*                                                                         *)
(* One exchange is one request.  The cloud function serves it in three     *)
(* steps that others interleave with: a transaction for the results it     *)
(* brings, a query for deliverable commands outside any transaction, and a *)
(* transaction that delivers one of them.  The bridge runs one exchange at *)
(* a time but gives up waiting after a timeout, while the function goes    *)
(* on; Handlers are the requests the cloud may be serving at once.         *)
(***************************************************************************)
EXTENDS Naturals, FiniteSets

CONSTANTS
  Upserts,          \* upsert_user commands, one for a new employee
  Enrolls,          \* enroll_fingerprint commands
  EmployeeOf,       \* the employee of each command
  Handlers,         \* requests in service at the cloud
  LeaseTime,        \* two minutes
  UpsertLife,       \* a day
  EnrollLife,       \* five minutes, for the command and the lock
  ResultLimit,      \* results in one request (20)
  CandidateLimit,   \* candidates of one query (20)
  MaxTime,          \* bound on the clock
  MaxFaults         \* bound on crashes, timeouts, device errors, removals

Commands == Upserts \union Enrolls
Employees == {EmployeeOf[c] : c \in Commands}
None == 0           \* no command

ASSUME CommandsAssumption ==
  /\ Upserts \subseteq Nat \ {0} /\ Enrolls \subseteq Nat \ {0}
  /\ IsFiniteSet(Upserts) /\ IsFiniteSet(Enrolls)
  /\ Upserts \intersect Enrolls = {}
  /\ DOMAIN EmployeeOf = Commands
ASSUME TimesAssumption ==
  /\ LeaseTime \in Nat /\ UpsertLife \in Nat /\ EnrollLife \in Nat
  /\ ResultLimit \in Nat /\ CandidateLimit \in Nat
  /\ MaxTime \in Nat /\ MaxFaults \in Nat

Outcomes == {"succeeded", "failed"}
Live == {"queued", "dispatched"}

VARIABLES
  now,
  \* Firestore
  state,            \* of each command: "none", Live, Outcomes or "removed"
  expiresAt,        \* of each command (and of the lock that names it)
  leaseUntil,       \* of each command
  lock,             \* commandLocks/fingerprint: the command it names, or None
  enrollment,       \* deviceEnrollments, by employee
  handler,          \* what each request in service knows; its results are,
                    \* once applied, the ones it acknowledges
  \* the bridge
  receipt,          \* commands/results: "none", "interrupted" or an outcome
  cached,           \* commands/users: employees believed to be on the terminal
  pc,               \* the point exchangeCommandsOnce is at
  awaiting,         \* the request it waits for
  cur,              \* the command in hand
  usedCache,        \* the terminal user was taken from the cache
  outcome,          \* the result of the command in hand
  \* the terminal
  onDevice,         \* employees that are users of the terminal
  assigned,         \* enrollments whose fingerprint the terminal accepted
  executions,       \* how often each command was taken to the terminal
  faults

cloud == <<state, expiresAt, leaseUntil, lock, enrollment>>
bridge == <<receipt, cached, pc, awaiting, cur, usedCache, outcome>>
device == <<onDevice, assigned, executions>>
vars == <<now, cloud, handler, bridge, device, faults>>

NoRequest == [phase |-> "free", results |-> {}, at |-> 0, candidates |-> {},
              command |-> None]

NoEnrollment == [state |-> "none", command |-> None, print |-> FALSE]

Init ==
  /\ now = 0
  /\ state = [c \in Commands |-> "none"]
  /\ expiresAt = [c \in Commands |-> 0]
  /\ leaseUntil = [c \in Commands |-> 0]
  /\ lock = None
  /\ enrollment = [m \in Employees |-> NoEnrollment]
  /\ handler = [h \in Handlers |-> NoRequest]
  /\ receipt = [c \in Commands |-> "none"]
  /\ cached = {}
  /\ pc = "idle" /\ awaiting = {} /\ cur = None
  /\ usedCache = FALSE /\ outcome = "failed"
  /\ onDevice = {} /\ assigned = {}
  /\ executions = [c \in Commands |-> 0]
  /\ faults = 0

Fault ==
  /\ faults < MaxFaults
  /\ faults' = faults + 1

(* The first n of a set of ids, in the order of document and file names. *)
First(S, n) == {c \in S : Cardinality({d \in S : d < c}) < n}

-----------------------------------------------------------------------------
(* The administrators' functions.                                          *)

(* createEmployeeInFirestore, for a new employee of the terminal's branch. *)
QueueUpsert(c) ==
  LET m == EmployeeOf[c] IN
  /\ c \in Upserts /\ state[c] = "none" /\ enrollment[m] = NoEnrollment
  /\ state' = [state EXCEPT ![c] = "queued"]
  /\ expiresAt' = [expiresAt EXCEPT ![c] = now + UpsertLife]
  /\ enrollment' = [enrollment EXCEPT ![m].state = "user_pending", ![m].command = c]
  /\ UNCHANGED <<now, leaseUntil, lock, handler, bridge, device, faults>>

(* Mutant: the lock lasts only as long as the lease of its command. *)
LockOutOfLease == lock # None => leaseUntil[lock] <= now

LockIsFree == lock # None => expiresAt[lock] <= now

(* queueFingerprintEnrollment: one transaction. *)
QueueEnroll(c) ==
  LET m == EmployeeOf[c] IN
  /\ c \in Enrolls /\ state[c] = "none" /\ LockIsFree
  /\ state' = [state EXCEPT ![c] = "queued"]
  /\ expiresAt' = [expiresAt EXCEPT ![c] = now + EnrollLife]
  /\ lock' = c
  /\ enrollment' = [enrollment EXCEPT ![m] =
                      [state |-> "queued", command |-> c, print |-> TRUE]]
  /\ UNCHANGED <<now, leaseUntil, handler, bridge, device, faults>>

-----------------------------------------------------------------------------
(* The cloud function, exchangeCommands.                                   *)

RequestArrives(h) ==
  /\ handler[h].phase = "sent"
  /\ handler' = [handler EXCEPT ![h].phase = "results", ![h].at = now]
  /\ UNCHANGED <<now, cloud, bridge, device, faults>>

(* Mutant: a failed fingerprint is not protected from later results. *)
PreservesUnlessFailed(c) ==
  LET e == enrollment[EmployeeOf[c]] IN
  /\ e.state # "none" /\ e.command # c
  /\ c \in Enrolls \/ e.state \in {"queued", "capturing", "enrolled"}

(* A result that is not for the enrollment's current command must not hide *)
(* what that command says of the fingerprint.                              *)
PreservesEnrollment(c) ==
  LET e == enrollment[EmployeeOf[c]] IN
  /\ e.state # "none" /\ e.command # c
  /\ \/ c \in Enrolls
     \/ e.state \in {"queued", "capturing", "enrolled"}
     \/ e.state = "failed" /\ e.print

(* The state of the enrollment that the result o of command c brings. *)
EnrollmentAfter(c, o) ==
  IF o = "failed" THEN "failed" ELSE IF c \in Enrolls THEN "enrolled" ELSE "user_synced"

(* The writes of one transaction to the enrollment documents, news being   *)
(* the state each writing command brings: the last write of a document is  *)
(* the one that stays.                                                     *)
Written(m, c, new) == [enrollment[m] EXCEPT !.state = new, !.command = c]

LastWrite(news, m) ==
  LET mine == {c \in DOMAIN news : EmployeeOf[c] = m}
      last == CHOOSE x \in mine : \A y \in mine : y <= x
  IN  IF mine = {} THEN enrollment[m] ELSE Written(m, last, news[last])

WriteEnrollments(news) == enrollment' = [m \in Employees |-> LastWrite(news, m)]

Reported(h) == {r[1] : r \in handler[h].results}
ReportOf(h, c) == (CHOOSE r \in handler[h].results : r[1] = c)[2]

(* A command that is already final keeps its state. *)
Unfinished(c) == state[c] \notin Outcomes

(* The first transaction; every reported command is acknowledged, unless   *)
(* there is no document of it.                                             *)
ApplyResults(h) ==
  LET known == {c \in Reported(h) : state[c] # "removed"}
      fresh == {c \in known : Unfinished(c)}
  IN
  /\ handler[h].phase = "results"
  /\ state' = [c \in Commands |-> IF c \in fresh THEN ReportOf(h, c) ELSE state[c]]
  /\ lock' = IF lock \in fresh \intersect Enrolls THEN None ELSE lock
  /\ WriteEnrollments([c \in {d \in fresh : ~PreservesEnrollment(d)} |->
                         EnrollmentAfter(c, ReportOf(h, c))])
  /\ handler' = [handler EXCEPT ![h].phase = "query",
                   ![h].results = {r \in handler[h].results : r[1] \in known}]
  /\ UNCHANGED <<now, expiresAt, leaseUntil, bridge, device, faults>>

(* Mutant: only commands never delivered are candidates. *)
QueryQueued(h) ==
  LET live == {c \in Commands : state[c] = "queued"} IN
  /\ handler[h].phase = "query"
  /\ handler' = [handler EXCEPT ![h].phase = "deliver",
                                ![h].candidates = First(live, CandidateLimit)]
  /\ UNCHANGED <<now, cloud, bridge, device, faults>>

(* Mutant: the query does not ask for a state. *)
QueryAnyState(h) ==
  LET stored == {c \in Commands : state[c] \notin {"none", "removed"}} IN
  /\ handler[h].phase = "query"
  /\ handler' = [handler EXCEPT ![h].phase = "deliver",
                                ![h].candidates = First(stored, CandidateLimit)]
  /\ UNCHANGED <<now, cloud, bridge, device, faults>>

(* The query for candidates, outside any transaction. *)
QueryCandidates(h) ==
  LET live == {c \in Commands : state[c] \in Live} IN
  /\ handler[h].phase = "query"
  /\ handler' = [handler EXCEPT ![h].phase = "deliver",
                                ![h].candidates = First(live, CandidateLimit)]
  /\ UNCHANGED <<now, cloud, bridge, device, faults>>

(* The transaction reads each candidate again; it may be gone. *)
Candidates(h) == {c \in handler[h].candidates : state[c] # "removed"}

Expired(h) == {c \in Candidates(h) : expiresAt[c] <= handler[h].at}

(* What may be delivered: not expired, and not on an unexpired lease.  The *)
(* transaction looks at the state only to see whether it is dispatched.    *)
Deliverable(h) ==
  {c \in Candidates(h) \ Expired(h) :
     ~(state[c] = "dispatched" /\ leaseUntil[c] > handler[h].at)}

(* The second transaction: candidates that have expired fail, and one of   *)
(* the others is dispatched.                                               *)
Deliver(h) ==
  LET expired == Expired(h)
      chosen  == First(Deliverable(h), 1)
  IN
  /\ handler[h].phase = "deliver"
  /\ state' = [c \in Commands |-> IF c \in expired THEN "failed"
                                  ELSE IF c \in chosen THEN "dispatched" ELSE state[c]]
  /\ leaseUntil' = [c \in Commands |-> IF c \in chosen THEN handler[h].at + LeaseTime
                                       ELSE leaseUntil[c]]
  /\ lock' = IF lock \in expired THEN None ELSE lock
  /\ WriteEnrollments([c \in {d \in expired : enrollment[EmployeeOf[d]].command = d}
                                \union (chosen \intersect Enrolls) |->
                         IF c \in expired THEN "failed" ELSE "capturing"])
  /\ handler' = [handler EXCEPT ![h].phase = "replied", ![h].candidates = {},
                   ![h].command = IF chosen = {} THEN None ELSE CHOOSE c \in chosen : TRUE]
  /\ UNCHANGED <<now, expiresAt, bridge, device, faults>>

(* A request nobody waits for any more ends somewhere: it never arrived,   *)
(* the function died on its way, or its answer finds no connection.        *)
RequestEnds(h) ==
  /\ handler[h].phase # "free" /\ h \notin awaiting
  /\ handler' = [handler EXCEPT ![h] = NoRequest]
  /\ UNCHANGED <<now, cloud, bridge, device, faults>>

-----------------------------------------------------------------------------
(* The bridge, exchangeCommandsOnce.                                       *)

(* CommandResults and ExchangeCommands: the first results in name order. *)
SendExchange(h) ==
  LET held == {c \in Commands : receipt[c] # "none"} IN
  /\ pc = "idle" /\ handler[h].phase = "free"
  /\ pc' = "waiting" /\ awaiting' = {h}
  /\ handler' = [handler EXCEPT ![h] =
       [NoRequest EXCEPT !.phase = "sent",
          !.results = {<<c, IF receipt[c] = "succeeded" THEN "succeeded" ELSE "failed">>
                         : c \in First(held, ResultLimit)}]]
  /\ UNCHANGED <<now, cloud, receipt, cached, cur, usedCache, outcome, device, faults>>

(* RemoveCommandResults(acknowledged), then on to the command, if any. *)
ReceiveAnswer(h) ==
  /\ pc = "waiting" /\ awaiting = {h} /\ handler[h].phase = "replied"
  /\ receipt' = [c \in Commands |-> IF c \in Reported(h) THEN "none" ELSE receipt[c]]
  /\ cur' = handler[h].command
  /\ pc' = IF handler[h].command = None THEN "idle" ELSE "received"
  /\ awaiting' = {}
  /\ handler' = [handler EXCEPT ![h] = NoRequest]
  /\ UNCHANGED <<now, cloud, cached, usedCache, outcome, device, faults>>

(* The loop over the commands of an answer ends, or the process restarts. *)
BackToIdle ==
  /\ pc' = "idle" /\ awaiting' = {} /\ cur' = None
  /\ usedCache' = FALSE /\ outcome' = "failed"

(* RemoveCommandResults stops half-way: an error, or the process dies. *)
RemovalStops(h) ==
  /\ pc = "waiting" /\ awaiting = {h} /\ handler[h].phase = "replied" /\ Fault
  /\ \E S \in SUBSET Reported(h) :
       receipt' = [c \in Commands |-> IF c \in S THEN "none" ELSE receipt[c]]
  /\ BackToIdle
  /\ handler' = [handler EXCEPT ![h] = NoRequest]
  /\ UNCHANGED <<now, cloud, cached, device>>

(* ExchangeCommands fails or times out; the cloud may still be serving it. *)
ExchangeFails ==
  /\ pc = "waiting" /\ Fault
  /\ BackToIdle
  /\ UNCHANGED <<now, cloud, handler, receipt, cached, device>>

(* A command that already has a receipt is not executed again: it was      *)
(* delivered again because its receipt is behind ResultLimit others, which *)
(* the cloud does not acknowledge.                                         *)
SkipCommand ==
  /\ pc = "received" /\ receipt[cur] # "none"
  /\ BackToIdle
  /\ UNCHANGED <<now, cloud, handler, receipt, cached, device, faults>>

(* Mutant: a receipt does not stop a redelivered command. *)
WriteReceiptAgain ==
  /\ pc = "received"
  /\ receipt' = [receipt EXCEPT ![cur] = "interrupted"]
  /\ pc' = "prepare"
  /\ UNCHANGED <<now, cloud, handler, cached, awaiting, cur, usedCache, outcome, device, faults>>

(* Mutant: the receipt is written only when the command has ended. *)
WriteReceiptLater ==
  /\ pc = "received" /\ receipt[cur] = "none"
  /\ pc' = "prepare"
  /\ UNCHANGED <<now, cloud, handler, receipt, cached, awaiting, cur, usedCache, outcome,
                 device, faults>>

(* Mutant: the first receipt promises success. *)
WriteReceiptSucceeded ==
  /\ pc = "received" /\ receipt[cur] = "none"
  /\ receipt' = [receipt EXCEPT ![cur] = "succeeded"]
  /\ pc' = "prepare"
  /\ UNCHANGED <<now, cloud, handler, cached, awaiting, cur, usedCache, outcome, device, faults>>

(* The fail-safe receipt, before the terminal is touched. *)
WriteReceipt ==
  /\ pc = "received" /\ receipt[cur] = "none"
  /\ receipt' = [receipt EXCEPT ![cur] = "interrupted"]
  /\ pc' = "prepare"
  /\ UNCHANGED <<now, cloud, handler, cached, awaiting, cur, usedCache, outcome, device, faults>>

Conclude(o) == pc' = "finish" /\ outcome' = o

(* executeCommand: the command expired on the way. *)
TooLate ==
  /\ pc = "prepare" /\ now > expiresAt[cur]
  /\ Conclude("failed")
  /\ UNCHANGED <<now, cloud, handler, receipt, cached, awaiting, cur, usedCache, device, faults>>

Start ==
  /\ pc = "prepare" /\ now <= expiresAt[cur]
  /\ executions' = [executions EXCEPT ![cur] = @ + 1]
  /\ usedCache' = (cur \in Enrolls /\ EmployeeOf[cur] \in cached)
  /\ pc' = IF usedCache' THEN "capture" ELSE "upsert"
  /\ UNCHANGED <<now, cloud, handler, receipt, cached, awaiting, cur, outcome,
                 onDevice, assigned, faults>>

(* UpsertUser and MarkUserProvisioned; for upsert_user that is all. *)
UpsertUser ==
  /\ pc = "upsert"
  /\ onDevice' = onDevice \union {EmployeeOf[cur]}
  /\ cached' = cached \union {EmployeeOf[cur]}
  /\ IF cur \in Upserts THEN Conclude("succeeded") ELSE pc' = "capture" /\ UNCHANGED outcome
  /\ UNCHANGED <<now, cloud, handler, receipt, awaiting, cur, usedCache, assigned,
                 executions, faults>>

Capture ==
  /\ pc = "capture"
  /\ pc' = "assign"
  /\ UNCHANGED <<now, cloud, handler, receipt, cached, awaiting, cur, usedCache, outcome,
                 device, faults>>

(* SetFingerprint.  It fails for an employee who is not on the terminal;   *)
(* if that was taken from the cache, the user is repaired and it is tried  *)
(* once more.                                                              *)
Assign ==
  LET m == EmployeeOf[cur] IN
  /\ pc = "assign"
  /\ IF m \in onDevice \/ usedCache
       THEN /\ assigned' = assigned \union {cur}
            /\ onDevice' = onDevice \union {m}
            /\ Conclude("succeeded")
       ELSE Conclude("failed") /\ UNCHANGED <<onDevice, assigned>>
  /\ UNCHANGED <<now, cloud, handler, receipt, cached, awaiting, cur, usedCache,
                 executions, faults>>

(* The terminal refuses or does not answer; what it was asked to do, the   *)
(* repair of the user and the second try included, may have been done.     *)
DeviceFails ==
  /\ pc \in {"upsert", "capture", "assign"} /\ Fault
  /\ Conclude("failed")
  /\ \/ UNCHANGED <<onDevice, assigned>>
     \/ /\ pc = "upsert" \/ (pc = "assign" /\ usedCache)
        /\ onDevice' = onDevice \union {EmployeeOf[cur]}
        /\ UNCHANGED assigned
     \/ /\ pc = "assign" /\ (EmployeeOf[cur] \in onDevice \/ usedCache)
        /\ assigned' = assigned \union {cur}
        /\ onDevice' = onDevice \union {EmployeeOf[cur]}
  /\ UNCHANGED <<now, cloud, handler, receipt, cached, awaiting, cur, usedCache,
                 executions>>

(* PutCommandResult with the outcome, over the fail-safe receipt. *)
Finish ==
  /\ pc = "finish"
  /\ receipt' = [receipt EXCEPT ![cur] = outcome]
  /\ BackToIdle
  /\ UNCHANGED <<now, cloud, handler, cached, device, faults>>

Crash ==
  /\ pc # "idle" /\ Fault
  /\ BackToIdle
  /\ UNCHANGED <<now, cloud, handler, receipt, cached, device>>

(* An administrator removes a user at the terminal itself. *)
RemoveUser(m) ==
  /\ m \in onDevice /\ Fault
  /\ onDevice' = onDevice \ {m}
  /\ UNCHANGED <<now, cloud, handler, bridge, assigned, executions>>

(* The device is removed from the cloud (remove, in devices/provisioning)   *)
(* with its commands, lock and enrollments, and registered again under its *)
(* name; the bridge is restarted with the new secret in the old data       *)
(* directory.  Requests signed with the old secret are turned away.        *)
ReplaceDevice ==
  /\ Fault
  /\ \E c \in Commands : state[c] \notin {"none", "removed"}
  /\ state' = [c \in Commands |-> IF state[c] = "none" THEN "none" ELSE "removed"]
  /\ expiresAt' = [c \in Commands |-> 0] /\ leaseUntil' = [c \in Commands |-> 0]
  /\ lock' = None
  /\ enrollment' = [m \in Employees |-> NoEnrollment]
  /\ handler' = [h \in Handlers |-> IF handler[h].phase = "sent" THEN NoRequest
                                    ELSE handler[h]]
  /\ BackToIdle
  /\ UNCHANGED <<now, receipt, cached, device>>

Tick ==
  /\ now < MaxTime
  /\ now' = now + 1
  /\ UNCHANGED <<cloud, handler, bridge, device, faults>>

Serve(h) ==
  RequestArrives(h) \/ ApplyResults(h) \/ QueryCandidates(h) \/ Deliver(h) \/ RequestEnds(h)

BridgeStep ==
  \/ \E h \in Handlers : SendExchange(h) \/ ReceiveAnswer(h)
  \/ SkipCommand \/ WriteReceipt \/ TooLate \/ Start \/ UpsertUser \/ Capture \/ Assign
  \/ Finish

Next ==
  \/ \E c \in Commands : QueueUpsert(c) \/ QueueEnroll(c)
  \/ \E h \in Handlers : Serve(h) \/ RemovalStops(h)
  \/ BridgeStep
  \/ ExchangeFails \/ DeviceFails \/ Crash \/ \E m \in Employees : RemoveUser(m)
  \/ ReplaceDevice
  \/ Tick

Spec == Init /\ [][Next]_vars

(* The commandLoop goes round forever (in fallback mode at least every     *)
(* thirty seconds), a request is served or dies, and time passes.          *)
FairSpec ==
  /\ Spec
  /\ WF_vars(BridgeStep) /\ WF_vars(Tick)
  /\ \A h \in Handlers : WF_vars(Serve(h))

-----------------------------------------------------------------------------
TypeOK ==
  /\ now \in Nat
  /\ state \in [Commands -> {"none", "removed"} \union Live \union Outcomes]
  /\ expiresAt \in [Commands -> Nat] /\ leaseUntil \in [Commands -> Nat]
  /\ lock \in Enrolls \union {None}
  /\ enrollment \in [Employees ->
       [state : {"none", "user_pending", "queued", "capturing", "user_synced",
                 "enrolled", "failed"},
        command : Commands \union {None}, print : BOOLEAN]]
  /\ handler \in [Handlers ->
       [phase : {"free", "sent", "results", "query", "deliver", "replied"},
        results : SUBSET (Commands \X Outcomes), at : Nat,
        candidates : SUBSET Commands, command : Commands \union {None}]]
  /\ receipt \in [Commands -> {"none", "interrupted"} \union Outcomes]
  /\ cached \subseteq Employees
  /\ pc \in {"idle", "waiting", "received", "prepare", "upsert", "capture", "assign", "finish"}
  /\ awaiting \subseteq Handlers
  /\ cur \in Commands \union {None}
  /\ usedCache \in BOOLEAN /\ outcome \in Outcomes
  /\ onDevice \subseteq Employees /\ assigned \subseteq Enrolls
  /\ executions \in [Commands -> Nat]
  /\ faults \in Nat

(* No candidate has ended between the query that found it and the          *)
(* transaction that may deliver it, which does not ask again.  This holds  *)
(* of a bridge whose requests do not overlap (exchangeCommandsOnce).       *)
NoStaleCandidates ==
  \A h \in Handlers : handler[h].phase = "deliver" =>
    \A c \in handler[h].candidates : state[c] \in Live \union {"removed"}

(* A command is taken to the terminal at most once, whatever is lost,      *)
(* redelivered or interrupted (the receipts of exchangeCommandsOnce and    *)
(* the leases of exchangeCommands).                                        *)
AtMostOneExecution == \A c \in Commands : executions[c] <= 1

(* A command that reached the terminal is not forgotten: the bridge keeps  *)
(* a receipt of it, the interrupted one if need be, until the cloud holds  *)
(* a final state for it (RemoveCommandResults only after acknowledgement). *)
ExecutedIsReported ==
  \A c \in Commands :
    executions[c] > 0 => receipt[c] # "none" \/ state[c] \in Outcomes \union {"removed"}

(* What the cloud calls succeeded did succeed at the terminal, and an      *)
(* enrollment shown as enrolled belongs to a fingerprint it accepted.      *)
SuccessIsTrue ==
  /\ \A c \in Enrolls : state[c] = "succeeded" => c \in assigned
  /\ \A m \in Employees : enrollment[m].state = "enrolled" => enrollment[m].command \in assigned

(* One enrollment at a time: an enrollment command that can still be       *)
(* delivered is the one the fingerprint lock names.                        *)
LiveEnrollmentHoldsLock ==
  \A c \in Enrolls : state[c] \in Live /\ expiresAt[c] > now => lock = c

(* The enrollment document tells the fate of the fingerprint command it    *)
(* names, and once a fingerprint was asked for it does name one, although  *)
(* user synchronisations, expiries and late results of other commands      *)
(* write the same document (preserveFingerprintState).                     *)
EnrollmentTellsFate ==
  \A m \in Employees :
    LET c == enrollment[m].command IN
    /\ enrollment[m].print => c \in Enrolls
    /\ c \in Enrolls /\ state[c] = "succeeded" => enrollment[m].state = "enrolled"
    /\ c \in Enrolls /\ state[c] = "failed" => enrollment[m].state = "failed"

(* A final state is final, as long as the command exists. *)
FinalStays ==
  [][\A c \in Commands : state[c] \in Outcomes => state'[c] \in {state[c], "removed"}]_vars

(* Every command comes to an end, done, failed or expired, whatever        *)
(* requests and answers are lost on the way (the leases, and the expiry of *)
(* what was not delivered).  The clock must get as far as its expiry.      *)
CommandsEnd ==
  \A c \in Commands :
    (state[c] = "queued" /\ expiresAt[c] <= MaxTime) ~> (state[c] \in Outcomes \union {"removed"})
=============================================================================
