----------------------------- MODULE EventStore -----------------------------
(***************************************************************************)
(* The durable event queue of the bridge (internal/store/store.go) with    *)
(* the uploader that drains it (internal/bridge/runner.go, syncOnce and    *)
(* SyncNow) and the cloud function that ingests a batch (ingest/service.ts *)
(* and ingest/firestore-repository.ts, writeEvents).                       *)
(*                                                                         *)
(* A record is one file in one of three directories.  A store operation    *)
(* holds a mutex of its process and works file by file: it reads a record, *)
(* writes a file (atomically, see internal/atomicfile), removes a file.    *)
(* The process can die between any two file operations, and two processes  *)
(* share the data directory without any lock between them: the service and *)
(* the command "hikbridge sync-now".  So one step of this module is one    *)
(* file operation of one process.                                          *)
(***************************************************************************)
EXTENDS Naturals, FiniteSets

CONSTANTS
  Events,           \* event ids, ordered as their file names are
  Procs,            \* the processes: {"service"} or {"service", "cli"}
  BatchSize,        \* cloud.batchSize
  Invalid,          \* events the cloud always refuses (malformed, oversized)
  FutureDated,      \* events more than a day ahead, refused until time passes
  Corruptible,      \* events whose pending record the disk may damage
  ReadFaults,       \* TRUE when reading an intact record may fail
  MaxDisturbances   \* bound on crashes, failed sends and writes, damage, prunes, sync-now

ASSUME EventsAssumption == Events \subseteq Nat \ {0}
ASSUME ProcsAssumption == Procs \subseteq {"service", "cli"}
ASSUME VerdictAssumption == Invalid \subseteq Events /\ FutureDated \subseteq Events
ASSUME FaultsAssumption == ReadFaults \in BOOLEAN
ASSUME BoundsAssumption == BatchSize \in Nat \ {0} /\ MaxDisturbances \in Nat

NoEvent == 0         \* cur before the first event

RecordStates == {"pending", "uploading"}
StoreOps == {"recover", "prepare", "release", "mark", "fail"}

VARIABLES
  \* the data directory, shared by the processes, survives a crash
  pending,          \* events/pending: "none", a sync state, or "corrupt"
  synced,           \* events/synced
  failed,           \* events/failed, records the cloud refused
  kept,             \* events/failed, corrupt-*.json that hold source bytes
  \* each process
  op,               \* "down", "idle", "send" or the store operation in hand
  step,             \* the next file operation: "next", "read", "write", "remove"
  target,           \* what a "write" step writes
  cur,              \* the record the operation is at
  todo,             \* the ids the operation has still to visit
  batch,            \* the ids of the batch being uploaded
  refused,          \* the ids the answer to the batch refuses
  \* the cloud and the network
  cloud,            \* events with a document in attendanceEvents
  early,            \* future-dated events whose time has not come
  late,             \* batches the sender gave up on that may still arrive
  \* observation
  recorded,         \* events PutIfAbsent has ever made durable
  disturbances      \* how many disturbances have happened

files == <<pending, synced, failed, kept>>
work == <<op, step, target, cur, todo, batch, refused>>
outside == <<cloud, early, late>>
vars == <<files, work, outside, recorded, disturbances>>

InStore(p) == op[p] \in StoreOps

(* pendingNames: the *.json files of the pending directory. *)
PendingNames == {e \in Events : pending[e] # "none"}

Intact(e) == pending[e] \in RecordStates

Disturb ==
  /\ disturbances < MaxDisturbances
  /\ disturbances' = disturbances + 1

Init ==
  /\ pending = [e \in Events |-> "none"]
  /\ synced = {} /\ failed = {} /\ kept = {}
  /\ op = [p \in Procs |-> "down"]
  /\ step = [p \in Procs |-> "next"]
  /\ target = [p \in Procs |-> "none"]
  /\ cur = [p \in Procs |-> NoEvent]
  /\ todo = [p \in Procs |-> {}]
  /\ batch = [p \in Procs |-> {}]
  /\ refused = [p \in Procs |-> {}]
  /\ cloud = {} /\ early = FutureDated /\ late = {}
  /\ recorded = {}
  /\ disturbances = 0

-----------------------------------------------------------------------------
(* The operations of a process: each begins by listing what it will visit. *)

Begin(p, o, ids) ==
  /\ op' = [op EXCEPT ![p] = o]
  /\ todo' = [todo EXCEPT ![p] = ids]
  /\ step' = [step EXCEPT ![p] = "next"]
  /\ cur' = [cur EXCEPT ![p] = NoEvent]
  /\ target' = [target EXCEPT ![p] = "none"]

(* An operation that ends with an error: the service waits for the next    *)
(* round, sync-now exits.                                                  *)
GiveUp(p) == Begin(p, IF p = "cli" THEN "down" ELSE "idle", {})

(* Open: a process starts and recovers the pending directory. *)
Open(p) ==
  /\ op[p] = "down"
  /\ IF p = "cli" THEN Disturb ELSE UNCHANGED disturbances
  /\ Begin(p, "recover", PendingNames)
  /\ batch' = [batch EXCEPT ![p] = {}]
  /\ UNCHANGED <<files, refused, outside, recorded>>

(* PrepareBatch begins, with nothing in the batch yet. *)
BeginSync(p) ==
  /\ op[p] = "idle"
  /\ Begin(p, "prepare", PendingNames)
  /\ batch' = [batch EXCEPT ![p] = {}]
  /\ UNCHANGED <<files, refused, outside, recorded, disturbances>>

BatchFull(p) == op[p] = "prepare" /\ Cardinality(batch[p]) >= BatchSize

(* recoverPending and MarkSynced look for the synced copy before they read *)
(* the pending one, and then have only to remove the latter.               *)
LooksForSynced(p) == op[p] \in {"recover", "mark"}

(* The loop of an operation goes to the next name, in name order. *)
Visit(p) ==
  /\ InStore(p) /\ step[p] = "next" /\ ~BatchFull(p)
  /\ \E e \in todo[p] :
       /\ op[p] # "fail" => \A f \in todo[p] : e <= f
       /\ cur' = [cur EXCEPT ![p] = e]
       /\ todo' = [todo EXCEPT ![p] = @ \ {e}]
       /\ step' = [step EXCEPT ![p] =
                     IF LooksForSynced(p) /\ e \in synced THEN "remove" ELSE "read"]
  /\ UNCHANGED <<files, op, target, batch, refused, outside, recorded, disturbances>>

(* Mutant: recovery takes an interrupted upload for a finished one. *)
OutcomeUploadDone(p) ==
  CASE op[p] = "prepare" -> "uploading"
    [] op[p] = "release" -> "pending"
    [] op[p] \in {"recover", "mark"} -> "synced"
    [] op[p] = "fail" -> "failed"

(* What an operation does with a record it could read. *)
Outcome(p) ==
  CASE op[p] = "prepare" -> "uploading"
    [] op[p] \in {"recover", "release"} -> "pending"
    [] op[p] = "mark" -> "synced"
    [] op[p] = "fail" -> "failed"

(* readRecord succeeds.  Recovery rewrites only an interrupted upload. *)
ReadRecord(p) ==
  /\ InStore(p) /\ step[p] = "read" /\ Intact(cur[p])
  /\ IF op[p] = "recover" /\ pending[cur[p]] = "pending"
       THEN /\ step' = [step EXCEPT ![p] = "next"]
            /\ UNCHANGED target
       ELSE /\ step' = [step EXCEPT ![p] = "write"]
            /\ target' = [target EXCEPT ![p] = Outcome(p)]
  /\ UNCHANGED <<files, op, cur, todo, batch, refused, outside, recorded, disturbances>>

Unreadable(e) == ~Intact(e) \/ ReadFaults

(* Mutant: an unreadable record is removed without a copy. *)
RemoveUnreadable(p) ==
  /\ op[p] \in {"recover", "prepare"} /\ step[p] = "read" /\ Unreadable(cur[p])
  /\ step' = [step EXCEPT ![p] = "remove"]
  /\ UNCHANGED <<files, op, target, cur, todo, batch, refused, outside, recorded, disturbances>>

(* Recovery and PrepareBatch quarantine a record they cannot read: first   *)
(* the bytes they did read (none when the read itself failed), then the    *)
(* file is removed.                                                        *)
ReadFailsQuarantine(p) ==
  /\ op[p] \in {"recover", "prepare"} /\ step[p] = "read" /\ Unreadable(cur[p])
  /\ step' = [step EXCEPT ![p] = "write"]
  /\ target' = [target EXCEPT ![p] =
                  IF pending[cur[p]] = "corrupt" THEN "source bytes" ELSE "no bytes"]
  /\ UNCHANGED <<files, op, cur, todo, batch, refused, outside, recorded, disturbances>>

(* Release passes over a record that another process has synced. *)
ReleaseSkips(p) ==
  /\ op[p] = "release" /\ step[p] = "read"
  /\ pending[cur[p]] = "none" /\ cur[p] \in synced
  /\ step' = [step EXCEPT ![p] = "next"]
  /\ UNCHANGED <<files, op, target, cur, todo, batch, refused, outside, recorded, disturbances>>

(* Release, MarkSynced and MarkFailed stop at a record they cannot read;   *)
(* the ids they had still to visit stay as they are.                       *)
ReadFailsGiveUp(p) ==
  /\ op[p] \in {"release", "mark", "fail"} /\ step[p] = "read" /\ Unreadable(cur[p])
  /\ op[p] = "release" => ~(pending[cur[p]] = "none" /\ cur[p] \in synced)
  /\ GiveUp(p)
  /\ UNCHANGED <<files, batch, refused, outside, recorded, disturbances>>

(* The write: in place for the two queue states, into another directory    *)
(* for the others, whose pending file is then still to be removed.         *)
WriteRecord(p) ==
  /\ InStore(p) /\ step[p] = "write"
  /\ pending' = IF target[p] \in RecordStates
                  THEN [pending EXCEPT ![cur[p]] = target[p]] ELSE pending
  /\ synced' = IF target[p] = "synced" THEN synced \union {cur[p]} ELSE synced
  /\ failed' = IF target[p] = "failed" THEN failed \union {cur[p]} ELSE failed
  /\ kept' = IF target[p] = "source bytes" THEN kept \union {cur[p]} ELSE kept
  /\ step' = [step EXCEPT ![p] = IF target[p] \in RecordStates THEN "next" ELSE "remove"]
  /\ batch' = [batch EXCEPT ![p] = IF target[p] = "uploading" THEN @ \union {cur[p]} ELSE @]
  /\ UNCHANGED <<op, target, cur, todo, refused, outside, recorded, disturbances>>

RemoveRecord(p) ==
  /\ InStore(p) /\ step[p] = "remove"
  /\ pending' = [pending EXCEPT ![cur[p]] = "none"]
  /\ step' = [step EXCEPT ![p] = "next"]
  /\ UNCHANGED <<synced, failed, kept, op, target, cur, todo, batch, refused,
                 outside, recorded, disturbances>>

(* A write or a remove fails and leaves the files as they are: the         *)
(* operation ends with the error, and a process that was recovering ends.  *)
StoreFails(p) ==
  /\ InStore(p) /\ step[p] \in {"write", "remove"}
  /\ Disturb
  /\ IF op[p] = "recover" THEN Begin(p, "down", {}) ELSE GiveUp(p)
  /\ UNCHANGED <<files, batch, refused, outside, recorded>>

(* The loop is over: every name visited, or the batch full. *)
LoopDone(p) == step[p] = "next" /\ (todo[p] = {} \/ BatchFull(p))

(* syncOnce has handled its batch: the service rests, sync-now goes on     *)
(* while its batches are full and exits when one is not.                   *)
Rest(p) ==
  Begin(p, IF p = "cli" /\ Cardinality(batch[p]) < BatchSize THEN "down" ELSE "idle", {})

(* The ten minutes of sync-now run out while it waits between batches. *)
SyncNowExpires(p) ==
  /\ p = "cli" /\ op[p] = "idle"
  /\ Begin(p, "down", {})
  /\ UNCHANGED <<files, batch, refused, outside, recorded, disturbances>>

(* Mutant: syncOnce forgets MarkFailed. *)
EndWithoutMarkFailed(p) ==
  /\ InStore(p) /\ LoopDone(p)
  /\ CASE op[p] = "recover" -> Begin(p, "idle", {})
       [] op[p] = "prepare" ->
            IF batch[p] = {} THEN Rest(p)
            ELSE /\ op' = [op EXCEPT ![p] = "send"]
                 /\ step' = [step EXCEPT ![p] = "in flight"]
                 /\ todo' = [todo EXCEPT ![p] = {}]
                 /\ cur' = [cur EXCEPT ![p] = NoEvent]
                 /\ target' = [target EXCEPT ![p] = "none"]
       [] op[p] = "release" -> GiveUp(p)
       [] op[p] \in {"mark", "fail"} -> Rest(p)
  /\ UNCHANGED <<files, batch, refused, outside, recorded, disturbances>>

(* What follows each operation in New and syncOnce. *)
EndOperation(p) ==
  /\ InStore(p) /\ LoopDone(p)
  /\ CASE op[p] = "recover" -> Begin(p, "idle", {})
       [] op[p] = "prepare" ->
            IF batch[p] = {} THEN Rest(p)
            ELSE /\ op' = [op EXCEPT ![p] = "send"]
                 /\ step' = [step EXCEPT ![p] = "in flight"]
                 /\ todo' = [todo EXCEPT ![p] = {}]
                 /\ cur' = [cur EXCEPT ![p] = NoEvent]
                 /\ target' = [target EXCEPT ![p] = "none"]
       [] op[p] = "release" -> GiveUp(p)
       [] op[p] = "mark" -> Begin(p, "fail", refused[p])
       [] op[p] = "fail" -> Rest(p)
  /\ UNCHANGED <<files, batch, refused, outside, recorded, disturbances>>

-----------------------------------------------------------------------------
(* The upload, and the cloud function.                                     *)

(* Mutant: only the time of an event is validated. *)
RefusesEarly(b) == b \intersect early

(* classifyEvents: what the cloud refuses of a batch at this moment. *)
Refuses(b) == b \intersect (Invalid \union early)

(* writeEvents creates the documents that do not exist; the answer names   *)
(* every event of the batch once, as accepted, duplicate or rejected.      *)
CloudIngest(p) ==
  /\ op[p] = "send" /\ step[p] = "in flight"
  /\ cloud' = cloud \union (batch[p] \ Refuses(batch[p]))
  /\ refused' = [refused EXCEPT ![p] = Refuses(batch[p])]
  /\ step' = [step EXCEPT ![p] = "answered"]
  /\ UNCHANGED <<files, op, target, cur, todo, batch, early, late, recorded, disturbances>>

(* Mutant: the whole batch is taken as confirmed. *)
ConfirmsBatch(p) == batch[p]

(* The ids the answer confirms: accepted and duplicates. *)
Confirmed(p) == batch[p] \ refused[p]

(* Send returns a valid answer; MarkSynced begins with the confirmed ids. *)
ReceiveAnswer(p) ==
  /\ op[p] = "send" /\ step[p] = "answered"
  /\ Begin(p, "mark", Confirmed(p))
  /\ UNCHANGED <<files, batch, refused, outside, recorded, disturbances>>

(* A request that its sender no longer waits for can still reach the cloud. *)
Abandon(p) ==
  late' = IF op[p] = "send" /\ step[p] = "in flight" THEN late \union {batch[p]} ELSE late

(* Send fails, whether or not the cloud has handled the batch: Release. *)
SendFails(p) ==
  /\ op[p] = "send"
  /\ Disturb
  /\ Abandon(p)
  /\ Begin(p, "release", batch[p])
  /\ UNCHANGED <<files, batch, refused, cloud, early, recorded>>

LateIngest(b) ==
  /\ b \in late
  /\ late' = late \ {b}
  /\ cloud' = cloud \union (b \ Refuses(b))
  /\ UNCHANGED <<files, work, early, recorded, disturbances>>

-----------------------------------------------------------------------------
(* The other goroutines of the service, and the environment.               *)

Stored(e) == pending[e] # "none" \/ e \in synced \/ e \in failed

(* PutIfAbsent, called by a poll that found the event on the device.       *)
PutIfAbsent(e) ==
  /\ \A p \in Procs : p = "service" => op[p] # "down" /\ ~InStore(p)
  /\ ~Stored(e)
  /\ pending' = [pending EXCEPT ![e] = "pending"]
  /\ recorded' = recorded \union {e}
  /\ UNCHANGED <<synced, failed, kept, work, outside, disturbances>>

(* PruneSynced removes synced records that have passed their retention. *)
PruneSynced(S) ==
  /\ \A p \in Procs : p = "service" => op[p] # "down" /\ ~InStore(p)
  /\ S \subseteq synced /\ S # {}
  /\ Disturb
  /\ synced' = synced \ S
  /\ UNCHANGED <<pending, failed, kept, work, outside, recorded>>

(* A process dies: its files stay, what it had in memory is gone. *)
Crash(p) ==
  /\ op[p] # "down"
  /\ Disturb
  /\ Abandon(p)
  /\ Begin(p, "down", {})
  /\ UNCHANGED <<files, batch, refused, cloud, early, recorded>>

(* The disk damages a pending record (only bytes remain). *)
Damage(e) ==
  /\ e \in Corruptible /\ Intact(e)
  /\ Disturb
  /\ pending' = [pending EXCEPT ![e] = "corrupt"]
  /\ UNCHANGED <<synced, failed, kept, work, outside, recorded>>

(* The time of a future-dated event comes within a day of the cloud's. *)
TimeComes(e) ==
  /\ e \in early
  /\ early' = early \ {e}
  /\ UNCHANGED <<files, work, cloud, late, recorded, disturbances>>

Proceed(p) ==
  \/ BeginSync(p) \/ Visit(p) \/ ReadRecord(p) \/ ReadFailsQuarantine(p)
  \/ ReleaseSkips(p) \/ ReadFailsGiveUp(p) \/ WriteRecord(p) \/ RemoveRecord(p)
  \/ EndOperation(p) \/ CloudIngest(p) \/ ReceiveAnswer(p)

Next ==
  \/ \E p \in Procs : Open(p) \/ Proceed(p) \/ SyncNowExpires(p) \/ SendFails(p)
                    \/ StoreFails(p) \/ Crash(p)
  \/ \E e \in Events : PutIfAbsent(e) \/ Damage(e) \/ TimeComes(e)
  \/ \E S \in SUBSET Events : PruneSynced(S)
  \/ \E b \in SUBSET Events : LateIngest(b)

Spec == Init /\ [][Next]_vars

(* The Windows service manager restarts the service, and its syncLoop goes *)
(* round forever.  Of sync-now only its deadline is assumed: it does not   *)
(* go from batch to batch forever (without it, the two processes could go  *)
(* on rewriting a record that the other has just moved).  Nothing is       *)
(* assumed of the environment but the bound on its disturbances.           *)
FairSpec ==
  /\ Spec
  /\ \A p \in Procs \ {"cli"} : WF_vars(Open(p)) /\ WF_vars(Proceed(p))
  /\ \A p \in Procs \intersect {"cli"} : SF_vars(SyncNowExpires(p))

-----------------------------------------------------------------------------
TypeOK ==
  /\ pending \in [Events -> {"none", "corrupt"} \union RecordStates]
  /\ synced \subseteq Events /\ failed \subseteq Events /\ kept \subseteq Events
  /\ op \in [Procs -> {"down", "idle", "send"} \union StoreOps]
  /\ step \in [Procs -> {"next", "read", "write", "remove", "in flight", "answered"}]
  /\ target \in [Procs -> {"none", "synced", "failed", "source bytes", "no bytes"}
                          \union RecordStates]
  /\ cur \in [Procs -> Events \union {NoEvent}]
  /\ todo \in [Procs -> SUBSET Events]
  /\ batch \in [Procs -> SUBSET Events]
  /\ refused \in [Procs -> SUBSET Events]
  /\ cloud \subseteq Events /\ early \subseteq Events /\ late \subseteq SUBSET Events
  /\ recorded \subseteq Events
  /\ disturbances \in Nat

(* Evidence that no longer needs the queue: in the cloud, refused by it    *)
(* and filed, or quarantined with its bytes.                               *)
Settled(e) == e \in cloud \/ e \in failed \/ e \in kept

(* Evidence that PutIfAbsent made durable is never lost: between any two   *)
(* file operations of any process, after any crash, it is still queued, or *)
(* filed as refused, or quarantined with its bytes, or in the cloud.       *)
EvidenceKept == \A e \in recorded : pending[e] # "none" \/ Settled(e)

(* A record is filed as synced, and so becomes free to be pruned, only     *)
(* when the cloud has the event: a failed, lost or late answer never files *)
(* it (syncOnce, MarkSynced).                                              *)
SyncedIsInCloud == synced \subseteq cloud

(* A record filed as failed was refused by the cloud, and an event that    *)
(* the cloud always refuses never enters the cloud (MarkFailed).           *)
RefusedIsRefused ==
  /\ failed \subseteq Invalid \union FutureDated
  /\ cloud \intersect Invalid = {}

(* Every queued record leaves the queue, whatever crashes, failed sends    *)
(* and interrupted sync-now commands came before: no record is stuck in    *)
(* "uploading", and no damaged record blocks the ones behind it.           *)
NoStuckRecord ==
  \A e \in Events : (pending[e] # "none") ~> (pending[e] = "none")

(* The queue keeps the promise of EvidenceDelivery.                        *)
Evidence == INSTANCE EvidenceDelivery WITH
  held <- {e \in Events : pending[e] # "none" \/ e \in synced \/ e \in failed \/ e \in kept},
  delivered <- cloud

DeliversEvidence == Evidence!Spec
=============================================================================
