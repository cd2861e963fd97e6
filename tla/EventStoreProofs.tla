-------------------------- MODULE EventStoreProofs --------------------------
(***************************************************************************)
(* Proofs about EventStore, for any events, processes, batch size and      *)
(* number of disturbances: its types, that only what the cloud has is      *)
(* filed as synced, that only what the cloud refuses is filed as failed,   *)
(* and, when reading an intact record does not fail, that evidence is kept *)
(* and that the queue implements EvidenceDelivery.                         *)
(*                                                                         *)
(* Each invariant is made inductive by saying what it rests on at each     *)
(* process: TrackedAt, ConfirmedAt, RefusableAt, SettledAt.  A step of one *)
(* process leaves the variables of the others alone (OthersRest), so each  *)
(* case has to look at the process that takes the step only.               *)
(***************************************************************************)
EXTENDS EventStore, TLAPS

(* The record an operation is at. *)
AtRecord(p) == InStore(p) /\ step[p] # "next"

(* Whatever an operation, an upload or a late request refers to was        *)
(* recorded once.                                                          *)
TrackedAt(p) ==
  /\ todo[p] \subseteq recorded
  /\ batch[p] \subseteq recorded
  /\ refused[p] \subseteq recorded
  /\ AtRecord(p) => cur[p] \in recorded

Tracked ==
  /\ PendingNames \subseteq recorded
  /\ \A b \in late : b \subseteq recorded
  /\ \A p \in Procs : TrackedAt(p)

(* What an answer confirmed, and what is being filed because of it, is in  *)
(* the cloud.                                                              *)
ConfirmedAt(p) ==
  /\ op[p] = "send" /\ step[p] = "answered" => Confirmed(p) \subseteq cloud
  /\ op[p] = "mark" => todo[p] \subseteq cloud
  /\ op[p] = "mark" /\ step[p] # "next" => cur[p] \in cloud
  /\ InStore(p) /\ step[p] = "write" /\ target[p] = "synced" => op[p] = "mark"

Refusable == Invalid \union FutureDated

(* What an answer refused, and what is being filed because of it, is of    *)
(* the kinds that the cloud refuses.                                       *)
RefusableAt(p) ==
  /\ refused[p] \subseteq Refusable
  /\ op[p] = "fail" => todo[p] \subseteq Refusable
  /\ op[p] = "fail" /\ step[p] # "next" => cur[p] \in Refusable
  /\ InStore(p) /\ step[p] = "write" /\ target[p] = "failed" => op[p] = "fail"

(* A pending file is about to be removed only when its event no longer     *)
(* needs it, and so is one that is being quarantined without bytes.        *)
SettledAt(p) ==
  InStore(p) =>
    /\ step[p] = "remove" => Settled(cur[p])
    /\ step[p] = "write" => target[p] # "none"
    /\ step[p] = "write" /\ target[p] = "no bytes" => Settled(cur[p])

(* The four inductive invariants. *)
TypeInv == TypeOK /\ Tracked
SyncedInv == SyncedIsInCloud /\ \A p \in Procs : ConfirmedAt(p)
RefusedInv == RefusedIsRefused /\ early \subseteq FutureDated /\ \A p \in Procs : RefusableAt(p)
KeptInv == EvidenceKept /\ \A p \in Procs : SettledAt(p)

(* The steps of one process. *)
ProcStep(p) == Open(p) \/ Proceed(p) \/ SyncNowExpires(p) \/ SendFails(p) \/ StoreFails(p) \/ Crash(p)

(* A process whose variables a step leaves alone. *)
Rests(q) ==
  /\ op'[q] = op[q] /\ step'[q] = step[q] /\ target'[q] = target[q] /\ cur'[q] = cur[q]
  /\ todo'[q] = todo[q] /\ batch'[q] = batch[q] /\ refused'[q] = refused[q]

-----------------------------------------------------------------------------
USE EventsAssumption, ProcsAssumption, VerdictAssumption, FaultsAssumption, BoundsAssumption
USE DEF RecordStates, StoreOps, NoEvent

OpValues == {"down", "idle", "send"} \union StoreOps
StepValues == {"next", "read", "write", "remove", "in flight", "answered"}

(* The types of the variables of the processes. *)
ProcTypes ==
  /\ op \in [Procs -> OpValues] /\ step \in [Procs -> StepValues]
  /\ target \in [Procs -> {"none", "synced", "failed", "source bytes", "no bytes"}
                            \union RecordStates]
  /\ cur \in [Procs -> Events \union {NoEvent}]
  /\ todo \in [Procs -> SUBSET Events] /\ batch \in [Procs -> SUBSET Events]
  /\ refused \in [Procs -> SUBSET Events]

(* The types of the variables of a process. *)
LEMMA ProcTypesOK == TypeOK => ProcTypes
  BY DEF TypeOK, ProcTypes, OpValues, StepValues

(* What the operations do to the variables of their process. *)
LEMMA BeginEffect ==
  ASSUME ProcTypes, NEW p \in Procs, NEW o, NEW ids, Begin(p, o, ids)
  PROVE  /\ op'[p] = o /\ step'[p] = "next" /\ todo'[p] = ids
         /\ \A q \in Procs \ {p} : /\ op'[q] = op[q] /\ step'[q] = step[q] /\ todo'[q] = todo[q]
                                   /\ cur'[q] = cur[q] /\ target'[q] = target[q]
<1>1. op'[p] = o /\ step'[p] = "next" /\ todo'[p] = ids
  BY DEF Begin, ProcTypes
<1>2. \A q \in Procs \ {p} : op'[q] = op[q] /\ step'[q] = step[q] /\ todo'[q] = todo[q]
  BY DEF Begin, ProcTypes
<1>3. \A q \in Procs \ {p} : cur'[q] = cur[q] /\ target'[q] = target[q]
  BY DEF Begin, ProcTypes
<1> QED
  BY <1>1, <1>2, <1>3

(* What Visit does to each variable. *)
LEMMA VisitEffect ==
  ASSUME ProcTypes, NEW p \in Procs, Visit(p)
  PROVE  /\ InStore(p) /\ step'[p] \in {"read", "remove"}
         /\ step'[p] = "remove" => cur'[p] \in synced
         /\ cur'[p] \in todo[p] /\ todo'[p] \subseteq todo[p]
         /\ \A q \in Procs \ {p} : step'[q] = step[q] /\ cur'[q] = cur[q] /\ todo'[q] = todo[q]
         /\ UNCHANGED <<files, op, target, batch, refused, outside, recorded>>
<1>1. PICK e \in todo[p] :
        /\ cur' = [cur EXCEPT ![p] = e]
        /\ todo' = [todo EXCEPT ![p] = @ \ {e}]
        /\ step' = [step EXCEPT ![p] =
                      IF LooksForSynced(p) /\ e \in synced THEN "remove" ELSE "read"]
  BY DEF Visit
<1>2. cur'[p] = e /\ todo'[p] = todo[p] \ {e}
  BY <1>1 DEF ProcTypes
<1>3. /\ step'[p] \in {"read", "remove"}
      /\ step'[p] = "remove" => e \in synced
  BY <1>1 DEF ProcTypes
<1>4. \A q \in Procs \ {p} : step'[q] = step[q] /\ cur'[q] = cur[q] /\ todo'[q] = todo[q]
  BY <1>1 DEF ProcTypes
<1> QED
  BY <1>2, <1>3, <1>4 DEF Visit

(* What ReadRecord does to each variable. *)
LEMMA ReadRecordEffect ==
  ASSUME ProcTypes, NEW p \in Procs, ReadRecord(p)
  PROVE  /\ InStore(p) /\ step[p] = "read"
         /\ \/ step'[p] = "next"
            \/ step'[p] = "write" /\ target'[p] = Outcome(p)
         /\ \A q \in Procs \ {p} : step'[q] = step[q] /\ target'[q] = target[q]
         /\ UNCHANGED <<files, op, cur, todo, batch, refused, outside, recorded>>
<1>1. \/ step' = [step EXCEPT ![p] = "next"] /\ target' = target
      \/ /\ step' = [step EXCEPT ![p] = "write"]
         /\ target' = [target EXCEPT ![p] = Outcome(p)]
  BY DEF ReadRecord
<1>2. CASE step' = [step EXCEPT ![p] = "next"] /\ target' = target
  BY <1>2 DEF ReadRecord, ProcTypes
<1>3. CASE /\ step' = [step EXCEPT ![p] = "write"]
           /\ target' = [target EXCEPT ![p] = Outcome(p)]
  BY <1>3 DEF ReadRecord, ProcTypes
<1> QED
  BY <1>1, <1>2, <1>3

(* What an operation may write, and which operation files as what. *)
LEMMA OutcomeOfRead ==
  ASSUME NEW p \in Procs, InStore(p)
  PROVE  /\ Outcome(p) \in {"pending", "uploading", "synced", "failed"}
         /\ Outcome(p) = "synced" => op[p] = "mark"
         /\ Outcome(p) = "failed" => op[p] = "fail"
  BY DEF InStore, Outcome

(* What ReadFailsQuarantine does to each variable. *)
LEMMA QuarantineEffect ==
  ASSUME ProcTypes, NEW p \in Procs, ReadFailsQuarantine(p)
  PROVE  /\ InStore(p) /\ op[p] \in {"recover", "prepare"} /\ step[p] = "read"
         /\ step'[p] = "write"
         /\ target'[p] = IF pending[cur[p]] = "corrupt" THEN "source bytes" ELSE "no bytes"
         /\ \A q \in Procs \ {p} : step'[q] = step[q] /\ target'[q] = target[q]
         /\ UNCHANGED <<files, op, cur, todo, batch, refused, outside, recorded>>
<1>1. /\ step'[p] = "write"
      /\ \A q \in Procs \ {p} : step'[q] = step[q]
  BY DEF ReadFailsQuarantine, ProcTypes
<1>2. /\ target'[p] = IF pending[cur[p]] = "corrupt" THEN "source bytes" ELSE "no bytes"
      /\ \A q \in Procs \ {p} : target'[q] = target[q]
  BY DEF ReadFailsQuarantine, ProcTypes
<1> QED
  BY <1>1, <1>2 DEF ReadFailsQuarantine, InStore

(* What ReleaseSkips does to each variable. *)
LEMMA ReleaseSkipsEffect ==
  ASSUME ProcTypes, NEW p \in Procs, ReleaseSkips(p)
  PROVE  /\ InStore(p) /\ op[p] = "release" /\ step'[p] = "next"
         /\ \A q \in Procs \ {p} : step'[q] = step[q]
         /\ UNCHANGED <<files, op, target, cur, todo, batch, refused, outside, recorded>>
  BY DEF ReleaseSkips, InStore, ProcTypes

(* What WriteRecord does to each variable. *)
LEMMA WriteRecordEffect ==
  ASSUME ProcTypes, NEW p \in Procs, WriteRecord(p)
  PROVE  /\ InStore(p) /\ step[p] = "write"
         /\ step'[p] = IF target[p] \in RecordStates THEN "next" ELSE "remove"
         /\ pending' = IF target[p] \in RecordStates
                         THEN [pending EXCEPT ![cur[p]] = target[p]] ELSE pending
         /\ synced' = IF target[p] = "synced" THEN synced \union {cur[p]} ELSE synced
         /\ failed' = IF target[p] = "failed" THEN failed \union {cur[p]} ELSE failed
         /\ kept' = IF target[p] = "source bytes" THEN kept \union {cur[p]} ELSE kept
         /\ batch'[p] \subseteq batch[p] \union {cur[p]}
         /\ \A q \in Procs \ {p} : step'[q] = step[q] /\ batch'[q] = batch[q]
         /\ UNCHANGED <<op, target, cur, todo, refused, outside, recorded>>
<1>1. /\ step'[p] = IF target[p] \in RecordStates THEN "next" ELSE "remove"
      /\ \A q \in Procs \ {p} : step'[q] = step[q]
  BY DEF WriteRecord, ProcTypes
<1>2. /\ batch'[p] \subseteq batch[p] \union {cur[p]}
      /\ \A q \in Procs \ {p} : batch'[q] = batch[q]
  BY DEF WriteRecord, ProcTypes
<1> QED
  BY <1>1, <1>2 DEF WriteRecord

(* What RemoveRecord does to each variable. *)
LEMMA RemoveRecordEffect ==
  ASSUME ProcTypes, NEW p \in Procs, RemoveRecord(p)
  PROVE  /\ InStore(p) /\ step[p] = "remove" /\ step'[p] = "next"
         /\ pending' = [pending EXCEPT ![cur[p]] = "none"]
         /\ \A q \in Procs \ {p} : step'[q] = step[q]
         /\ UNCHANGED <<synced, failed, kept, op, target, cur, todo, batch, refused,
                        outside, recorded>>
  BY DEF RemoveRecord, ProcTypes

(* What EndOperation may begin, and with which ids. *)
LEMMA EndOperationEffect ==
  ASSUME ProcTypes, NEW p \in Procs, EndOperation(p)
  PROVE  /\ \/ op'[p] \in {"down", "idle"} /\ step'[p] = "next" /\ todo'[p] = {}
            \/ op'[p] = "fail" /\ step'[p] = "next" /\ todo'[p] = refused[p]
            \/ op'[p] = "send" /\ step'[p] = "in flight" /\ todo'[p] = {}
         /\ \A q \in Procs \ {p} : /\ op'[q] = op[q] /\ step'[q] = step[q] /\ todo'[q] = todo[q]
                                   /\ cur'[q] = cur[q] /\ target'[q] = target[q]
         /\ UNCHANGED <<files, batch, refused, outside, recorded>>
<1>1. UNCHANGED <<files, batch, refused, outside, recorded>>
  BY DEF EndOperation
<1>2. \/ Begin(p, "down", {})
      \/ Begin(p, "idle", {})
      \/ Begin(p, "fail", refused[p])
      \/ /\ op' = [op EXCEPT ![p] = "send"]
         /\ step' = [step EXCEPT ![p] = "in flight"]
         /\ todo' = [todo EXCEPT ![p] = {}]
         /\ cur' = [cur EXCEPT ![p] = NoEvent]
         /\ target' = [target EXCEPT ![p] = "none"]
  BY DEF EndOperation, InStore, GiveUp, Rest
<1>3. \/ op'[p] \in {"down", "idle"} /\ step'[p] = "next" /\ todo'[p] = {}
      \/ op'[p] = "fail" /\ step'[p] = "next" /\ todo'[p] = refused[p]
      \/ op'[p] = "send" /\ step'[p] = "in flight" /\ todo'[p] = {}
  BY <1>2 DEF Begin, ProcTypes
<1>4. \A q \in Procs \ {p} : op'[q] = op[q]
  BY <1>2 DEF Begin, ProcTypes
<1>5. \A q \in Procs \ {p} : step'[q] = step[q]
  BY <1>2 DEF Begin, ProcTypes
<1>6. \A q \in Procs \ {p} : todo'[q] = todo[q]
  BY <1>2 DEF Begin, ProcTypes
<1>7. \A q \in Procs \ {p} : cur'[q] = cur[q]
  BY <1>2 DEF Begin, ProcTypes
<1>8. \A q \in Procs \ {p} : target'[q] = target[q]
  BY <1>2 DEF Begin, ProcTypes
<1> QED
  BY <1>1, <1>3, <1>4, <1>5, <1>6, <1>7, <1>8

(* What CloudIngest does to each variable. *)
LEMMA CloudIngestEffect ==
  ASSUME ProcTypes, NEW p \in Procs, CloudIngest(p)
  PROVE  /\ op[p] = "send" /\ step'[p] = "answered"
         /\ cloud' = cloud \union (batch[p] \ Refuses(batch[p]))
         /\ refused'[p] = Refuses(batch[p])
         /\ \A q \in Procs \ {p} : step'[q] = step[q] /\ refused'[q] = refused[q]
         /\ UNCHANGED <<files, op, target, cur, todo, batch, early, late, recorded>>
<1>1. refused'[p] = Refuses(batch[p]) /\ \A q \in Procs \ {p} : refused'[q] = refused[q]
  BY DEF CloudIngest, ProcTypes
<1>2. step'[p] = "answered" /\ \A q \in Procs \ {p} : step'[q] = step[q]
  BY DEF CloudIngest, ProcTypes
<1> QED
  BY <1>1, <1>2 DEF CloudIngest

(* The steps that only begin an operation, or none. *)
LEMMA BeginningStep ==
  ASSUME ProcTypes, NEW p \in Procs,
         \/ Open(p) \/ BeginSync(p) \/ ReadFailsGiveUp(p) \/ SyncNowExpires(p)
         \/ SendFails(p) \/ StoreFails(p) \/ Crash(p)
  PROVE  /\ step'[p] = "next" /\ op'[p] \in {"recover", "prepare", "down", "idle", "release"}
         /\ \/ todo'[p] = {}
            \/ todo'[p] = PendingNames
            \/ todo'[p] = batch[p]
         /\ batch'[p] = {} \/ batch'[p] = batch[p]
         /\ \A q \in Procs \ {p} : Rests(q)
         /\ UNCHANGED <<files, refused, cloud, early, recorded>>
<1>1. ASSUME \/ Open(p) \/ BeginSync(p) \/ ReadFailsGiveUp(p) \/ SyncNowExpires(p)
             \/ SendFails(p) \/ StoreFails(p) \/ Crash(p)
      PROVE  /\ \E o \in {"recover", "prepare", "down", "idle", "release"} :
                  Begin(p, o, {}) \/ Begin(p, o, PendingNames) \/ Begin(p, o, batch[p])
             /\ batch' = batch \/ batch' = [batch EXCEPT ![p] = {}]
             /\ UNCHANGED <<files, refused, cloud, early, recorded>>
  BY <1>1 DEF Open, BeginSync, ReadFailsGiveUp, SyncNowExpires, SendFails, StoreFails, Crash, GiveUp, outside
<1>2. batch'[p] \in {{}, batch[p]} /\ \A q \in Procs \ {p} : batch'[q] = batch[q]
  BY <1>1 DEF ProcTypes
<1>3. PICK o \in {"recover", "prepare", "down", "idle", "release"} :
        Begin(p, o, {}) \/ Begin(p, o, PendingNames) \/ Begin(p, o, batch[p])
  BY <1>1
<1>4. /\ step'[p] = "next" /\ op'[p] = o
      /\ todo'[p] = {} \/ todo'[p] = PendingNames \/ todo'[p] = batch[p]
      /\ \A q \in Procs \ {p} : /\ op'[q] = op[q] /\ step'[q] = step[q] /\ todo'[q] = todo[q]
                                /\ cur'[q] = cur[q] /\ target'[q] = target[q]
  <2>1. PICK ids \in {{}, PendingNames, batch[p]} : Begin(p, o, ids)
    BY <1>3
  <2> QED
    BY <2>1, BeginEffect
<1>5. \A q \in Procs \ {p} : Rests(q)
  BY <1>1, <1>2, <1>4 DEF Rests
<1> QED
  BY <1>1, <1>2, <1>4, <1>5

(* What ReceiveAnswer does to each variable. *)
LEMMA ReceiveAnswerEffect ==
  ASSUME ProcTypes, NEW p \in Procs, ReceiveAnswer(p)
  PROVE  /\ op[p] = "send" /\ step[p] = "answered"
         /\ op'[p] = "mark" /\ step'[p] = "next" /\ todo'[p] = Confirmed(p)
         /\ \A q \in Procs \ {p} : /\ op'[q] = op[q] /\ step'[q] = step[q] /\ todo'[q] = todo[q]
                                   /\ cur'[q] = cur[q] /\ target'[q] = target[q]
         /\ UNCHANGED <<files, batch, refused, outside, recorded>>
<1>1. Begin(p, "mark", Confirmed(p))
  BY DEF ReceiveAnswer
<1> QED
  BY <1>1, BeginEffect DEF ReceiveAnswer

(* A step of one process leaves the variables of the others alone. *)
LEMMA OthersRest ==
  ASSUME ProcTypes, NEW p \in Procs, ProcStep(p)
  PROVE  \A q \in Procs \ {p} : Rests(q)
<1>1. CASE Visit(p)
  BY <1>1, VisitEffect DEF Rests
<1>2. CASE ReadRecord(p)
  BY <1>2, ReadRecordEffect DEF Rests
<1>3. CASE ReadFailsQuarantine(p)
  BY <1>3, QuarantineEffect DEF Rests
<1>4. CASE ReleaseSkips(p)
  BY <1>4, ReleaseSkipsEffect DEF Rests
<1>5. CASE WriteRecord(p)
  BY <1>5, WriteRecordEffect DEF Rests
<1>6. CASE RemoveRecord(p)
  BY <1>6, RemoveRecordEffect DEF Rests
<1>7. CASE EndOperation(p)
  BY <1>7, EndOperationEffect DEF Rests
<1>8. CASE CloudIngest(p)
  BY <1>8, CloudIngestEffect DEF Rests
<1>9. CASE ReceiveAnswer(p)
  BY <1>9, ReceiveAnswerEffect DEF Rests
<1>10. CASE \/ Open(p) \/ BeginSync(p) \/ ReadFailsGiveUp(p) \/ SyncNowExpires(p)
            \/ SendFails(p) \/ StoreFails(p) \/ Crash(p)
  BY <1>10, BeginningStep
<1> QED
  BY <1>1, <1>2, <1>3, <1>4, <1>5, <1>6, <1>7, <1>8, <1>9, <1>10 DEF ProcStep, Proceed

-----------------------------------------------------------------------------
(* Types.                                                                  *)

(* The types of the record in hand and of what will be written. *)
CurTypes ==
  /\ cur \in [Procs -> Events \union {NoEvent}]
  /\ target \in [Procs -> {"none", "synced", "failed", "source bytes", "no bytes"}
                          \union RecordStates]

(* Begin keeps the types of what it writes. *)
LEMMA BeginTyped ==
  ASSUME ProcTypes, NEW p \in Procs, NEW o \in OpValues, NEW ids \in SUBSET Events,
         Begin(p, o, ids)
  PROVE  /\ op' \in [Procs -> OpValues] /\ step' \in [Procs -> StepValues]
         /\ todo' \in [Procs -> SUBSET Events] /\ CurTypes'
<1>1. op' \in [Procs -> OpValues]
  BY DEF Begin, ProcTypes
<1>2. step' \in [Procs -> StepValues]
  BY DEF Begin, ProcTypes, StepValues
<1>3. todo' \in [Procs -> SUBSET Events]
  BY DEF Begin, ProcTypes
<1>4. CurTypes'
  BY DEF Begin, ProcTypes, CurTypes
<1> QED
  BY <1>1, <1>2, <1>3, <1>4

(* The processes' variables keep their types. *)
LEMMA ProcTypesKept ==
  ASSUME ProcTypes, NEW p \in Procs, ProcStep(p), AtRecord(p) => cur[p] \in Events
  PROVE  ProcTypes'
<1>1. CASE \/ Open(p) \/ BeginSync(p) \/ ReadFailsGiveUp(p) \/ SyncNowExpires(p)
           \/ SendFails(p) \/ StoreFails(p) \/ Crash(p)
  <2>1. /\ \E o \in OpValues, ids \in {{}, PendingNames, batch[p]} : Begin(p, o, ids)
        /\ batch' = batch \/ batch' = [batch EXCEPT ![p] = {}]
        /\ UNCHANGED refused
    BY <1>1 DEF Open, BeginSync, ReadFailsGiveUp, SyncNowExpires, SendFails, StoreFails, Crash, GiveUp, OpValues
  <2>2. {} \in SUBSET Events /\ PendingNames \in SUBSET Events /\ batch[p] \in SUBSET Events
    BY DEF ProcTypes, PendingNames
  <2>3. PICK o \in OpValues, ids \in SUBSET Events : Begin(p, o, ids)
    BY <2>1, <2>2
  <2>4. /\ op' \in [Procs -> OpValues] /\ step' \in [Procs -> StepValues]
        /\ todo' \in [Procs -> SUBSET Events] /\ CurTypes'
    BY <2>3, BeginTyped
  <2>5. batch' \in [Procs -> SUBSET Events]
    BY <2>1 DEF ProcTypes
  <2> QED
    BY <2>1, <2>4, <2>5 DEF ProcTypes, CurTypes
<1>2. CASE Visit(p)
  <2>1. PICK e \in todo[p] :
          /\ cur' = [cur EXCEPT ![p] = e]
          /\ todo' = [todo EXCEPT ![p] = @ \ {e}]
    BY <1>2 DEF Visit
  <2>2. cur' \in [Procs -> Events \union {NoEvent}] /\ todo' \in [Procs -> SUBSET Events]
    BY <2>1 DEF ProcTypes
  <2>3. step' = [step EXCEPT ![p] = "remove"] \/ step' = [step EXCEPT ![p] = "read"]
    BY <1>2 DEF Visit
  <2>4. step' \in [Procs -> StepValues]
    BY <2>3 DEF ProcTypes, StepValues
  <2> QED
    BY <1>2, <2>2, <2>4 DEF Visit, ProcTypes
<1>3. CASE ReadRecord(p)
  <2>1. Outcome(p) \in {"pending", "uploading", "synced", "failed"}
    BY <1>3, OutcomeOfRead DEF ReadRecord
  <2>2. target' = target \/ target' = [target EXCEPT ![p] = Outcome(p)]
    BY <1>3 DEF ReadRecord
  <2>3. target' \in [Procs -> {"none", "synced", "failed", "source bytes", "no bytes"}
                               \union RecordStates]
    BY <2>1, <2>2 DEF ProcTypes
  <2>4. step' = [step EXCEPT ![p] = "next"] \/ step' = [step EXCEPT ![p] = "write"]
    BY <1>3 DEF ReadRecord
  <2>5. step' \in [Procs -> StepValues]
    BY <2>4 DEF ProcTypes, StepValues
  <2> QED
    BY <1>3, <2>3, <2>5 DEF ReadRecord, ProcTypes
<1>4. CASE ReadFailsQuarantine(p)
  BY <1>4 DEF ReadFailsQuarantine, ProcTypes, StepValues
<1>5. CASE ReleaseSkips(p)
  BY <1>5 DEF ReleaseSkips, ProcTypes, StepValues
<1>6. CASE WriteRecord(p)
  <2>1. cur[p] \in Events
    BY <1>6 DEF WriteRecord, AtRecord
  <2>2. batch' = batch \/ batch' = [batch EXCEPT ![p] = @ \union {cur[p]}]
    BY <1>6 DEF WriteRecord, ProcTypes
  <2>3. batch' \in [Procs -> SUBSET Events]
    <3>1. batch \in [Procs -> SUBSET Events] /\ batch[p] \union {cur[p]} \in SUBSET Events
      BY <2>1 DEF ProcTypes
    <3> QED
      BY <2>2, <3>1
  <2>4. step' \in [Procs -> StepValues]
    BY <1>6 DEF WriteRecord, ProcTypes, StepValues
  <2> QED
    BY <1>6, <2>3, <2>4 DEF WriteRecord, ProcTypes
<1>7. CASE RemoveRecord(p)
  BY <1>7 DEF RemoveRecord, ProcTypes, StepValues
<1>8. CASE EndOperation(p)
  <2>1. \/ \E o \in OpValues, ids \in {{}, refused[p]} : Begin(p, o, ids)
        \/ /\ op' = [op EXCEPT ![p] = "send"]
           /\ step' = [step EXCEPT ![p] = "in flight"]
           /\ todo' = [todo EXCEPT ![p] = {}]
           /\ cur' = [cur EXCEPT ![p] = NoEvent]
           /\ target' = [target EXCEPT ![p] = "none"]
    BY <1>8 DEF EndOperation, InStore, GiveUp, Rest, OpValues
  <2>2. {} \in SUBSET Events /\ refused[p] \in SUBSET Events
    BY DEF ProcTypes
  <2>3. CASE \E o \in OpValues, ids \in {{}, refused[p]} : Begin(p, o, ids)
    <3>1. PICK o \in OpValues, ids \in SUBSET Events : Begin(p, o, ids)
      BY <2>2, <2>3
    <3>2. /\ op' \in [Procs -> OpValues] /\ step' \in [Procs -> StepValues]
          /\ todo' \in [Procs -> SUBSET Events] /\ CurTypes'
      BY <3>1, BeginTyped
    <3> QED
      BY <1>8, <3>2 DEF EndOperation, ProcTypes, CurTypes
  <2>4. CASE /\ op' = [op EXCEPT ![p] = "send"]
             /\ step' = [step EXCEPT ![p] = "in flight"]
             /\ todo' = [todo EXCEPT ![p] = {}]
             /\ cur' = [cur EXCEPT ![p] = NoEvent]
             /\ target' = [target EXCEPT ![p] = "none"]
    <3>1. op' \in [Procs -> OpValues] /\ step' \in [Procs -> StepValues]
      BY <2>4 DEF ProcTypes, OpValues, StepValues
    <3>2. todo' \in [Procs -> SUBSET Events]
      BY <2>4 DEF ProcTypes
    <3>3. CurTypes'
      BY <2>4 DEF ProcTypes, CurTypes
    <3> QED
      BY <1>8, <3>1, <3>2, <3>3 DEF EndOperation, ProcTypes, CurTypes
  <2> QED
    BY <2>1, <2>3, <2>4
<1>9. CASE CloudIngest(p)
  <2>1. Refuses(batch[p]) \in SUBSET Events
    BY DEF Refuses, ProcTypes
  <2> QED
    BY <1>9, <2>1 DEF CloudIngest, ProcTypes, StepValues
<1>10. CASE ReceiveAnswer(p)
  <2>1. Confirmed(p) \in SUBSET Events
    BY DEF Confirmed, ProcTypes
  <2>2. Begin(p, "mark", Confirmed(p)) /\ "mark" \in OpValues
    BY <1>10 DEF ReceiveAnswer, OpValues
  <2>3. /\ op' \in [Procs -> OpValues] /\ step' \in [Procs -> StepValues]
        /\ todo' \in [Procs -> SUBSET Events] /\ CurTypes'
    BY <2>1, <2>2, BeginTyped
  <2> QED
    BY <1>10, <2>3 DEF ReceiveAnswer, ProcTypes, CurTypes
<1> QED
  BY <1>1, <1>2, <1>3, <1>4, <1>5, <1>6, <1>7, <1>8, <1>9, <1>10 DEF ProcStep, Proceed

(* The types of the other variables. *)
FileTypes ==
  /\ pending \in [Events -> {"none", "corrupt"} \union RecordStates]
  /\ synced \subseteq Events /\ failed \subseteq Events /\ kept \subseteq Events

OutsideTypes ==
  /\ cloud \subseteq Events /\ early \subseteq Events /\ late \subseteq SUBSET Events
  /\ recorded \subseteq Events
  /\ disturbances \in Nat

(* The type invariant in three parts. *)
LEMMA TypesSplit == TypeOK <=> FileTypes /\ ProcTypes /\ OutsideTypes
  BY DEF TypeOK, FileTypes, ProcTypes, OutsideTypes, OpValues, StepValues

(* The files keep their types, and a process makes no pending file but of  *)
(* the record it is at.                                                    *)
LEMMA FilesKept ==
  ASSUME FileTypes, ProcTypes, NEW p \in Procs, ProcStep(p),
         AtRecord(p) => cur[p] \in recorded /\ cur[p] \in Events
  PROVE  /\ FileTypes' /\ recorded' = recorded
         /\ \A e \in PendingNames' : e \in PendingNames \/ e \in recorded
<1>1. CASE UNCHANGED files /\ recorded' = recorded
  BY <1>1 DEF FileTypes, files, PendingNames
<1>2. CASE WriteRecord(p)
  <2>1. cur[p] \in recorded /\ cur[p] \in Events
    BY <1>2 DEF WriteRecord, AtRecord
  <2>2. /\ \/ pending' = pending
           \/ target[p] \in RecordStates /\ pending' = [pending EXCEPT ![cur[p]] = target[p]]
        /\ synced' = synced \/ synced' = synced \union {cur[p]}
        /\ failed' = failed \/ failed' = failed \union {cur[p]}
        /\ kept' = kept \/ kept' = kept \union {cur[p]}
        /\ recorded' = recorded
    BY <1>2, WriteRecordEffect
  <2>3. pending' \in [Events -> {"none", "corrupt"} \union RecordStates]
    BY <2>2 DEF FileTypes
  <2>4. synced' \subseteq Events /\ failed' \subseteq Events /\ kept' \subseteq Events
    BY <2>1, <2>2 DEF FileTypes
  <2>5. \A e \in Events \ {cur[p]} : pending'[e] = pending[e]
    BY <2>1, <2>2 DEF FileTypes
  <2> QED
    BY <2>1, <2>2, <2>3, <2>4, <2>5 DEF FileTypes, PendingNames
<1>3. CASE RemoveRecord(p)
  <2>1. cur[p] \in Events
    BY <1>3, RemoveRecordEffect DEF AtRecord
  <2>2. /\ pending' = [pending EXCEPT ![cur[p]] = "none"]
        /\ UNCHANGED <<synced, failed, kept, recorded>>
    BY <1>3, RemoveRecordEffect
  <2>3. \A e \in Events \ {cur[p]} : pending'[e] = pending[e]
    BY <2>1, <2>2 DEF FileTypes
  <2> QED
    BY <2>1, <2>2, <2>3 DEF FileTypes, PendingNames
<1>4. \/ UNCHANGED files /\ recorded' = recorded
      \/ WriteRecord(p) \/ RemoveRecord(p)
  <2>1. CASE \/ Open(p) \/ BeginSync(p) \/ ReadFailsGiveUp(p) \/ SyncNowExpires(p)
             \/ SendFails(p) \/ StoreFails(p) \/ Crash(p)
    BY <2>1, BeginningStep
  <2>2. CASE \/ Visit(p) \/ ReadRecord(p) \/ ReadFailsQuarantine(p) \/ ReleaseSkips(p)
             \/ EndOperation(p) \/ CloudIngest(p) \/ ReceiveAnswer(p)
    BY <2>2 DEF Visit, ReadRecord, ReadFailsQuarantine, ReleaseSkips, EndOperation,
       CloudIngest, ReceiveAnswer
  <2> QED
    BY <2>1, <2>2 DEF ProcStep, Proceed
<1> QED
  BY <1>1, <1>2, <1>3, <1>4

(* The disturbance counter stays a number. *)
LEMMA DisturbTyped == ASSUME disturbances \in Nat, Disturb PROVE disturbances' \in Nat
  BY DEF Disturb

(* An abandoned batch is one that was tracked. *)
LEMMA AbandonTracked ==
  ASSUME OutsideTypes, ProcTypes, Tracked, NEW p \in Procs, Abandon(p)
  PROVE  late' \subseteq SUBSET Events /\ \A b \in late' : b \subseteq recorded
<1>1. late \subseteq SUBSET Events /\ batch[p] \in SUBSET Events
  BY DEF OutsideTypes, ProcTypes
<1>2. batch[p] \subseteq recorded /\ \A b \in late : b \subseteq recorded
  BY DEF Tracked, TrackedAt
<1>3. late' = late \/ late' = late \union {batch[p]}
  BY DEF Abandon
<1> QED
  BY <1>1, <1>2, <1>3

(* The cloud and the network keep their types. *)
LEMMA OutsideKept ==
  ASSUME OutsideTypes, ProcTypes, Tracked, NEW p \in Procs, ProcStep(p), recorded' = recorded
  PROVE  OutsideTypes' /\ \A b \in late' : b \subseteq recorded
<1>1. disturbances' \in Nat
  <2>1. disturbances' = disturbances \/ Disturb
    BY DEF ProcStep, Proceed, Open, BeginSync, Visit, ReadRecord, ReadFailsQuarantine, ReleaseSkips,
       ReadFailsGiveUp, WriteRecord, RemoveRecord, EndOperation, CloudIngest, ReceiveAnswer,
       SyncNowExpires, SendFails, StoreFails, Crash
  <2> QED
    BY <2>1, DisturbTyped DEF OutsideTypes
<1>2. late' = late \/ Abandon(p)
  BY DEF ProcStep, Proceed, Open, BeginSync, Visit, ReadRecord, ReadFailsQuarantine, ReleaseSkips,
     ReadFailsGiveUp, WriteRecord, RemoveRecord, EndOperation, CloudIngest, ReceiveAnswer,
     SyncNowExpires, SendFails, StoreFails, Crash, outside
<1>3. late' \subseteq SUBSET Events /\ \A b \in late' : b \subseteq recorded
  BY <1>2, AbandonTracked DEF OutsideTypes, Tracked
<1>4. early' = early /\ (cloud' = cloud \/ cloud' = cloud \union (batch[p] \ Refuses(batch[p])))
  BY DEF ProcStep, Proceed, Open, BeginSync, Visit, ReadRecord, ReadFailsQuarantine, ReleaseSkips,
     ReadFailsGiveUp, WriteRecord, RemoveRecord, EndOperation, CloudIngest, ReceiveAnswer,
     SyncNowExpires, SendFails, StoreFails, Crash, outside
<1>5. batch[p] \subseteq Events
  BY DEF ProcTypes
<1> QED
  BY <1>1, <1>3, <1>4, <1>5 DEF OutsideTypes

(* What a process refers to stays recorded. *)
LEMMA TrackedAtKept ==
  ASSUME TypeInv, NEW p \in Procs, ProcStep(p), recorded' = recorded
  PROVE  TrackedAt(p)'
<1>1. ProcTypes
  BY TypesSplit DEF TypeInv
<1>2. TrackedAt(p) /\ PendingNames \subseteq recorded
  BY DEF TypeInv, Tracked
<1>3. CASE \/ Open(p) \/ BeginSync(p) \/ ReadFailsGiveUp(p) \/ SyncNowExpires(p)
           \/ SendFails(p) \/ StoreFails(p) \/ Crash(p)
  BY <1>1, <1>2, <1>3, BeginningStep DEF TrackedAt, AtRecord
<1>4. CASE Visit(p)
  BY <1>1, <1>2, <1>4, VisitEffect DEF TrackedAt
<1>5. CASE ReadRecord(p)
  BY <1>1, <1>2, <1>5, ReadRecordEffect DEF TrackedAt, AtRecord
<1>6. CASE ReadFailsQuarantine(p)
  BY <1>1, <1>2, <1>6, QuarantineEffect DEF TrackedAt, AtRecord
<1>7. CASE ReleaseSkips(p)
  BY <1>1, <1>2, <1>7, ReleaseSkipsEffect DEF TrackedAt, AtRecord
<1>8. CASE WriteRecord(p)
  <2>1. cur[p] \in recorded /\ cur'[p] = cur[p]
    BY <1>1, <1>2, <1>8, WriteRecordEffect DEF TrackedAt, AtRecord
  <2>2. batch'[p] \subseteq recorded
    <3>1. batch'[p] \subseteq batch[p] \union {cur[p]}
      BY <1>1, <1>8, WriteRecordEffect
    <3>2. batch[p] \subseteq recorded
      BY <1>2 DEF TrackedAt
    <3> QED
      BY <2>1, <3>1, <3>2
  <2>3. todo' = todo /\ refused' = refused
    BY <1>1, <1>8, WriteRecordEffect
  <2> QED
    BY <1>2, <2>1, <2>2, <2>3 DEF TrackedAt
<1>9. CASE RemoveRecord(p)
  BY <1>1, <1>2, <1>9, RemoveRecordEffect DEF TrackedAt, AtRecord
<1>10. CASE EndOperation(p)
  BY <1>1, <1>2, <1>10, EndOperationEffect DEF TrackedAt, AtRecord, InStore
<1>11. CASE CloudIngest(p)
  BY <1>1, <1>2, <1>11, CloudIngestEffect DEF TrackedAt, AtRecord, InStore, Refuses
<1>12. CASE ReceiveAnswer(p)
  BY <1>1, <1>2, <1>12, ReceiveAnswerEffect DEF TrackedAt, AtRecord, InStore, Confirmed
<1> QED
  BY <1>3, <1>4, <1>5, <1>6, <1>7, <1>8, <1>9, <1>10, <1>11, <1>12 DEF ProcStep, Proceed

(* The initial state has its types and tracks nothing. *)
LEMMA InitTypeInv == Init => TypeInv
  BY DEF Init, TypeInv, TypeOK, Tracked, TrackedAt, AtRecord, InStore, PendingNames

(* Every step keeps the types and what is tracked. *)
LEMMA NextTypeInv == TypeInv /\ [Next]_vars => TypeInv'
<1>0. SUFFICES ASSUME TypeInv PROVE [Next]_vars => TypeInv'
  OBVIOUS
<1> DEFINE Same == \A p \in Procs : TrackedAt(p)'
<1>1. FileTypes /\ ProcTypes /\ OutsideTypes /\ Tracked
  BY <1>0, TypesSplit DEF TypeInv
<1>2. ASSUME NEW p \in Procs, ProcStep(p) PROVE TypeInv'
  <2>1. AtRecord(p) => cur[p] \in recorded /\ cur[p] \in Events
    BY <1>1 DEF Tracked, TrackedAt, OutsideTypes
  <2>2. ProcTypes'
    BY <1>1, <1>2, <2>1, ProcTypesKept
  <2>3. /\ FileTypes' /\ recorded' = recorded
        /\ \A e \in PendingNames' : e \in PendingNames \/ e \in recorded
    BY <1>1, <1>2, <2>1, FilesKept
  <2>4. OutsideTypes' /\ \A b \in late' : b \subseteq recorded
    BY <1>1, <1>2, <2>3, OutsideKept
  <2>5. \A q \in Procs \ {p} : TrackedAt(q)'
    <3>1. \A q \in Procs \ {p} : Rests(q)
      BY <1>1, <1>2, OthersRest
    <3> QED
      BY <1>1, <2>3, <3>1 DEF Tracked, TrackedAt, AtRecord, InStore, Rests
  <2>6. TrackedAt(p)'
    BY <1>0, <1>2, <2>3, TrackedAtKept
  <2>7. PendingNames' \subseteq recorded'
    BY <1>1, <2>3 DEF Tracked
  <2>8. Tracked'
    BY <2>3, <2>4, <2>5, <2>6, <2>7 DEF Tracked
  <2>9. TypeOK'
    BY <2>2, <2>3, <2>4, TypesSplit DEF TypeOK, FileTypes, ProcTypes, OutsideTypes, OpValues, StepValues
  <2> QED
    BY <2>8, <2>9 DEF TypeInv
<1>3. ASSUME UNCHANGED work, recorded \subseteq recorded' PROVE Same /\ ProcTypes'
  <2>1. Same
    BY <1>1, <1>3 DEF Tracked, TrackedAt, AtRecord, InStore, work
  <2>2. ProcTypes'
    BY <1>1, <1>3 DEF ProcTypes, work
  <2> QED
    BY <2>1, <2>2
<1>4. ASSUME NEW e \in Events, PutIfAbsent(e) PROVE TypeInv'
  <2>1. FileTypes' /\ PendingNames' \subseteq PendingNames \union {e}
    BY <1>1, <1>4 DEF PutIfAbsent, FileTypes, PendingNames
  <2>2. OutsideTypes' /\ recorded' = recorded \union {e} /\ late' = late
    BY <1>1, <1>4 DEF PutIfAbsent, OutsideTypes, outside
  <2>3. Same /\ ProcTypes'
    BY <1>3, <1>4, <2>2 DEF PutIfAbsent
  <2> QED
    BY <1>1, <2>1, <2>2, <2>3
       DEF TypeInv, Tracked, TypeOK, FileTypes, ProcTypes, OutsideTypes, OpValues, StepValues
<1>5. ASSUME NEW e \in Events, Damage(e) PROVE TypeInv'
  <2>1. FileTypes' /\ PendingNames' \subseteq PendingNames
    BY <1>1, <1>5 DEF Damage, Intact, FileTypes, PendingNames
  <2>2. OutsideTypes' /\ recorded' = recorded /\ late' = late
    BY <1>1, <1>5, DisturbTyped DEF Damage, OutsideTypes, outside
  <2>3. Same /\ ProcTypes'
    BY <1>3, <1>5, <2>2 DEF Damage
  <2> QED
    BY <1>1, <2>1, <2>2, <2>3
       DEF TypeInv, Tracked, TypeOK, FileTypes, ProcTypes, OutsideTypes, OpValues, StepValues
<1>6. ASSUME NEW e \in Events, TimeComes(e) PROVE TypeInv'
  <2>1. FileTypes' /\ PendingNames' = PendingNames
    BY <1>1, <1>6 DEF TimeComes, files, FileTypes, PendingNames
  <2>2. OutsideTypes' /\ recorded' = recorded /\ late' = late
    BY <1>1, <1>6 DEF TimeComes, OutsideTypes
  <2>3. Same /\ ProcTypes'
    BY <1>3, <1>6, <2>2 DEF TimeComes
  <2> QED
    BY <1>1, <2>1, <2>2, <2>3
       DEF TypeInv, Tracked, TypeOK, FileTypes, ProcTypes, OutsideTypes, OpValues, StepValues
<1>7. ASSUME NEW S \in SUBSET Events, PruneSynced(S) PROVE TypeInv'
  <2>1. FileTypes' /\ PendingNames' = PendingNames
    BY <1>1, <1>7 DEF PruneSynced, FileTypes, PendingNames
  <2>2. OutsideTypes' /\ recorded' = recorded /\ late' = late
    BY <1>1, <1>7, DisturbTyped DEF PruneSynced, OutsideTypes, outside
  <2>3. Same /\ ProcTypes'
    BY <1>3, <1>7, <2>2 DEF PruneSynced
  <2> QED
    BY <1>1, <2>1, <2>2, <2>3
       DEF TypeInv, Tracked, TypeOK, FileTypes, ProcTypes, OutsideTypes, OpValues, StepValues
<1>8. ASSUME NEW b \in SUBSET Events, LateIngest(b) PROVE TypeInv'
  <2>1. FileTypes' /\ PendingNames' = PendingNames
    BY <1>1, <1>8 DEF LateIngest, files, FileTypes, PendingNames
  <2>2. OutsideTypes' /\ recorded' = recorded /\ late' \subseteq late
    BY <1>1, <1>8 DEF LateIngest, OutsideTypes
  <2>3. Same /\ ProcTypes'
    BY <1>3, <1>8, <2>2 DEF LateIngest
  <2> QED
    BY <1>1, <2>1, <2>2, <2>3
       DEF TypeInv, Tracked, TypeOK, FileTypes, ProcTypes, OutsideTypes, OpValues, StepValues
<1>9. CASE UNCHANGED vars
  <2>1. Same /\ ProcTypes'
    BY <1>3, <1>9 DEF vars
  <2>2. FileTypes' /\ OutsideTypes' /\ PendingNames' = PendingNames
    BY <1>1, <1>9 DEF vars, files, outside, FileTypes, OutsideTypes, PendingNames
  <2> QED
    BY <1>1, <1>9, <2>1, <2>2
       DEF vars, outside, TypeInv, Tracked, TypeOK, FileTypes, ProcTypes, OutsideTypes, OpValues, StepValues
<1> QED
  BY <1>2, <1>4, <1>5, <1>6, <1>7, <1>8, <1>9 DEF Next, ProcStep

(* Every variable always has its type. *)
THEOREM TypeCorrect == Spec => []TypeOK
<1>1. Spec => []TypeInv
  BY InitTypeInv, NextTypeInv, PTL DEF Spec
<1>2. TypeInv => TypeOK
  BY DEF TypeInv
<1> QED
  BY <1>1, <1>2, PTL

-----------------------------------------------------------------------------
(* Synced means in the cloud.                                              *)

(* Nothing is filed at first. *)
LEMMA InitSyncedInv == Init => SyncedInv
  BY DEF Init, SyncedInv, SyncedIsInCloud, ConfirmedAt, InStore

(* What a process is filing stays confirmed. *)
LEMMA ConfirmedAtKept ==
  ASSUME ProcTypes, SyncedInv, NEW p \in Procs, ProcStep(p)
  PROVE  ConfirmedAt(p)'
<1>1. ConfirmedAt(p) /\ synced \subseteq cloud
  BY DEF SyncedInv, SyncedIsInCloud
<1>2. CASE \/ Open(p) \/ BeginSync(p) \/ ReadFailsGiveUp(p) \/ SyncNowExpires(p)
           \/ SendFails(p) \/ StoreFails(p) \/ Crash(p)
  BY <1>2, BeginningStep DEF ConfirmedAt
<1>3. CASE Visit(p)
  BY <1>1, <1>3, VisitEffect DEF ConfirmedAt, InStore, outside
<1>4. CASE ReadRecord(p)
  <2>1. /\ InStore(p) /\ step[p] = "read"
        /\ step'[p] = "next" \/ (step'[p] = "write" /\ target'[p] = Outcome(p))
        /\ op' = op /\ cur' = cur /\ todo' = todo /\ cloud' = cloud
    BY <1>4, ReadRecordEffect DEF outside
  <2>2. step'[p] \in {"next", "write"} /\ (step'[p] = "write" /\ target'[p] = "synced" => op[p] = "mark")
    BY <2>1, OutcomeOfRead
  <2>3. op[p] = "mark" => cur[p] \in cloud
    BY <1>1, <2>1 DEF ConfirmedAt
  <2> QED
    BY <1>1, <2>1, <2>2, <2>3 DEF ConfirmedAt, InStore, StoreOps
<1>5. CASE ReadFailsQuarantine(p)
  BY <1>5, QuarantineEffect DEF ConfirmedAt
<1>6. CASE ReleaseSkips(p)
  BY <1>6, ReleaseSkipsEffect DEF ConfirmedAt
<1>7. CASE WriteRecord(p)
  <2>1. /\ InStore(p) /\ step[p] = "write" /\ step'[p] \in {"next", "remove"}
        /\ op' = op /\ cur' = cur /\ todo' = todo /\ cloud' = cloud
    BY <1>7, WriteRecordEffect DEF outside
  <2> QED
    BY <1>1, <2>1 DEF ConfirmedAt, InStore, StoreOps
<1>8. CASE RemoveRecord(p)
  BY <1>1, <1>8, RemoveRecordEffect DEF ConfirmedAt, InStore, outside
<1>9. CASE EndOperation(p)
  BY <1>9, EndOperationEffect DEF ConfirmedAt, InStore
<1>10. CASE CloudIngest(p)
  BY <1>10, CloudIngestEffect DEF ConfirmedAt, Confirmed, InStore
<1>11. CASE ReceiveAnswer(p)
  BY <1>1, <1>11, ReceiveAnswerEffect DEF ConfirmedAt, outside
<1> QED
  BY <1>2, <1>3, <1>4, <1>5, <1>6, <1>7, <1>8, <1>9, <1>10, <1>11 DEF ProcStep, Proceed

(* The cloud keeps what it has, and only a confirmed record is filed.      *)
LEMMA SyncedKept ==
  ASSUME ProcTypes, SyncedInv, NEW p \in Procs, ProcStep(p)
  PROVE  cloud \subseteq cloud' /\ synced' \subseteq cloud'
<1>1. CASE WriteRecord(p)
  <2>1. target[p] = "synced" => cur[p] \in cloud
    BY <1>1, WriteRecordEffect DEF SyncedInv, ConfirmedAt
  <2>2. synced \subseteq cloud /\ cloud' = cloud
    BY <1>1, WriteRecordEffect DEF SyncedInv, SyncedIsInCloud, outside
  <2>3. synced' = synced \/ (target[p] = "synced" /\ synced' = synced \union {cur[p]})
    BY <1>1, WriteRecordEffect
  <2> QED
    BY <2>1, <2>2, <2>3
<1>2. CASE ~WriteRecord(p)
  <2>1. cloud \subseteq cloud' /\ synced' = synced
    BY <1>2 DEF ProcStep, Proceed, Open, BeginSync, Visit, ReadRecord, ReadFailsQuarantine,
       ReleaseSkips, ReadFailsGiveUp, RemoveRecord, EndOperation, CloudIngest, ReceiveAnswer,
       SyncNowExpires, SendFails, StoreFails, Crash, files, outside
  <2> QED
    BY <2>1 DEF SyncedInv, SyncedIsInCloud
<1> QED
  BY <1>1, <1>2

(* Every step keeps synced records in the cloud. *)
LEMMA NextSyncedInv == TypeInv /\ SyncedInv /\ [Next]_vars => SyncedInv'
<1>0. SUFFICES ASSUME TypeInv, SyncedInv PROVE [Next]_vars => SyncedInv'
  OBVIOUS
<1>1. ProcTypes
  BY <1>0, TypesSplit DEF TypeInv
<1>2. ASSUME NEW p \in Procs, ProcStep(p) PROVE SyncedInv'
  <2>1. cloud \subseteq cloud' /\ synced' \subseteq cloud'
    BY <1>0, <1>1, <1>2, SyncedKept
  <2>2. \A q \in Procs \ {p} : Rests(q) /\ ConfirmedAt(q)
    BY <1>0, <1>1, <1>2, OthersRest DEF SyncedInv
  <2>3. \A q \in Procs \ {p} : ConfirmedAt(q)'
    BY <2>1, <2>2 DEF ConfirmedAt, Confirmed, InStore, Rests
  <2>4. ConfirmedAt(p)'
    BY <1>0, <1>1, <1>2, ConfirmedAtKept
  <2> QED
    BY <2>1, <2>3, <2>4 DEF SyncedInv, SyncedIsInCloud
<1>3. ASSUME UNCHANGED work, cloud \subseteq cloud', synced' \subseteq synced PROVE SyncedInv'
  BY <1>0, <1>3 DEF SyncedInv, SyncedIsInCloud, ConfirmedAt, Confirmed, InStore, work
<1>4. ASSUME NEW e \in Events, PutIfAbsent(e) \/ Damage(e) \/ TimeComes(e) PROVE SyncedInv'
  BY <1>3, <1>4 DEF PutIfAbsent, Damage, TimeComes, files, outside
<1>5. ASSUME NEW S \in SUBSET Events, PruneSynced(S) PROVE SyncedInv'
  BY <1>3, <1>5 DEF PruneSynced, outside
<1>6. ASSUME NEW b \in SUBSET Events, LateIngest(b) PROVE SyncedInv'
  BY <1>3, <1>6 DEF LateIngest, files
<1>7. CASE UNCHANGED vars
  BY <1>3, <1>7 DEF vars, files, outside
<1> QED
  BY <1>2, <1>4, <1>5, <1>6, <1>7 DEF Next, ProcStep

(* Only what the cloud has is filed as synced: whatever answers are lost,  *)
(* late or refused, no record is free to be pruned before its event is in  *)
(* the cloud (syncOnce, MarkSynced, PruneSynced).                          *)
THEOREM SyncedIsInCloudAlways == Spec => []SyncedIsInCloud
<1>1. Spec => []TypeInv
  BY InitTypeInv, NextTypeInv, PTL DEF Spec
<1>2. Spec => []SyncedInv
  BY <1>1, InitSyncedInv, NextSyncedInv, PTL DEF Spec
<1>3. SyncedInv => SyncedIsInCloud
  BY DEF SyncedInv
<1> QED
  BY <1>2, <1>3, PTL

-----------------------------------------------------------------------------
(* Failed means refused.                                                   *)

(* Nothing is refused at first. *)
LEMMA InitRefusedInv == Init => RefusedInv
  BY DEF Init, RefusedInv, RefusedIsRefused, RefusableAt, InStore

(* What a process is filing as failed stays refusable. *)
LEMMA RefusableAtKept ==
  ASSUME ProcTypes, RefusedInv, NEW p \in Procs, ProcStep(p)
  PROVE  RefusableAt(p)'
<1>1. RefusableAt(p) /\ early \subseteq FutureDated
  BY DEF RefusedInv
<1>2. CASE \/ Open(p) \/ BeginSync(p) \/ ReadFailsGiveUp(p) \/ SyncNowExpires(p)
           \/ SendFails(p) \/ StoreFails(p) \/ Crash(p)
  BY <1>1, <1>2, BeginningStep DEF RefusableAt
<1>3. CASE Visit(p)
  BY <1>1, <1>3, VisitEffect DEF RefusableAt, InStore
<1>4. CASE ReadRecord(p)
  BY <1>1, <1>4, ReadRecordEffect, OutcomeOfRead DEF RefusableAt, InStore
<1>5. CASE ReadFailsQuarantine(p)
  BY <1>1, <1>5, QuarantineEffect DEF RefusableAt
<1>6. CASE ReleaseSkips(p)
  BY <1>1, <1>6, ReleaseSkipsEffect DEF RefusableAt
<1>7. CASE WriteRecord(p)
  BY <1>1, <1>7, WriteRecordEffect DEF RefusableAt, InStore
<1>8. CASE RemoveRecord(p)
  BY <1>1, <1>8, RemoveRecordEffect DEF RefusableAt, InStore
<1>9. CASE EndOperation(p)
  BY <1>1, <1>9, EndOperationEffect DEF RefusableAt, InStore
<1>10. CASE CloudIngest(p)
  BY <1>1, <1>10, CloudIngestEffect DEF RefusableAt, Refuses, Refusable, InStore
<1>11. CASE ReceiveAnswer(p)
  BY <1>1, <1>11, ReceiveAnswerEffect DEF RefusableAt
<1> QED
  BY <1>2, <1>3, <1>4, <1>5, <1>6, <1>7, <1>8, <1>9, <1>10, <1>11 DEF ProcStep, Proceed

(* Only a refusable record is filed as failed, and ingestion admits no     *)
(* invalid event.                                                          *)
LEMMA RefusedKept ==
  ASSUME ProcTypes, RefusedInv, NEW p \in Procs, ProcStep(p)
  PROVE  RefusedIsRefused' /\ early' = early
<1>1. CASE WriteRecord(p)
  <2>1. target[p] = "failed" => cur[p] \in Refusable
    BY <1>1, WriteRecordEffect DEF RefusedInv, RefusableAt
  <2>2. failed \subseteq Refusable /\ cloud \intersect Invalid = {} /\ cloud' = cloud /\ early' = early
    BY <1>1, WriteRecordEffect DEF RefusedInv, RefusedIsRefused, Refusable, outside
  <2>3. failed' = failed \/ (target[p] = "failed" /\ failed' = failed \union {cur[p]})
    BY <1>1, WriteRecordEffect
  <2> QED
    BY <2>1, <2>2, <2>3 DEF RefusedIsRefused, Refusable
<1>2. CASE ~WriteRecord(p)
  <2>1. failed' = failed /\ early' = early
    BY <1>2 DEF ProcStep, Proceed, Open, BeginSync, Visit, ReadRecord, ReadFailsQuarantine,
       ReleaseSkips, ReadFailsGiveUp, RemoveRecord, EndOperation, CloudIngest, ReceiveAnswer,
       SyncNowExpires, SendFails, StoreFails, Crash, files, outside
  <2>2. cloud' = cloud \/ cloud' = cloud \union (batch[p] \ Refuses(batch[p]))
    BY <1>2 DEF ProcStep, Proceed, Open, BeginSync, Visit, ReadRecord, ReadFailsQuarantine,
       ReleaseSkips, ReadFailsGiveUp, RemoveRecord, EndOperation, CloudIngest, ReceiveAnswer,
       SyncNowExpires, SendFails, StoreFails, Crash, files, outside
  <2> QED
    BY <2>1, <2>2 DEF RefusedInv, RefusedIsRefused, Refuses
<1> QED
  BY <1>1, <1>2

(* Every step keeps failed records refusable. *)
LEMMA NextRefusedInv == TypeInv /\ RefusedInv /\ [Next]_vars => RefusedInv'
<1>0. SUFFICES ASSUME TypeInv, RefusedInv PROVE [Next]_vars => RefusedInv'
  OBVIOUS
<1>1. ProcTypes
  BY <1>0, TypesSplit DEF TypeInv
<1>2. ASSUME NEW p \in Procs, ProcStep(p) PROVE RefusedInv'
  <2>1. RefusedIsRefused' /\ early' = early
    BY <1>0, <1>1, <1>2, RefusedKept
  <2>2. \A q \in Procs \ {p} : Rests(q) /\ RefusableAt(q)
    BY <1>0, <1>1, <1>2, OthersRest DEF RefusedInv
  <2>3. \A q \in Procs \ {p} : RefusableAt(q)'
    BY <2>2 DEF RefusableAt, InStore, Rests
  <2>4. RefusableAt(p)'
    BY <1>0, <1>1, <1>2, RefusableAtKept
  <2> QED
    BY <1>0, <2>1, <2>3, <2>4 DEF RefusedInv
<1>3. ASSUME UNCHANGED work, failed' = failed, early' \subseteq early, RefusedIsRefused'
      PROVE  RefusedInv'
  BY <1>0, <1>3 DEF RefusedInv, RefusableAt, InStore, work
<1>4. ASSUME NEW e \in Events, PutIfAbsent(e) \/ Damage(e) \/ TimeComes(e) PROVE RefusedInv'
  <2>1. UNCHANGED <<work, failed, cloud>> /\ early' \subseteq early
    BY <1>4 DEF PutIfAbsent, Damage, TimeComes, files, outside
  <2> QED
    BY <1>0, <1>3, <2>1 DEF RefusedInv, RefusedIsRefused
<1>5. ASSUME NEW S \in SUBSET Events, PruneSynced(S) PROVE RefusedInv'
  <2>1. UNCHANGED <<work, failed, cloud, early>>
    BY <1>5 DEF PruneSynced, outside
  <2> QED
    BY <1>0, <1>3, <2>1 DEF RefusedInv, RefusedIsRefused
<1>6. ASSUME NEW b \in SUBSET Events, LateIngest(b) PROVE RefusedInv'
  <2>1. UNCHANGED <<work, failed, early>> /\ cloud' = cloud \union (b \ Refuses(b))
    BY <1>6 DEF LateIngest, files
  <2>2. RefusedIsRefused'
    BY <1>0, <2>1 DEF RefusedInv, RefusedIsRefused, Refuses
  <2> QED
    BY <1>3, <2>1, <2>2
<1>7. CASE UNCHANGED vars
  <2>1. UNCHANGED <<work, failed, cloud, early>>
    BY <1>7 DEF vars, files, outside
  <2> QED
    BY <1>0, <1>3, <2>1 DEF RefusedInv, RefusedIsRefused
<1> QED
  BY <1>2, <1>4, <1>5, <1>6, <1>7 DEF Next, ProcStep

(* Only what the cloud refuses is filed as failed, and an event that it    *)
(* always refuses never enters it (MarkFailed, writeEvents).               *)
THEOREM RefusedIsRefusedAlways == Spec => []RefusedIsRefused
<1>1. Spec => []TypeInv
  BY InitTypeInv, NextTypeInv, PTL DEF Spec
<1>2. Spec => []RefusedInv
  BY <1>1, InitRefusedInv, NextRefusedInv, PTL DEF Spec
<1>3. RefusedInv => RefusedIsRefused
  BY DEF RefusedInv
<1> QED
  BY <1>2, <1>3, PTL

-----------------------------------------------------------------------------
(* Evidence is kept, when reading an intact record does not fail.          *)

(* Nothing is recorded at first. *)
LEMMA InitKeptInv == Init => KeptInv
  BY DEF Init, KeptInv, EvidenceKept, SettledAt, InStore

(* Nothing that is settled comes loose, and a process writes or removes    *)
(* nothing that would leave an event without evidence.                     *)
LEMMA SettledKept ==
  ASSUME ReadFaults = FALSE, TypeInv, SyncedInv, KeptInv, NEW p \in Procs, ProcStep(p)
  PROVE  /\ \A e : Settled(e) => Settled(e)'
         /\ SettledAt(p)'
<1>1. ProcTypes /\ FileTypes
  BY TypesSplit DEF TypeInv
<1>2. SettledAt(p) /\ ConfirmedAt(p) /\ synced \subseteq cloud
  BY DEF KeptInv, SyncedInv, SyncedIsInCloud
<1>3. ASSUME cloud \subseteq cloud', failed \subseteq failed', kept \subseteq kept'
      PROVE  \A e : Settled(e) => Settled(e)'
  BY <1>3 DEF Settled
<1>4. CASE \/ Open(p) \/ BeginSync(p) \/ ReadFailsGiveUp(p) \/ SyncNowExpires(p)
           \/ SendFails(p) \/ StoreFails(p) \/ Crash(p)
  BY <1>1, <1>3, <1>4, BeginningStep DEF SettledAt, files
<1>5. CASE Visit(p)
  <2>1. \A e : Settled(e) => Settled(e)'
    BY <1>1, <1>3, <1>5, VisitEffect DEF files, outside
  <2>2. step'[p] = "remove" => cur'[p] \in cloud'
    BY <1>1, <1>2, <1>5, VisitEffect DEF outside
  <2>3. step'[p] # "write"
    BY <1>1, <1>5, VisitEffect
  <2> QED
    BY <2>1, <2>2, <2>3 DEF SettledAt, Settled
<1>6. CASE ReadRecord(p)
  <2>1. \A e : Settled(e) => Settled(e)'
    BY <1>1, <1>3, <1>6, ReadRecordEffect DEF files, outside
  <2>2. step'[p] = "next" \/ (step'[p] = "write" /\ target'[p] \notin {"none", "no bytes"})
    BY <1>1, <1>6, ReadRecordEffect, OutcomeOfRead
  <2> QED
    BY <2>1, <2>2 DEF SettledAt
<1>7. CASE ReadFailsQuarantine(p)
  <2>1. cur[p] \in recorded /\ cur[p] \in Events
    BY <1>1, <1>7, QuarantineEffect DEF TypeInv, TypeOK, Tracked, TrackedAt, AtRecord
  <2>2. pending[cur[p]] # "corrupt" => pending[cur[p]] = "none"
    BY <1>1, <1>7, <2>1 DEF FileTypes, ReadFailsQuarantine, Unreadable, Intact
  <2>3. pending[cur[p]] # "corrupt" => Settled(cur[p])
    BY <2>1, <2>2 DEF KeptInv, EvidenceKept
  <2>4. \A e : Settled(e) => Settled(e)'
    BY <1>1, <1>3, <1>7, QuarantineEffect DEF files, outside
  <2>5. cur' = cur
    BY <1>1, <1>7, QuarantineEffect
  <2> QED
    <3>1. step'[p] = "write" /\ (target'[p] = "no bytes" => pending[cur[p]] # "corrupt")
      BY <1>1, <1>7, QuarantineEffect
    <3>2. target'[p] # "none"
      BY <1>1, <1>7, QuarantineEffect
    <3>3. pending[cur[p]] # "corrupt" => Settled(cur[p])'
      <4>1. UNCHANGED <<cur, cloud, failed, kept>>
        BY <1>1, <1>7, <2>5, QuarantineEffect DEF files, outside
      <4> QED
        BY <2>3, <4>1 DEF Settled
    <3>4. target'[p] = "no bytes" => Settled(cur[p])'
      BY <3>1, <3>3
    <3>5. step'[p] # "remove"
      BY <3>1
    <3> QED
      BY <2>4, <3>2, <3>4, <3>5 DEF SettledAt
<1>8. CASE ReleaseSkips(p)
  BY <1>1, <1>3, <1>8, ReleaseSkipsEffect DEF SettledAt, files, outside
<1>9. CASE WriteRecord(p)
  <2>1. cloud' = cloud /\ failed \subseteq failed' /\ kept \subseteq kept' /\ cur' = cur
    BY <1>1, <1>9, WriteRecordEffect DEF outside
  <2>2. target[p] \in {"synced", "failed", "source bytes", "no bytes"} \union RecordStates
    BY <1>1, <1>2, <1>9, WriteRecordEffect DEF SettledAt, ProcTypes
  <2>3. target[p] = "synced" => cur[p] \in cloud
    BY <1>1, <1>2, <1>9, WriteRecordEffect DEF ConfirmedAt
  <2>4. target[p] = "failed" => cur[p] \in failed'
    BY <1>1, <1>9, WriteRecordEffect
  <2>5. target[p] = "source bytes" => cur[p] \in kept'
    BY <1>1, <1>9, WriteRecordEffect
  <2>6. target[p] = "no bytes" => Settled(cur[p])
    BY <1>1, <1>2, <1>9, WriteRecordEffect DEF SettledAt
  <2>7. target[p] \notin RecordStates => Settled(cur[p])'
    BY <2>1, <2>2, <2>3, <2>4, <2>5, <2>6 DEF Settled
  <2>8. step'[p] = IF target[p] \in RecordStates THEN "next" ELSE "remove"
    BY <1>1, <1>9, WriteRecordEffect
  <2> QED
    BY <1>3, <2>1, <2>7, <2>8 DEF SettledAt
<1>10. CASE RemoveRecord(p)
  BY <1>1, <1>3, <1>10, RemoveRecordEffect DEF SettledAt, outside
<1>11. CASE EndOperation(p)
  BY <1>1, <1>3, <1>11, EndOperationEffect DEF SettledAt, InStore, files, outside
<1>12. CASE CloudIngest(p)
  BY <1>1, <1>3, <1>12, CloudIngestEffect DEF SettledAt, InStore, files
<1>13. CASE ReceiveAnswer(p)
  BY <1>1, <1>3, <1>13, ReceiveAnswerEffect DEF SettledAt, files, outside
<1> QED
  BY <1>4, <1>5, <1>6, <1>7, <1>8, <1>9, <1>10, <1>11, <1>12, <1>13 DEF ProcStep, Proceed

(* A pending file goes only when its event is settled. *)
LEMMA PendingGoesSettled ==
  ASSUME TypeInv, KeptInv, NEW p \in Procs, ProcStep(p), NEW e \in Events,
         pending[e] # "none", pending'[e] = "none"
  PROVE  Settled(e)
<1>1. ProcTypes /\ FileTypes
  BY TypesSplit DEF TypeInv
<1>2. CASE RemoveRecord(p)
  <2>1. Settled(cur[p])
    BY <1>1, <1>2, RemoveRecordEffect DEF KeptInv, SettledAt
  <2>2. pending' = [pending EXCEPT ![cur[p]] = "none"]
    BY <1>1, <1>2, RemoveRecordEffect
  <2>3. e = cur[p]
    BY <1>1, <2>2 DEF FileTypes
  <2> QED
    BY <2>1, <2>3
<1>3. CASE WriteRecord(p)
  <2>1. \/ pending' = pending
        \/ target[p] \in RecordStates /\ pending' = [pending EXCEPT ![cur[p]] = target[p]]
    BY <1>1, <1>3, WriteRecordEffect
  <2> QED
    BY <1>1, <2>1 DEF FileTypes
<1>4. CASE ~RemoveRecord(p) /\ ~WriteRecord(p)
  <2>1. pending' = pending
    BY <1>4 DEF ProcStep, Proceed, Open, BeginSync, Visit, ReadRecord, ReadFailsQuarantine,
       ReleaseSkips, ReadFailsGiveUp, EndOperation, CloudIngest, ReceiveAnswer,
       SyncNowExpires, SendFails, StoreFails, Crash, files
  <2> QED
    BY <2>1
<1> QED
  BY <1>2, <1>3, <1>4

(* Every step keeps the evidence, if intact records can be read. *)
LEMMA NextKeptInv ==
  ReadFaults = FALSE /\ TypeInv /\ SyncedInv /\ KeptInv /\ [Next]_vars => KeptInv'
<1>0. SUFFICES ASSUME ReadFaults = FALSE, TypeInv, SyncedInv, KeptInv
               PROVE  [Next]_vars => KeptInv'
  OBVIOUS
<1>1. ProcTypes /\ FileTypes /\ OutsideTypes
  BY <1>0, TypesSplit DEF TypeInv
<1>2. ASSUME NEW p \in Procs, ProcStep(p) PROVE KeptInv'
  <2>1. (\A e : Settled(e) => Settled(e)') /\ SettledAt(p)'
    BY <1>0, <1>2, SettledKept
  <2>2. \A q \in Procs \ {p} : Rests(q) /\ SettledAt(q)
    BY <1>0, <1>1, <1>2, OthersRest DEF KeptInv
  <2>3. \A q \in Procs \ {p} : SettledAt(q)'
    <3>1. TAKE q \in Procs \ {p}
    <3>2. Rests(q) /\ SettledAt(q)
      BY <2>2
    <3>3. Settled(cur[q]) => Settled(cur[q])'
      BY <2>1, <3>2 DEF Rests, Settled
    <3> QED
      BY <3>2, <3>3 DEF SettledAt, InStore, Rests
  <2>4. recorded' = recorded /\ recorded \subseteq Events
    <3>1. AtRecord(p) => cur[p] \in recorded /\ cur[p] \in Events
      BY <1>0, <1>1 DEF TypeInv, Tracked, TrackedAt, OutsideTypes
    <3> QED
      BY <1>1, <1>2, <3>1, FilesKept DEF OutsideTypes
  <2>5. \A e \in recorded : pending'[e] # "none" \/ Settled(e)
    BY <1>0, <1>2, <2>4, PendingGoesSettled DEF KeptInv, EvidenceKept
  <2>6. EvidenceKept'
    BY <2>1, <2>4, <2>5 DEF EvidenceKept
  <2> QED
    BY <2>1, <2>3, <2>6 DEF KeptInv
<1>3. ASSUME UNCHANGED <<work, failed, kept>>, cloud \subseteq cloud'
      PROVE  (\A q \in Procs : SettledAt(q)') /\ \A e : Settled(e) => Settled(e)'
  <2>1. \A e : Settled(e) => Settled(e)'
    BY <1>3 DEF Settled
  <2>2. ASSUME NEW q \in Procs PROVE SettledAt(q)'
    <3>1. Settled(cur[q]) => Settled(cur[q])'
      BY <1>3 DEF work, Settled
    <3> QED
      BY <1>0, <1>3, <3>1 DEF KeptInv, SettledAt, InStore, work
  <2> QED
    BY <2>1, <2>2
<1>4. ASSUME NEW e \in Events, PutIfAbsent(e) PROVE KeptInv'
  <2>1. /\ \A f \in Events \ {e} : pending'[f] = pending[f]
        /\ pending'[e] = "pending"
        /\ recorded' = recorded \union {e}
    BY <1>1, <1>4 DEF PutIfAbsent, FileTypes
  <2>2. (\A q \in Procs : SettledAt(q)') /\ \A f : Settled(f) => Settled(f)'
    BY <1>3, <1>4 DEF PutIfAbsent, outside
  <2> QED
    BY <1>0, <1>1, <2>1, <2>2 DEF KeptInv, EvidenceKept, OutsideTypes
<1>5. ASSUME NEW e \in Events, Damage(e) PROVE KeptInv'
  <2>1. /\ \A f \in Events \ {e} : pending'[f] = pending[f]
        /\ pending'[e] = "corrupt"
        /\ recorded' = recorded
    BY <1>1, <1>5 DEF Damage, FileTypes
  <2>2. (\A q \in Procs : SettledAt(q)') /\ \A f : Settled(f) => Settled(f)'
    BY <1>3, <1>5 DEF Damage, outside
  <2> QED
    BY <1>0, <1>1, <2>1, <2>2 DEF KeptInv, EvidenceKept, OutsideTypes
<1>6. ASSUME UNCHANGED <<pending, failed, kept, work, recorded>>, cloud \subseteq cloud'
      PROVE  KeptInv'
  BY <1>0, <1>3, <1>6 DEF KeptInv, EvidenceKept
<1>7. ASSUME NEW e \in Events, TimeComes(e) PROVE KeptInv'
  BY <1>6, <1>7 DEF TimeComes, files
<1>8. ASSUME NEW S \in SUBSET Events, PruneSynced(S) PROVE KeptInv'
  BY <1>6, <1>8 DEF PruneSynced, outside
<1>9. ASSUME NEW b \in SUBSET Events, LateIngest(b) PROVE KeptInv'
  BY <1>6, <1>9 DEF LateIngest, files
<1>10. CASE UNCHANGED vars
  BY <1>6, <1>10 DEF vars, files, outside
<1> QED
  BY <1>2, <1>4, <1>5, <1>7, <1>8, <1>9, <1>10 DEF Next, ProcStep

(* The three invariants together, if intact records can be read. *)
LEMMA KeptInvAlways == ASSUME ReadFaults = FALSE PROVE Spec => [](TypeInv /\ SyncedInv /\ KeptInv)
<1>1. Spec => []TypeInv
  BY InitTypeInv, NextTypeInv, PTL DEF Spec
<1>2. Spec => []SyncedInv
  BY <1>1, InitSyncedInv, NextSyncedInv, PTL DEF Spec
<1>3. TypeInv /\ SyncedInv /\ KeptInv /\ [Next]_vars => KeptInv'
  BY NextKeptInv
<1>4. Spec => []KeptInv
  BY <1>1, <1>2, <1>3, InitKeptInv, PTL DEF Spec
<1> QED
  BY <1>1, <1>2, <1>4, PTL

(* Evidence that PutIfAbsent made durable is never lost, whatever crashes  *)
(* between whichever file operations of the service and of sync-now,       *)
(* provided that reading an intact record does not fail.                   *)
THEOREM EvidenceKeptAlways == ASSUME ReadFaults = FALSE PROVE Spec => []EvidenceKept
<1>1. KeptInv => EvidenceKept
  BY DEF KeptInv
<1> QED
  BY <1>1, KeptInvAlways, PTL

-----------------------------------------------------------------------------
(* The queue implements EvidenceDelivery.                                  *)

Held == {e \in Events : pending[e] # "none" \/ e \in synced \/ e \in failed \/ e \in kept}

(* The initial states map to the initial state of EvidenceDelivery. *)
LEMMA InitDelivers == Init => Evidence!Init
  BY DEF Init, Evidence!Init

(* Implements says what a step means to EvidenceDelivery. *)
Implements ==
  \/ \E S \in SUBSET Events : Held' = Held \union S /\ cloud' = cloud
  \/ \E S \in SUBSET Events : S \subseteq Held /\ cloud' = cloud \union S /\ Held' = Held
  \/ \E S \in SUBSET Events : S \subseteq cloud /\ Held' = Held \ S /\ cloud' = cloud
  \/ Held' = Held /\ cloud' = cloud

(* What reaches the cloud and was not there has a copy on the bridge. *)
LEMMA UploadedIsHeld ==
  ASSUME TypeInv, KeptInv, NEW S \in SUBSET recorded
  PROVE  S \ cloud \subseteq Held /\ S \ cloud \in SUBSET Events
<1>1. recorded \subseteq Events
  BY DEF TypeInv, TypeOK
<1>2. \A e \in S \ cloud : pending[e] # "none" \/ e \in failed \/ e \in kept
  BY DEF KeptInv, EvidenceKept, Settled
<1> QED
  BY <1>1, <1>2 DEF Held

(* Every step maps to a step of EvidenceDelivery or a stutter. *)
LEMMA NextDelivers ==
  TypeInv /\ SyncedInv /\ KeptInv /\ [Next]_vars => Implements
<1>0. SUFFICES ASSUME TypeInv, SyncedInv, KeptInv
               PROVE  [Next]_vars => Implements
  OBVIOUS
<1> DEFINE Stutter == UNCHANGED <<pending, synced, failed, kept, cloud>>
<1>1. Stutter => Implements
  BY DEF Implements, Held
<1>2. ASSUME NEW p \in Procs,
             \/ Open(p) \/ BeginSync(p) \/ Visit(p) \/ ReadRecord(p) \/ ReadFailsQuarantine(p)
             \/ ReleaseSkips(p) \/ ReadFailsGiveUp(p) \/ EndOperation(p) \/ ReceiveAnswer(p)
             \/ SyncNowExpires(p) \/ SendFails(p) \/ StoreFails(p) \/ Crash(p)
      PROVE  Stutter
  BY <1>2 DEF Open, BeginSync, Visit, ReadRecord, ReadFailsQuarantine, ReleaseSkips,
     ReadFailsGiveUp, EndOperation, ReceiveAnswer, SyncNowExpires, SendFails, StoreFails, Crash, files, outside
<1>3. ASSUME NEW p \in Procs, WriteRecord(p) PROVE Implements
  <2>1. cur[p] \in Events
    BY <1>0, <1>3 DEF TypeInv, TypeOK, Tracked, TrackedAt, AtRecord, WriteRecord
  <2>2. pending' = pending \/ (pending' = [pending EXCEPT ![cur[p]] = target[p]] /\ target[p] # "none")
    BY <1>0, <1>3, WriteRecordEffect, TypesSplit DEF TypeInv
  <2>3. /\ synced' = synced \/ synced' = synced \union {cur[p]}
        /\ failed' = failed \/ failed' = failed \union {cur[p]}
        /\ kept' = kept \/ kept' = kept \union {cur[p]}
        /\ cloud' = cloud
    BY <1>0, <1>3, WriteRecordEffect, TypesSplit DEF TypeInv, outside
  <2>4. \A e \in Events : e # cur[p] =>
          (pending'[e] = pending[e] /\ (e \in synced' <=> e \in synced)
             /\ (e \in failed' <=> e \in failed) /\ (e \in kept' <=> e \in kept))
    <3>1. pending \in [Events -> {"none", "corrupt"} \union RecordStates]
      BY <1>0 DEF TypeInv, TypeOK
    <3>2. \A e \in Events : e # cur[p] => pending'[e] = pending[e]
      BY <2>2, <3>1
    <3> QED
      BY <2>3, <3>2
  <2>5. \A e \in Events \ {cur[p]} : e \in Held' <=> e \in Held
    BY <2>4 DEF Held
  <2>6. pending'[cur[p]] = pending[cur[p]] \/ pending'[cur[p]] # "none"
    <3>1. pending \in [Events -> {"none", "corrupt"} \union RecordStates]
      BY <1>0 DEF TypeInv, TypeOK
    <3> QED
      BY <2>1, <2>2, <3>1
  <2>7. cur[p] \in Held => cur[p] \in Held'
    BY <2>3, <2>6 DEF Held
  <2>8. Held \subseteq Events /\ Held' \subseteq Events
    BY DEF Held
  <2>9. Held' = Held \/ Held' = Held \union {cur[p]}
    <3>1. CASE cur[p] \in Held' /\ cur[p] \notin Held
      BY <2>5, <2>8, <3>1
    <3>2. CASE ~(cur[p] \in Held' /\ cur[p] \notin Held)
      <4>1. \A e \in Events : e \in Held' <=> e \in Held
        BY <2>5, <2>7, <3>2
      <4> QED
        BY <2>8, <4>1
    <3> QED
      BY <3>1, <3>2
  <2>10. {cur[p]} \in SUBSET Events
    BY <2>1
  <2> QED
    BY <2>3, <2>9, <2>10 DEF Implements
<1>4. ASSUME NEW p \in Procs, RemoveRecord(p) PROVE Implements
  <2>1. cur[p] \in Events /\ Settled(cur[p])
    BY <1>0, <1>4 DEF TypeInv, TypeOK, Tracked, TrackedAt, AtRecord, KeptInv, SettledAt, RemoveRecord
  <2>2. /\ \A e \in Events : e # cur[p] => pending'[e] = pending[e]
        /\ pending'[cur[p]] = "none"
        /\ UNCHANGED <<synced, failed, kept, cloud>>
    BY <1>0, <1>4, <2>1 DEF RemoveRecord, TypeInv, TypeOK, outside
  <2>3. \A e \in Events \ {cur[p]} : e \in Held' <=> e \in Held
    BY <2>2 DEF Held
  <2>4. Held \subseteq Events /\ Held' \subseteq Events
    BY DEF Held
  <2>5. cur[p] \in Held' => cur[p] \in Held
    BY <2>2 DEF Held
  <2>6. cur[p] \notin Held' => cur[p] \in cloud
    BY <2>1, <2>2 DEF Held, Settled
  <2>7. Held' = Held \/ (Held' = Held \ {cur[p]} /\ cur[p] \in cloud)
    <3>1. CASE cur[p] \in Held'
      <4>1. \A e \in Events : e \in Held' <=> e \in Held
        BY <2>3, <2>5, <3>1
      <4> QED
        BY <2>4, <4>1
    <3>2. CASE cur[p] \notin Held'
      BY <2>3, <2>4, <2>6, <3>2
    <3> QED
      BY <3>1, <3>2
  <2>8. CASE Held' = Held
    BY <2>2, <2>8 DEF Implements
  <2>9. CASE Held' = Held \ {cur[p]} /\ cur[p] \in cloud
    <3>1. {cur[p]} \in SUBSET Events /\ {cur[p]} \subseteq cloud
      BY <2>1, <2>9
    <3> QED
      BY <2>2, <2>9, <3>1 DEF Implements
  <2> QED
    BY <2>7, <2>8, <2>9
<1>5. ASSUME NEW p \in Procs, CloudIngest(p) PROVE Implements
  <2> DEFINE S == batch[p] \ Refuses(batch[p])
  <2>1. S \in SUBSET recorded
    BY <1>0 DEF TypeInv, Tracked, TrackedAt
  <2>2. cloud' = cloud \union (S \ cloud) /\ Held' = Held
    BY <1>5 DEF CloudIngest, Held, files
  <2> QED
    BY <1>0, <2>1, <2>2, UploadedIsHeld DEF Implements
<1>6. ASSUME NEW b \in SUBSET Events, LateIngest(b) PROVE Implements
  <2> DEFINE S == b \ Refuses(b)
  <2>1. S \in SUBSET recorded
    BY <1>0, <1>6 DEF TypeInv, Tracked, LateIngest
  <2>2. cloud' = cloud \union (S \ cloud) /\ Held' = Held
    BY <1>6 DEF LateIngest, Held, files
  <2> QED
    BY <1>0, <2>1, <2>2, UploadedIsHeld DEF Implements
<1>7. ASSUME NEW e \in Events, PutIfAbsent(e) PROVE Implements
  <2>1. /\ \A f \in Events \ {e} : pending'[f] = pending[f]
        /\ pending'[e] = "pending"
        /\ UNCHANGED <<synced, failed, kept, cloud>>
    BY <1>0, <1>7 DEF PutIfAbsent, TypeInv, TypeOK, outside
  <2>2. (\A f \in Events \ {e} : f \in Held' <=> f \in Held) /\ e \in Held'
    BY <2>1 DEF Held
  <2>3. Held \subseteq Events /\ Held' \subseteq Events
    BY DEF Held
  <2>4. Held' = Held \union {e} /\ {e} \in SUBSET Events
    BY <2>2, <2>3
  <2> QED
    BY <2>1, <2>4 DEF Implements
<1>8. ASSUME NEW e \in Events, Damage(e) PROVE Implements
  <2>1. Held' = Held /\ cloud' = cloud
    BY <1>0, <1>8 DEF Damage, Intact, Held, TypeInv, TypeOK, outside
  <2> QED
    BY <2>1 DEF Implements
<1>9. ASSUME NEW e \in Events, TimeComes(e) PROVE Stutter
  BY <1>9 DEF TimeComes, files
<1>10. ASSUME NEW S \in SUBSET Events, PruneSynced(S) PROVE Implements
  <2>1. synced' = synced \ S /\ UNCHANGED <<pending, failed, kept, cloud>>
    BY <1>10 DEF PruneSynced, outside
  <2>2. Held \ Held' \subseteq cloud /\ Held' \subseteq Held /\ Held \in SUBSET Events
    BY <1>0, <2>1 DEF Held, SyncedInv, SyncedIsInCloud
  <2>3. Held' = Held \ (Held \ Held')
    BY <2>2
  <2> QED
    BY <2>1, <2>2, <2>3 DEF Implements
<1>11. ASSUME UNCHANGED vars PROVE Stutter
  BY <1>11 DEF vars, files, outside
<1> QED
  BY <1>1, <1>2, <1>3, <1>4, <1>5, <1>6, <1>7, <1>8, <1>9, <1>10, <1>11 DEF Next, Proceed

(* Every behaviour of the queue, the uploader and the cloud function is a  *)
(* behaviour of EvidenceDelivery: the cloud receives only what the bridge  *)
(* holds, and the bridge lets go of an event only once the cloud has it.   *)
THEOREM QueueDeliversEvidence == ASSUME ReadFaults = FALSE PROVE Spec => DeliversEvidence
<1>1. Implements => [Evidence!Next]_(Evidence!vars)
  BY DEF Implements, Held, Evidence!Next, Evidence!Hold, Evidence!Deliver, Evidence!LetGo,
     Evidence!vars
<1>2. TypeInv /\ SyncedInv /\ KeptInv /\ [Next]_vars => [Evidence!Next]_(Evidence!vars)
  BY <1>1, NextDelivers
<1> QED
  BY <1>2, InitDelivers, KeptInvAlways, PTL DEF Spec, DeliversEvidence, Evidence!Spec
=============================================================================
