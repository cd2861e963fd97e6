---------------------------- MODULE DevicePolling ----------------------------
(***************************************************************************)
(* How the bridge reads the terminal's event log (internal/bridge/runner.go*)
(* pollOnce, internal/hikvision/client.go SearchEventsDetailed, and the    *)
(* checkpoint of internal/store/store.go).                                 *)
(*                                                                         *)
(* A poll reads the clock and the checkpoint, searches the window that     *)
(* ends at that clock reading and begins Overlap before the checkpoint,    *)
(* page by page while the terminal goes on recording, makes every event it *)
(* found durable, and only then moves the checkpoint to the end of its     *)
(* window.  Two goroutines poll: pollLoop on its ticker and commandLoop    *)
(* around a fingerprint enrolment.  They share the checkpoint, only the    *)
(* device search is serialised, and the last one to write the checkpoint   *)
(* wins, whichever window was the later.                                   *)
(*                                                                         *)
(* The terminal stamps an event with its own clock and lists it when it    *)
(* has recorded it: the stamp may be behind the bridge's clock by up to    *)
(* Lag (a slow clock or a slow log) or ahead of it by up to Ahead.         *)
(***************************************************************************)
EXTENDS Integers, FiniteSets

CONSTANTS
  Events,           \* device events, numbered
  Pollers,          \* pollLoop and commandLoop
  PageSize,         \* events in a page of a search
  Overlap,          \* service.overlapSeconds
  Lookback,         \* service.initialLookbackHours
  Lag, Ahead,       \* how far a stamp may be behind or ahead of the clock
  MaxStepBack,      \* how far the bridge's clock may be set back
  MaxTime,          \* bound on the clock
  MaxFailures       \* bound on failed polls, crashes and clocks set back

ASSUME EventsAssumption == Events \subseteq Nat /\ IsFiniteSet(Events)
ASSUME PageSizeAssumption == PageSize \in Nat \ {0}
ASSUME TimesAssumption ==
  /\ Overlap \in Nat /\ Lookback \in Nat /\ Lag \in Nat /\ Ahead \in Nat
  /\ MaxStepBack \in Nat /\ MaxTime \in Nat /\ MaxFailures \in Nat

Absent == MaxTime + Ahead + 1     \* the stamp of an event not yet recorded
NoCheckpoint == -1                \* checkpoint.txt does not exist

VARIABLES
  now,              \* the bridge's clock
  peak,             \* the latest time it has shown
  stamp,            \* the terminal's log: the time of each recorded event
  held,             \* events made durable by the store (EventStore keeps them)
  checkpoint,       \* checkpoint.txt
  pc,               \* "idle", "search", "paging", "persist" of each poller
  from, to,         \* the window of the poll
  first,            \* the poll found no checkpoint
  found,            \* events of the window still to be made durable
  position,         \* where the next page of the search begins
  horizon,          \* where the initial windows begin: nothing older is read
  failures

polls == <<pc, from, to, first, found, position>>
vars == <<now, peak, stamp, held, checkpoint, polls, horizon, failures>>

Recorded(e) == stamp[e] # Absent

Init ==
  /\ now = 0 /\ peak = 0
  /\ stamp = [e \in Events |-> Absent]
  /\ held = {}
  /\ checkpoint = NoCheckpoint
  /\ pc = [q \in Pollers |-> "idle"]
  /\ from = [q \in Pollers |-> 0]
  /\ to = [q \in Pollers |-> 0]
  /\ first = [q \in Pollers |-> FALSE]
  /\ found = [q \in Pollers |-> {}]
  /\ position = [q \in Pollers |-> 0]
  /\ horizon = -Lookback
  /\ failures = 0

-----------------------------------------------------------------------------
(* The environment. *)

Tick ==
  /\ now < MaxTime
  /\ now' = now + 1
  /\ peak' = IF now + 1 > peak THEN now + 1 ELSE peak
  /\ UNCHANGED <<stamp, held, checkpoint, polls, horizon, failures>>

(* The bridge PC's clock is set back. *)
StepBack ==
  /\ failures < MaxFailures
  /\ failures' = failures + 1
  /\ \E t \in 0 .. now : t < now /\ t >= peak - MaxStepBack /\ now' = t
  /\ UNCHANGED <<peak, stamp, held, checkpoint, polls, horizon>>

(* The terminal records an event. *)
Record(e) ==
  /\ ~Recorded(e)
  /\ \E s \in (now - Lag) .. (now + Ahead) : stamp' = [stamp EXCEPT ![e] = s]
  /\ UNCHANGED <<now, peak, held, checkpoint, polls, horizon, failures>>

-----------------------------------------------------------------------------
(* pollOnce. *)

(* Mutant: the windows do not overlap. *)
WindowStartAtCheckpoint(end) ==
  IF checkpoint = NoCheckpoint THEN end - Lookback
  ELSE IF checkpoint > end THEN end ELSE checkpoint

(* Where the window begins.  A checkpoint ahead of the clock (the clock was *)
(* set back) is replaced by the clock.                                      *)
WindowStart(end) ==
  IF checkpoint = NoCheckpoint THEN end - Lookback
  ELSE IF checkpoint - Overlap > end THEN end - Overlap
  ELSE checkpoint - Overlap

(* The clock and the checkpoint are read before the device is free. *)
BeginPoll(q) ==
  /\ pc[q] = "idle"
  /\ pc' = [pc EXCEPT ![q] = "search"]
  /\ to' = [to EXCEPT ![q] = now]
  /\ from' = [from EXCEPT ![q] = WindowStart(now)]
  /\ first' = [first EXCEPT ![q] = checkpoint = NoCheckpoint]
  /\ UNCHANGED <<now, peak, stamp, held, checkpoint, found, position, horizon, failures>>

InWindow(q) == {e \in Events : Recorded(e) /\ stamp[e] >= from[q] /\ stamp[e] <= to[q]}

(* The terminal lists the events of a window by time; one that it records  *)
(* during the search moves those after it to later positions.              *)
Before(f, e) == stamp[f] < stamp[e] \/ (stamp[f] = stamp[e] /\ f < e)
PositionOf(q, e) == Cardinality({f \in InWindow(q) : Before(f, e)})

(* It fills every page but the last. *)
NextPosition(q) == position[q] + PageSize
PageOf(q) == {e \in InWindow(q) : position[q] <= PositionOf(q, e) /\ PositionOf(q, e) < NextPosition(q)}

(* Mutant: the search ends with its first page. *)
OnePageOnly(q) == NextPosition(q) >= PageSize

(* searchComplete: the total is that of the page's answer. *)
SearchComplete(q) == NextPosition(q) >= Cardinality(InWindow(q))

(* One page of SearchEventsDetailed; deviceMu is held until the last one.  *)
SearchPage(q) ==
  /\ pc[q] \in {"search", "paging"}
  /\ \A r \in Pollers \ {q} : pc[r] # "paging"
  /\ found' = [found EXCEPT ![q] = @ \union PageOf(q)]
  /\ IF SearchComplete(q)
       THEN /\ pc' = [pc EXCEPT ![q] = "persist"]
            /\ position' = [position EXCEPT ![q] = 0]
       ELSE /\ pc' = [pc EXCEPT ![q] = "paging"]
            /\ position' = [position EXCEPT ![q] = NextPosition(q)]
  /\ UNCHANGED <<now, peak, stamp, held, checkpoint, from, to, first, horizon, failures>>

(* PutIfAbsent, or PreserveParseIssue for an event that cannot be decoded. *)
Persist(q, e) ==
  /\ pc[q] = "persist" /\ e \in found[q]
  /\ held' = held \union {e}
  /\ found' = [found EXCEPT ![q] = @ \ {e}]
  /\ UNCHANGED <<now, peak, stamp, checkpoint, pc, from, to, first, position, horizon, failures>>

(* Mutant: the checkpoint is saved while found events are still in memory. *)
SavesEarly(q) == pc[q] = "persist"

ReadyToSave(q) == pc[q] = "persist" /\ found[q] = {}

(* pollOnce returns, or its process dies: its variables are gone. *)
EndPoll(Q) ==
  /\ pc' = [q \in Pollers |-> IF q \in Q THEN "idle" ELSE pc[q]]
  /\ from' = [q \in Pollers |-> IF q \in Q THEN 0 ELSE from[q]]
  /\ to' = [q \in Pollers |-> IF q \in Q THEN 0 ELSE to[q]]
  /\ first' = [q \in Pollers |-> q \notin Q /\ first[q]]
  /\ found' = [q \in Pollers |-> IF q \in Q THEN {} ELSE found[q]]
  /\ position' = [q \in Pollers |-> IF q \in Q THEN 0 ELSE position[q]]

(* SetCheckpoint(end): it may put an older window's end over a newer one. *)
SaveCheckpoint(q) ==
  /\ ReadyToSave(q)
  /\ checkpoint' = to[q]
  /\ horizon' = IF first[q] /\ from[q] > horizon THEN from[q] ELSE horizon
  /\ EndPoll({q})
  /\ UNCHANGED <<now, peak, stamp, held, failures>>

(* The search or a write fails: the poll ends without a checkpoint. *)
PollFails(q) ==
  /\ pc[q] # "idle"
  /\ failures < MaxFailures
  /\ failures' = failures + 1
  /\ EndPoll({q})
  /\ UNCHANGED <<now, peak, stamp, held, checkpoint, horizon>>

(* The process dies and is started again. *)
Crash ==
  /\ failures < MaxFailures
  /\ failures' = failures + 1
  /\ EndPoll(Pollers)
  /\ UNCHANGED <<now, peak, stamp, held, checkpoint, horizon>>

PollStep(q) ==
  \/ BeginPoll(q) \/ SearchPage(q) \/ SaveCheckpoint(q)
  \/ \E e \in Events : Persist(q, e)

Next ==
  \/ Tick \/ StepBack \/ Crash
  \/ \E e \in Events : Record(e)
  \/ \E q \in Pollers : PollStep(q) \/ PollFails(q)

Spec == Init /\ [][Next]_vars

(* The ticker of pollLoop and the loop of commandLoop never stop, and a    *)
(* device request ends (it has a timeout); the clock goes on.  That one of *)
(* the two goes on is enough.                                              *)
FairSpec ==
  /\ Spec
  /\ WF_vars(\E q \in Pollers : PollStep(q))
  /\ WF_vars(Tick)

-----------------------------------------------------------------------------
TypeOK ==
  /\ now \in Nat /\ peak \in Nat /\ now <= peak
  /\ stamp \in [Events -> Int]
  /\ held \subseteq Events
  /\ checkpoint \in Nat \union {NoCheckpoint}
  /\ pc \in [Pollers -> {"idle", "search", "paging", "persist"}]
  /\ from \in [Pollers -> Int]
  /\ to \in [Pollers -> Nat]
  /\ first \in [Pollers -> BOOLEAN]
  /\ found \in [Pollers -> SUBSET Events]
  /\ position \in [Pollers -> Nat]
  /\ horizon \in Int
  /\ failures \in Nat

(* The events that the next poll will no longer ask for are all durable:   *)
(* the checkpoint never moves past evidence that was not handled, although *)
(* events appear late, searches and checkpoint writes of two pollers       *)
(* interleave, and a poll may stop anywhere (docs/ARCHITECTURE.md,         *)
(* reliability invariant 1).                                               *)
CheckpointCoversEvidence ==
  checkpoint # NoCheckpoint =>
    \A e \in Events :
      Recorded(e) /\ stamp[e] >= horizon /\ stamp[e] < checkpoint - Overlap => e \in held

(* Every event the terminal records since the initial window is made       *)
(* durable in the end, by one poll or another.                             *)
EventsAreCollected ==
  \A e \in Events :
    Recorded(e) ~> (e \in held \/ stamp[e] < horizon \/ stamp[e] > MaxTime)
=============================================================================
