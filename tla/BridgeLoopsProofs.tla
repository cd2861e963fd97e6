-------------------------- MODULE BridgeLoopsProofs --------------------------
(***************************************************************************)
(* Proofs about the two loops of the bridge, which share no variable.      *)
(*                                                                         *)
(* CommandLoop, for any commands, any capacity of the states channel and   *)
(* any number of flaps and faults: its types, that a loop which believes   *)
(* itself offline is polling, and that what it believes of the stream is   *)
(* so unless a notification was given up.                                  *)
(*                                                                         *)
(* DevicePolling, for any events, pollers and times: its types, and, when  *)
(* the overlap covers the lag of the terminal and the steps back of the    *)
(* bridge's clock together, that the checkpoint never moves past evidence  *)
(* that is not durable.                                                    *)
(***************************************************************************)
EXTENDS CommandLoop, DevicePolling, FiniteSetTheorems, TLAPS

-----------------------------------------------------------------------------
(* CommandLoop.                                                            *)


(* A timer that has fired has reconciled the start. *)
ExchangesReconcile == exchange # "none" => startupReconciled

PollingInv == OfflineIsPolling /\ ExchangesReconcile


(* The callbacks of the stream that tell the loop of a change. *)
LEMMA NotifyTyped ==
  ASSUME states \in Seq(BOOLEAN), Len(states) <= StatesCapacity, missed \in BOOLEAN,
         NEW up \in BOOLEAN, Notify(up)
  PROVE  /\ states' \in Seq(BOOLEAN) /\ Len(states') <= StatesCapacity /\ missed' \in BOOLEAN
         /\ ~missed' => states' # <<>> /\ states'[Len(states')] = up
<1>1. CASE Len(states) < StatesCapacity
  <2>1. states' = Append(states, up) /\ missed' = FALSE
    BY <1>1 DEF Notify
  <2>2. states' \in Seq(BOOLEAN) /\ Len(states') = Len(states) + 1 /\ states'[Len(states) + 1] = up
    BY <2>1
  <2>3. Len(states) \in Nat
    OBVIOUS
  <2>4. Len(states') <= StatesCapacity /\ states' # <<>>
    BY <1>1, <2>2, <2>3, LoopAssumption
  <2> QED
    BY <2>1, <2>2, <2>4
<1>2. CASE ~(Len(states) < StatesCapacity)
  BY <1>2 DEF Notify
<1> QED
  BY <1>1, <1>2

(* Reading the channel leaves the last notification the last. *)
LEMMA TailOfStates ==
  ASSUME states \in Seq(BOOLEAN), states # <<>>
  PROVE  /\ Tail(states) \in Seq(BOOLEAN) /\ Len(Tail(states)) < Len(states)
         /\ Head(states) \in BOOLEAN
         /\ IF Tail(states) = <<>> THEN Head(states) = states[Len(states)]
            ELSE Tail(states)[Len(Tail(states))] = states[Len(states)]
<1>1. Len(states) \in Nat \ {0} /\ Head(states) = states[1] /\ Head(states) \in BOOLEAN
  OBVIOUS
<1>2. Tail(states) \in Seq(BOOLEAN) /\ Len(Tail(states)) = Len(states) - 1
  OBVIOUS
<1>3. \A i \in 1 .. Len(states) - 1 : Tail(states)[i] = states[i + 1]
  OBVIOUS
<1>4. CASE Tail(states) = <<>>
  BY <1>1, <1>2, <1>4
<1>5. CASE Tail(states) # <<>>
  <2>1. Len(Tail(states)) # 0
    BY <1>2, <1>5
  <2>2. Len(Tail(states)) \in 1 .. Len(states) - 1
    BY <1>1, <1>2, <2>1
  <2>3. Tail(states)[Len(Tail(states))] = states[Len(Tail(states)) + 1]
    BY <1>3, <2>2
  <2> QED
    BY <1>1, <1>2, <1>5, <2>3
<1> QED
  BY <1>1, <1>2, <1>4, <1>5

-----------------------------------------------------------------------------
(* Types. *)

(* The loop starts with well-formed variables. *)
LEMMA LoopInitTyped == LoopInit => LoopTypeOK
<1>1. LoopInit => states \in Seq(BOOLEAN) /\ Len(states) <= StatesCapacity
  BY LoopAssumption DEF LoopInit
<1>2. LoopInit => command \in [Commands -> {"none", "queued", "leased", "done"}]
  BY DEF LoopInit
<1>3. LoopInit => flaps \in Nat /\ faults \in Nat
  BY DEF LoopInit
<1> QED
  BY <1>1, <1>2, <1>3, Zenon DEF LoopInit, LoopTypeOK

(* Every step leaves them well-formed. *)
LEMMA LoopNextTyped == LoopTypeOK /\ [LoopNext]_loopVars => LoopTypeOK'
<1>0. SUFFICES ASSUME LoopTypeOK, [LoopNext]_loopVars PROVE LoopTypeOK'
  OBVIOUS
<1>1. ASSUME NEW c \in Commands, Queue(c) \/ Signal(c) \/ SignalFails(c) \/ LeaseExpires(c)
      PROVE  LoopTypeOK'
  BY <1>0, <1>1 DEF LoopTypeOK, Queue, Signal, SignalFails, LeaseExpires, channels, loop
<1>2. CASE Connect \/ Disconnect
  <2>1. PICK up \in BOOLEAN : Notify(up)
    BY <1>2 DEF Connect, Disconnect
  <2>2. states' \in Seq(BOOLEAN) /\ Len(states') <= StatesCapacity /\ missed' \in BOOLEAN
    BY <1>0, <2>1, NotifyTyped DEF LoopTypeOK
  <2>3. UNCHANGED <<command, unsignalled, wake, loop, faults>>
    BY <1>2 DEF Connect, Disconnect
  <2>4. streamUp' \in BOOLEAN /\ put' \in BOOLEAN
    BY <1>2, Zenon DEF Connect, Disconnect
  <2>5. flaps' \in Nat
    <3>1. flaps' = flaps \/ flaps' = flaps + 1
      BY <1>2, Zenon DEF Connect, Disconnect
    <3>2. flaps \in Nat
      BY <1>0 DEF LoopTypeOK
    <3> QED
      BY <3>1, <3>2
  <2> QED
    BY <1>0, <2>2, <2>3, <2>4, <2>5 DEF LoopTypeOK, loop
<1>3. CASE ReceivePut \/ TakeWake \/ TimerFires
  BY <1>0, <1>3 DEF LoopTypeOK, ReceivePut, TakeWake, TimerFires, channels, loop
<1>4. CASE TakeState
  <2>1. /\ Tail(states) \in Seq(BOOLEAN) /\ Len(Tail(states)) < Len(states)
        /\ Head(states) \in BOOLEAN
    BY <1>0, <1>4, TailOfStates DEF LoopTypeOK, TakeState
  <2>2. Len(states) \in Nat /\ Len(Tail(states)) \in Nat
    BY <1>0, <2>1 DEF LoopTypeOK
  <2>3. Len(Tail(states)) <= StatesCapacity
    BY <1>0, <2>1, <2>2, LoopAssumption DEF LoopTypeOK
  <2>4. timer' \in BOOLEAN /\ connected' \in BOOLEAN
    BY <1>0, <1>4, <2>1 DEF LoopTypeOK, TakeState
  <2> QED
    BY <1>0, <1>4, <2>1, <2>3, <2>4 DEF LoopTypeOK, TakeState
<1>5. CASE Serve
  BY <1>0, <1>5 DEF LoopTypeOK, Serve, channels
<1>6. CASE ExchangeReturns \/ ExchangeFails
  <2>1. receipts' \subseteq Commands
    BY <1>0, <1>6 DEF LoopTypeOK, ExchangeReturns, ExchangeFails
  <2>2. timer' \in BOOLEAN
    BY <1>0, <1>6 DEF LoopTypeOK, ExchangeReturns, ExchangeFails
  <2>3. faults' \in Nat
    BY <1>0, <1>6 DEF LoopTypeOK, ExchangeReturns, ExchangeFails, Fault
  <2> QED
    BY <1>0, <1>6, <2>1, <2>2, <2>3 DEF LoopTypeOK, ExchangeReturns, ExchangeFails, EndExchange, channels
<1>7. CASE BridgeRestarts
  <2>1. receipts' \subseteq Commands /\ faults' \in Nat
    BY <1>0, <1>7 DEF LoopTypeOK, BridgeRestarts, Fault
  <2>2. states' \in Seq(BOOLEAN) /\ Len(states') <= StatesCapacity
    BY <1>7, LoopAssumption DEF BridgeRestarts
  <2> QED
    BY <1>0, <1>7, <2>1, <2>2 DEF LoopTypeOK, BridgeRestarts, EndExchange
<1>8. CASE UNCHANGED loopVars
  BY <1>0, <1>8 DEF LoopTypeOK, loopVars, channels, loop
<1> QED
  BY <1>0, <1>1, <1>2, <1>3, <1>4, <1>5, <1>6, <1>7, <1>8 DEF LoopNext

(* The variables of the loop, its channels and the cloud keep their types, *)
(* the states channel its capacity (commandLoop).                          *)
THEOREM LoopTypeCorrect == LoopSpec => []LoopTypeOK
  BY LoopInitTyped, LoopNextTyped, PTL DEF LoopSpec

-----------------------------------------------------------------------------
(* Offline means polling. *)

(* No action of commandLoop leaves the loop offline, or not yet            *)
(* reconciled, without a timer.                                            *)
LEMMA NextPolling == LoopTypeOK /\ PollingInv /\ [LoopNext]_loopVars => PollingInv'
<1>0. SUFFICES ASSUME LoopTypeOK, PollingInv, [LoopNext]_loopVars PROVE PollingInv'
  OBVIOUS
<1> USE DEF PollingInv, OfflineIsPolling, ExchangesReconcile, Selecting
<1>1. CASE UNCHANGED <<connected, startupReconciled, timer, exchange>>
  BY <1>0, <1>1
<1>2. CASE TakeState
  <2>1. Head(states) \in BOOLEAN
    BY <1>0, <1>2, TailOfStates DEF LoopTypeOK, TakeState
  <2>2. CASE Head(states)
    BY <1>0, <1>2, <2>2 DEF TakeState
  <2>3. CASE ~Head(states)
    BY <1>0, <1>2, <2>3 DEF TakeState
  <2> QED
    BY <2>2, <2>3
<1>3. CASE TakeWake
  BY <1>0, <1>3 DEF TakeWake
<1>4. CASE TimerFires
  BY <1>4 DEF TimerFires
<1>5. CASE Serve
  BY <1>0, <1>5 DEF Serve
<1>6. CASE ExchangeReturns
  <2>1. startupReconciled' /\ connected' = connected /\ exchange' = "none"
    BY <1>0, <1>6 DEF ExchangeReturns, EndExchange
  <2>2. ~connected => timer'
    BY <1>6 DEF ExchangeReturns
  <2> QED
    BY <2>1, <2>2
<1>7. CASE ExchangeFails \/ BridgeRestarts
  BY <1>7 DEF ExchangeFails, BridgeRestarts, EndExchange
<1>8. ASSUME NEW c \in Commands, Queue(c) \/ Signal(c) \/ SignalFails(c) \/ LeaseExpires(c)
      PROVE  UNCHANGED <<connected, startupReconciled, timer, exchange>>
  BY <1>8 DEF Queue, Signal, SignalFails, LeaseExpires, loop
<1>9. ASSUME Connect \/ Disconnect \/ ReceivePut \/ UNCHANGED loopVars
      PROVE  UNCHANGED <<connected, startupReconciled, timer, exchange>>
  BY <1>9 DEF Connect, Disconnect, ReceivePut, loopVars, loop
<1> QED
  BY <1>0, <1>1, <1>2, <1>3, <1>4, <1>5, <1>6, <1>7, <1>8, <1>9 DEF LoopNext

(* A command loop that takes the stream for closed, or that has not yet    *)
(* asked the cloud anything since it was started, never waits without a    *)
(* timer, whatever the stream and the exchanges do (commandLoop).          *)
THEOREM OfflineIsPollingAlways == LoopSpec => []OfflineIsPolling
<1>1. LoopInit => PollingInv
  BY DEF LoopInit, PollingInv, OfflineIsPolling, ExchangesReconcile, Selecting
<1>2. LoopSpec => []PollingInv
  BY <1>1, LoopInitTyped, LoopNextTyped, NextPolling, PTL DEF LoopSpec
<1>3. PollingInv => OfflineIsPolling
  BY DEF PollingInv
<1> QED
  BY <1>2, <1>3, PTL

-----------------------------------------------------------------------------
(* Belief. *)

(* A change of the stream is the last notification, or it is missed; and   *)
(* the loop takes the notifications in their order.                        *)
LEMMA NextBelief == LoopTypeOK /\ BeliefFollowsStream /\ [LoopNext]_loopVars => BeliefFollowsStream'
<1>0. SUFFICES ASSUME LoopTypeOK, BeliefFollowsStream, [LoopNext]_loopVars PROVE BeliefFollowsStream'
  OBVIOUS
<1>1. CASE UNCHANGED <<missed, streamUp, states, connected>>
  BY <1>0, <1>1 DEF BeliefFollowsStream
<1>2. CASE Connect \/ Disconnect
  <2>1. streamUp' \in BOOLEAN /\ Notify(streamUp')
    BY <1>2 DEF Connect, Disconnect
  <2>2. ~missed' => states' # <<>> /\ states'[Len(states')] = streamUp'
    BY <1>0, <2>1, NotifyTyped DEF LoopTypeOK
  <2> QED
    BY <2>2 DEF BeliefFollowsStream
<1>3. CASE TakeState
  <2>1. IF Tail(states) = <<>> THEN Head(states) = states[Len(states)]
        ELSE Tail(states)[Len(Tail(states))] = states[Len(states)]
    BY <1>0, <1>3, TailOfStates DEF LoopTypeOK, TakeState
  <2>2. /\ states # <<>> /\ states' = Tail(states) /\ connected' = Head(states)
        /\ UNCHANGED <<missed, streamUp>>
    BY <1>3 DEF TakeState
  <2> QED
    BY <1>0, <2>1, <2>2 DEF BeliefFollowsStream
<1>4. CASE BridgeRestarts
  BY <1>4 DEF BridgeRestarts, BeliefFollowsStream
<1>5. ASSUME NEW c \in Commands, Queue(c) \/ Signal(c) \/ SignalFails(c) \/ LeaseExpires(c)
      PROVE  UNCHANGED <<missed, streamUp, states, connected>>
  BY <1>5 DEF Queue, Signal, SignalFails, LeaseExpires, loop, channels
<1>6. ASSUME \/ ReceivePut \/ TakeWake \/ TimerFires \/ Serve \/ ExchangeReturns
             \/ ExchangeFails \/ UNCHANGED loopVars
      PROVE  UNCHANGED <<missed, streamUp, states, connected>>
  BY <1>6 DEF ReceivePut, TakeWake, TimerFires, Serve, ExchangeReturns, ExchangeFails,
     loopVars, loop, channels
<1> QED
  BY <1>0, <1>1, <1>2, <1>3, <1>4, <1>5, <1>6 DEF LoopNext

(* The loop's belief about the stream, once it has read its channel, is    *)
(* the truth as long as the last change did not find the channel full      *)
(* (the two callbacks that commandLoop gives to realtime.Client.Run).      *)
THEOREM BeliefFollowsStreamAlways == LoopSpec => []BeliefFollowsStream
<1>1. LoopInit => BeliefFollowsStream
  BY DEF LoopInit, BeliefFollowsStream
<1> QED
  BY <1>1, LoopInitTyped, LoopNextTyped, NextBelief, PTL DEF LoopSpec

-----------------------------------------------------------------------------
(* DevicePolling.                                                          *)


(* The clock is within MaxStepBack of its peak, and neither the checkpoint *)
(* nor the window of a poll that continues from one is ahead of the peak.  *)
Clocks ==
  /\ peak - MaxStepBack <= now
  /\ checkpoint <= peak
  /\ \A q \in Pollers :
       /\ to[q] <= peak
       /\ pc[q] # "idle" /\ ~first[q] => from[q] <= peak - Overlap

(* Before the window of a poll that continues from a checkpoint everything *)
(* is durable, even after another poll has moved the checkpoint.           *)
BeforeWindowIsHeld ==
  \A q \in Pollers :
    pc[q] # "idle" /\ ~first[q] =>
      \A e \in Events :
        Recorded(e) /\ stamp[e] >= horizon /\ stamp[e] < from[q] => e \in held

(* Inside the window of a poll that searches or has searched, up to the    *)
(* overlap, everything is durable, among what the poll has still to        *)
(* persist, or listed where the next pages begin or later.                 *)
StillListed(q, e) == pc[q] = "paging" /\ PositionOf(q, e) >= position[q]

WindowIsKnown(q) ==
  pc[q] \in {"paging", "persist"} =>
    \A e \in Events :
      Recorded(e) /\ stamp[e] >= from[q] /\ stamp[e] < to[q] - Overlap =>
        e \in held \/ e \in found[q] \/ StillListed(q, e)

WindowsAreKnown == \A q \in Pollers : WindowIsKnown(q)

(* Only a search between two pages has a position.                         *)
PositionsBegin == \A q \in Pollers : pc[q] # "paging" => position[q] = 0

(* The inductive invariants. *)
ClockInv == TypeOK /\ Clocks
CoverInv ==
  CheckpointCoversEvidence /\ BeforeWindowIsHeld /\ WindowsAreKnown /\ PositionsBegin

USE TimesAssumption, EventsAssumption, PageSizeAssumption
USE DEF NoCheckpoint, Absent

-----------------------------------------------------------------------------
(* Initially nothing is known and nothing is asked. *)
LEMMA InitClockInv == Init => ClockInv
  BY DEF Init, ClockInv, TypeOK, Clocks

(* How a window begins relative to the checkpoint. *)
LEMMA WindowStartBounds ==
  ASSUME ClockInv, checkpoint # NoCheckpoint
  PROVE  /\ WindowStart(now) \in Int
         /\ WindowStart(now) <= checkpoint - Overlap
         /\ WindowStart(now) <= peak - Overlap
  BY DEF ClockInv, TypeOK, Clocks, WindowStart

(* What is left of the polls that end. *)
LEMMA EndPollTyped ==
  ASSUME TypeOK, NEW Q, EndPoll(Q)
  PROVE  /\ pc' \in [Pollers -> {"idle", "search", "paging", "persist"}]
         /\ from' \in [Pollers -> Int] /\ to' \in [Pollers -> Nat]
         /\ first' \in [Pollers -> BOOLEAN] /\ found' \in [Pollers -> SUBSET Events]
         /\ position' \in [Pollers -> Nat]
         /\ \A q \in Pollers :
              \/ pc'[q] = "idle" /\ to'[q] = 0 /\ position'[q] = 0
              \/ /\ pc'[q] = pc[q] /\ from'[q] = from[q] /\ to'[q] = to[q]
                 /\ first'[q] = first[q] /\ found'[q] = found[q] /\ position'[q] = position[q]
<1>1. pc' \in [Pollers -> {"idle", "search", "paging", "persist"}]
  BY DEF EndPoll, TypeOK
<1>2. from' \in [Pollers -> Int] /\ to' \in [Pollers -> Nat]
  BY DEF EndPoll, TypeOK
<1>3. first' \in [Pollers -> BOOLEAN]
  BY DEF EndPoll, TypeOK
<1>4. found' \in [Pollers -> SUBSET Events]
  BY DEF EndPoll, TypeOK
<1>6. position' \in [Pollers -> Nat]
  BY DEF EndPoll, TypeOK
<1>5. ASSUME NEW q \in Pollers
      PROVE  \/ pc'[q] = "idle" /\ to'[q] = 0 /\ position'[q] = 0
             \/ /\ pc'[q] = pc[q] /\ from'[q] = from[q] /\ to'[q] = to[q]
                /\ first'[q] = first[q] /\ found'[q] = found[q] /\ position'[q] = position[q]
  <2>1. CASE q \in Q
    BY <2>1 DEF EndPoll
  <2>2. CASE q \notin Q
    BY <2>2 DEF EndPoll, TypeOK
  <2> QED
    BY <2>1, <2>2
<1> QED
  BY <1>1, <1>2, <1>3, <1>4, <1>5, <1>6

(* The types and the clocks are kept by every step. *)
LEMMA NextClockInv == ClockInv /\ [Next]_vars => ClockInv'
<1>0. SUFFICES ASSUME ClockInv PROVE [Next]_vars => ClockInv'
  OBVIOUS
<1>1. CASE Tick
  BY <1>0, <1>1 DEF ClockInv, TypeOK, Clocks, Tick, polls
<1>2. CASE StepBack
  BY <1>0, <1>2 DEF ClockInv, TypeOK, Clocks, StepBack, polls
<1>3. CASE Crash
  BY <1>0, <1>3, EndPollTyped DEF ClockInv, TypeOK, Clocks, Crash
<1>4. ASSUME NEW e \in Events, Record(e) PROVE ClockInv'
  BY <1>0, <1>4 DEF ClockInv, TypeOK, Clocks, Record, polls
<1>5. ASSUME NEW q \in Pollers, BeginPoll(q) PROVE ClockInv'
  <2>1. WindowStart(now) \in Int
    BY <1>0 DEF ClockInv, TypeOK, WindowStart
  <2>2. TypeOK'
    BY <1>0, <1>5, <2>1 DEF ClockInv, TypeOK, BeginPoll
  <2>3. checkpoint # NoCheckpoint => WindowStart(now) <= peak - Overlap
    BY <1>0, WindowStartBounds
  <2>4. \A r \in Pollers : to'[r] <= peak /\ (pc'[r] # "idle" /\ ~first'[r] => from'[r] <= peak - Overlap)
    BY <1>0, <1>5, <2>3 DEF ClockInv, TypeOK, Clocks, BeginPoll
  <2>5. Clocks'
    BY <1>0, <1>5, <2>4 DEF ClockInv, Clocks, BeginPoll
  <2> QED
    BY <2>2, <2>5 DEF ClockInv
<1>6. ASSUME NEW q \in Pollers, SearchPage(q) PROVE ClockInv'
  <2>1. PageOf(q) \subseteq Events /\ NextPosition(q) \in Nat
    BY <1>0 DEF ClockInv, TypeOK, PageOf, InWindow, NextPosition
  <2>2. found' \in [Pollers -> SUBSET Events]
    BY <1>0, <1>6, <2>1 DEF ClockInv, TypeOK, SearchPage
  <2>3. position' \in [Pollers -> Nat]
    BY <1>0, <1>6, <2>1 DEF ClockInv, TypeOK, SearchPage
  <2>4. pc' \in [Pollers -> {"idle", "search", "paging", "persist"}]
    BY <1>0, <1>6 DEF ClockInv, TypeOK, SearchPage
  <2>5. TypeOK'
    BY <1>0, <1>6, <2>2, <2>3, <2>4 DEF ClockInv, TypeOK, SearchPage
  <2>6. Clocks'
    BY <1>0, <1>6 DEF ClockInv, TypeOK, Clocks, SearchPage
  <2> QED
    BY <2>5, <2>6 DEF ClockInv
<1>7. ASSUME NEW q \in Pollers, NEW e \in Events, Persist(q, e) PROVE ClockInv'
  BY <1>0, <1>7 DEF ClockInv, TypeOK, Clocks, Persist
<1>8. ASSUME NEW q \in Pollers, SaveCheckpoint(q) PROVE ClockInv'
  BY <1>0, <1>8, EndPollTyped DEF ClockInv, TypeOK, Clocks, SaveCheckpoint
<1>9. ASSUME NEW q \in Pollers, PollFails(q) PROVE ClockInv'
  BY <1>0, <1>9, EndPollTyped DEF ClockInv, TypeOK, Clocks, PollFails
<1>10. CASE UNCHANGED vars
  BY <1>0, <1>10 DEF ClockInv, TypeOK, Clocks, vars, polls
<1> QED
  BY <1>1, <1>2, <1>3, <1>4, <1>5, <1>6, <1>7, <1>8, <1>9, <1>10 DEF Next, PollStep

(* Every variable always has its type (and the clock never passes its      *)
(* peak).                                                                  *)
THEOREM PollingTypeCorrect == Spec => []TypeOK
<1>1. Spec => []ClockInv
  BY InitClockInv, NextClockInv, PTL DEF Spec
<1>2. ClockInv => TypeOK
  BY DEF ClockInv
<1> QED
  BY <1>1, <1>2, PTL

-----------------------------------------------------------------------------
(* Coverage, when the overlap is wide enough. *)

WideOverlap == Lag + MaxStepBack <= Overlap

(* The events of a window are finitely many, and the position of one is    *)
(* below their number.                                                     *)
LEMMA PositionBelowTotal ==
  ASSUME NEW q \in Pollers, NEW e \in InWindow(q), stamp \in [Events -> Int]
  PROVE  /\ PositionOf(q, e) \in Nat /\ Cardinality(InWindow(q)) \in Nat
         /\ PositionOf(q, e) < Cardinality(InWindow(q))
<1> DEFINE Earlier == {f \in InWindow(q) : Before(f, e)}
<1>1. IsFiniteSet(InWindow(q))
  BY FS_Subset DEF InWindow
<1>2. Earlier \subseteq InWindow(q)
  OBVIOUS
<1>3. e \in Events /\ stamp[e] \in Int /\ e \in Nat
  BY DEF InWindow
<1>4. Earlier # InWindow(q)
  BY <1>3 DEF Before
<1>5. /\ IsFiniteSet(Earlier) /\ Cardinality(Earlier) <= Cardinality(InWindow(q))
      /\ Cardinality(Earlier) = Cardinality(InWindow(q)) => Earlier = InWindow(q)
  BY <1>1, <1>2, FS_Subset
<1>6. Cardinality(Earlier) \in Nat /\ Cardinality(InWindow(q)) \in Nat
  BY <1>1, <1>5, FS_CardinalityType
<1>7. PositionOf(q, e) = Cardinality(Earlier)
  BY DEF PositionOf
<1> QED
  BY <1>4, <1>5, <1>6, <1>7

(* A position depends on the log and the window only. *)
LEMMA PositionKept ==
  ASSUME NEW q \in Pollers, NEW e \in Events,
         stamp' = stamp, from'[q] = from[q], to'[q] = to[q]
  PROVE  InWindow(q)' = InWindow(q) /\ PositionOf(q, e)' = PositionOf(q, e)
<1>1. InWindow(q)' = InWindow(q)
  BY DEF InWindow, Recorded
<1>2. {f \in InWindow(q) : Before(f, e)}' = {f \in InWindow(q) : Before(f, e)}
  BY <1>1 DEF Before
<1> QED
  BY <1>1, <1>2 DEF PositionOf

(* An event that is recorded moves others to later positions only. *)
LEMMA PositionGrows ==
  ASSUME NEW q \in Pollers, NEW e \in Events, NEW f \in Events, f # e,
         TypeOK, ~Recorded(e), UNCHANGED <<from, to>>,
         NEW s \in Int, stamp' = [stamp EXCEPT ![e] = s]
  PROVE  PositionOf(q, f) <= PositionOf(q, f)' /\ PositionOf(q, f) \in Nat /\ PositionOf(q, f)' \in Nat
<1> DEFINE Earlier == {g \in InWindow(q) : Before(g, f)}
           Later == {g \in InWindow(q)' : Before(g, f)'}
<1>1. stamp \in [Events -> Int] /\ \A g \in Events : g # e => stamp'[g] = stamp[g]
  BY DEF TypeOK
<1>2. e \notin InWindow(q)
  BY DEF InWindow
<1>3. Earlier \subseteq Later
  BY <1>1, <1>2 DEF InWindow, Before, Recorded
<1>4. IsFiniteSet(Later)
  <2>1. Later \subseteq Events
    BY DEF InWindow
  <2> QED
    BY <2>1, FS_Subset
<1>5. IsFiniteSet(Earlier) /\ Cardinality(Earlier) <= Cardinality(Later)
  BY <1>3, <1>4, FS_Subset
<1>6. PositionOf(q, f) = Cardinality(Earlier) /\ PositionOf(q, f)' = Cardinality(Later)
  BY DEF PositionOf
<1> QED
  BY <1>4, <1>5, <1>6, FS_CardinalityType

(* Initially there is no checkpoint and no window. *)
LEMMA InitCoverInv == Init => CoverInv
  BY DEF Init, CoverInv, CheckpointCoversEvidence, BeforeWindowIsHeld, WindowsAreKnown,
     WindowIsKnown, PositionsBegin

(* What is known of a window stays known as long as its poll goes on.      *)
LEMMA WindowStaysKnown ==
  ASSUME NEW q \in Pollers, WindowIsKnown(q), stamp' = stamp, held \subseteq held',
         pc'[q] = pc[q], from'[q] = from[q], to'[q] = to[q], position'[q] = position[q],
         found[q] \subseteq found'[q] \union held'
  PROVE  WindowIsKnown(q)'
<1>1. SUFFICES ASSUME pc[q] \in {"paging", "persist"}, NEW e \in Events,
                      Recorded(e), stamp[e] >= from[q], stamp[e] < to[q] - Overlap
               PROVE  e \in held' \/ e \in found'[q] \/ StillListed(q, e)'
  BY DEF WindowIsKnown, Recorded
<1>2. e \in held \/ e \in found[q] \/ StillListed(q, e)
  BY <1>1 DEF WindowIsKnown
<1>3. StillListed(q, e) => StillListed(q, e)'
  BY PositionKept DEF StillListed
<1> QED
  BY <1>2, <1>3

(* A poll that ends without a checkpoint leaves everything covered. *)
LEMMA EndPollCovers ==
  ASSUME TypeOK, CoverInv, NEW Q, EndPoll(Q), UNCHANGED <<stamp, held, checkpoint, horizon>>
  PROVE  CoverInv'
<1>1. CheckpointCoversEvidence' /\ BeforeWindowIsHeld'
  BY EndPollTyped DEF CoverInv, CheckpointCoversEvidence, BeforeWindowIsHeld, Recorded
<1>2. ASSUME NEW q \in Pollers PROVE WindowIsKnown(q)'
  <2>1. CASE pc'[q] = "idle"
    BY <2>1 DEF WindowIsKnown
  <2>2. CASE pc'[q] # "idle"
    BY <2>2, EndPollTyped, WindowStaysKnown DEF CoverInv, WindowsAreKnown
  <2> QED
    BY <2>1, <2>2
<1>3. PositionsBegin'
  BY EndPollTyped DEF CoverInv, PositionsBegin
<1> QED
  BY <1>1, <1>2, <1>3 DEF CoverInv, WindowsAreKnown

(* An event is recorded after the end of every window, less the overlap,   *)
(* and the pages still to come list what they listed.                      *)
LEMMA RecordCovers ==
  ASSUME WideOverlap, ClockInv, CoverInv, NEW e \in Events, Record(e)
  PROVE  CoverInv'
<1>1. PICK s \in (now - Lag) .. (now + Ahead) : stamp' = [stamp EXCEPT ![e] = s]
  BY DEF Record
<1>2. s \in Int /\ s >= peak - Overlap
  BY <1>1 DEF ClockInv, TypeOK, Clocks, WideOverlap
<1>3. \A f \in Events : stamp'[f] = IF f = e THEN s ELSE stamp[f]
  BY <1>1 DEF ClockInv, TypeOK
<1>4. UNCHANGED <<held, checkpoint, horizon, pc, from, to, first, found, position>> /\ ~Recorded(e)
  BY DEF Record, polls
<1>5. CheckpointCoversEvidence'
  BY <1>2, <1>3, <1>4 DEF ClockInv, TypeOK, Clocks, CoverInv, CheckpointCoversEvidence, Recorded
<1>6. BeforeWindowIsHeld'
  BY <1>2, <1>3, <1>4 DEF ClockInv, TypeOK, Clocks, CoverInv, BeforeWindowIsHeld, Recorded
<1>7. ASSUME NEW q \in Pollers, pc[q] \in {"paging", "persist"}, NEW f \in Events,
             stamp'[f] # Absent, stamp'[f] >= from[q], stamp'[f] < to[q] - Overlap
      PROVE  f \in held \/ f \in found[q] \/ StillListed(q, f)'
  <2>1. f # e
    BY <1>2, <1>3, <1>7 DEF ClockInv, TypeOK, Clocks
  <2>2. f \in held \/ f \in found[q] \/ StillListed(q, f)
    BY <1>3, <1>7, <2>1 DEF CoverInv, WindowsAreKnown, WindowIsKnown, Recorded
  <2>3. /\ PositionOf(q, f) <= PositionOf(q, f)'
        /\ PositionOf(q, f) \in Nat /\ PositionOf(q, f)' \in Nat
    BY <1>1, <1>2, <1>4, <2>1, PositionGrows DEF ClockInv
  <2>4. position[q] \in Nat
    BY DEF ClockInv, TypeOK
  <2>5. StillListed(q, f) => StillListed(q, f)'
    BY <1>4, <2>3, <2>4 DEF StillListed
  <2> QED
    BY <2>2, <2>5
<1>8. WindowsAreKnown'
  BY <1>4, <1>7 DEF WindowsAreKnown, WindowIsKnown, Recorded
<1>9. PositionsBegin'
  BY <1>4 DEF CoverInv, PositionsBegin
<1> QED
  BY <1>5, <1>6, <1>8, <1>9 DEF CoverInv

(* A new window begins where everything before it is durable. *)
LEMMA BeginPollCovers ==
  ASSUME ClockInv, CoverInv, NEW q \in Pollers, BeginPoll(q)
  PROVE  CoverInv'
<1>1. /\ UNCHANGED <<stamp, held, checkpoint, horizon, found, position>>
      /\ pc'[q] = "search" /\ from'[q] = WindowStart(now)
      /\ first'[q] = (checkpoint = NoCheckpoint)
      /\ \A r \in Pollers \ {q} : pc'[r] = pc[r] /\ from'[r] = from[r] /\ to'[r] = to[r]
                                   /\ first'[r] = first[r]
  BY DEF ClockInv, TypeOK, BeginPoll
<1>2. \A e \in Events : stamp[e] \in Int
  BY DEF ClockInv, TypeOK
<1>3. ~first'[q] => \A e \in Events :
        Recorded(e) /\ stamp[e] >= horizon /\ stamp[e] < from'[q] => e \in held
  <2>1. SUFFICES ASSUME ~first'[q] PROVE \A e \in Events :
        Recorded(e) /\ stamp[e] >= horizon /\ stamp[e] < from'[q] => e \in held
    OBVIOUS
  <2>2. checkpoint # NoCheckpoint
    BY <1>1, <2>1
  <2>3. from'[q] \in Int /\ from'[q] <= checkpoint - Overlap /\ checkpoint \in Int
    BY <1>1, <2>2, WindowStartBounds DEF ClockInv, TypeOK
  <2> QED
    BY <1>2, <2>2, <2>3 DEF CoverInv, CheckpointCoversEvidence
<1>4. CheckpointCoversEvidence'
  BY <1>1 DEF CoverInv, CheckpointCoversEvidence, Recorded
<1>5. BeforeWindowIsHeld'
  BY <1>1, <1>3 DEF CoverInv, BeforeWindowIsHeld, Recorded
<1>6. ASSUME NEW r \in Pollers PROVE WindowIsKnown(r)'
  <2>1. CASE r = q
    BY <1>1, <2>1 DEF WindowIsKnown
  <2>2. CASE r # q
    BY <1>1, <2>2, WindowStaysKnown DEF CoverInv, WindowsAreKnown
  <2> QED
    BY <2>1, <2>2
<1>7. PositionsBegin'
  BY <1>1 DEF CoverInv, PositionsBegin, BeginPoll
<1> QED
  BY <1>4, <1>5, <1>6, <1>7 DEF CoverInv, WindowsAreKnown

(* A page takes what was listed before the next one; the last page takes   *)
(* the rest.                                                               *)
LEMMA SearchPageCovers ==
  ASSUME ClockInv, CoverInv, NEW q \in Pollers, SearchPage(q)
  PROVE  CoverInv'
<1>1. /\ UNCHANGED <<stamp, held, checkpoint, from, to, first, horizon>>
      /\ pc[q] \in {"search", "paging"}
      /\ found'[q] = found[q] \union PageOf(q)
      /\ \A r \in Pollers \ {q} : /\ pc'[r] = pc[r] /\ found'[r] = found[r]
                                   /\ position'[r] = position[r]
  BY DEF ClockInv, TypeOK, SearchPage
<1>2. \/ SearchComplete(q) /\ pc'[q] = "persist" /\ position'[q] = 0
      \/ ~SearchComplete(q) /\ pc'[q] = "paging" /\ position'[q] = NextPosition(q)
  BY DEF ClockInv, TypeOK, SearchPage
<1>3. /\ position[q] \in Nat /\ NextPosition(q) \in Nat /\ stamp \in [Events -> Int]
      /\ to[q] \in Nat /\ from[q] \in Int
  BY DEF ClockInv, TypeOK, NextPosition
<1>4. CheckpointCoversEvidence'
  BY <1>1 DEF CoverInv, CheckpointCoversEvidence, Recorded
<1>5. BeforeWindowIsHeld'
  BY <1>1, <1>2 DEF CoverInv, BeforeWindowIsHeld, Recorded
<1>6. ASSUME NEW e \in Events, Recorded(e), stamp[e] >= from[q], stamp[e] < to[q] - Overlap
      PROVE  e \in held \/ e \in found'[q] \/ StillListed(q, e)'
  <2>0. stamp[e] <= to[q]
    <3>1. stamp[e] \in Int /\ to[q] \in Nat /\ Overlap \in Nat
      BY <1>3 DEF TimesAssumption
    <3>2. stamp[e] < to[q] - Overlap
      BY <1>6
    <3> QED
      BY <3>1, <3>2
  <2>1. e \in InWindow(q)
    BY <1>6, <2>0 DEF InWindow
  <2>2. /\ PositionOf(q, e) \in Nat /\ Cardinality(InWindow(q)) \in Nat
        /\ PositionOf(q, e) < Cardinality(InWindow(q))
    BY <1>3, <2>1, PositionBelowTotal
  <2>3. e \in held \/ e \in found[q] \/ PositionOf(q, e) >= position[q]
    <3>1. CASE pc[q] = "paging"
      BY <1>6, <3>1 DEF CoverInv, WindowsAreKnown, WindowIsKnown, StillListed
    <3>2. CASE pc[q] = "search"
      BY <1>3, <2>2, <3>2 DEF CoverInv, PositionsBegin
    <3> QED
      BY <1>1, <3>1, <3>2
  <2>4. PositionOf(q, e) >= position[q] => e \in PageOf(q) \/ PositionOf(q, e) >= NextPosition(q)
    BY <1>3, <2>1, <2>2 DEF PageOf
  <2>5. SearchComplete(q) => PositionOf(q, e) < NextPosition(q)
    BY <1>3, <2>2 DEF SearchComplete
  <2>6. ~SearchComplete(q) /\ PositionOf(q, e) >= NextPosition(q) => StillListed(q, e)'
    BY <1>1, <1>2, PositionKept DEF StillListed
  <2> QED
    BY <1>1, <1>3, <2>2, <2>3, <2>4, <2>5, <2>6
<1>7. WindowIsKnown(q)'
  BY <1>1, <1>6 DEF WindowIsKnown, Recorded
<1>8. ASSUME NEW r \in Pollers, r # q PROVE WindowIsKnown(r)'
  BY <1>1, <1>8, WindowStaysKnown DEF CoverInv, WindowsAreKnown
<1>9. PositionsBegin'
  BY <1>1, <1>2 DEF CoverInv, PositionsBegin
<1> QED
  BY <1>4, <1>5, <1>7, <1>8, <1>9 DEF CoverInv, WindowsAreKnown

(* The checkpoint moves to the end of a window that is durable. *)
LEMMA SaveCheckpointCovers ==
  ASSUME ClockInv, CoverInv, NEW q \in Pollers, SaveCheckpoint(q)
  PROVE  CoverInv'
<1>1. EndPoll({q}) /\ found[q] = {} /\ pc[q] = "persist"
  BY DEF SaveCheckpoint, ReadyToSave
<1>2. checkpoint' = to[q] /\ UNCHANGED <<stamp, held>>
  BY DEF SaveCheckpoint
<1>3. horizon' \in Int /\ horizon' >= horizon /\ (first[q] => horizon' >= from[q])
  BY DEF SaveCheckpoint, ClockInv, TypeOK
<1>4. \A e \in Events :
        Recorded(e) /\ stamp[e] >= from[q] /\ stamp[e] < to[q] - Overlap => e \in held
  BY <1>1 DEF CoverInv, WindowsAreKnown, WindowIsKnown, StillListed
<1>5. CheckpointCoversEvidence'
  BY <1>1, <1>2, <1>3, <1>4
     DEF ClockInv, TypeOK, CoverInv, CheckpointCoversEvidence, BeforeWindowIsHeld, Recorded
<1>6. BeforeWindowIsHeld'
  BY <1>1, <1>2, <1>3, EndPollTyped DEF ClockInv, TypeOK, CoverInv, BeforeWindowIsHeld, Recorded
<1>7. ASSUME NEW r \in Pollers PROVE WindowIsKnown(r)'
  <2>1. CASE pc'[r] = "idle"
    BY <2>1 DEF WindowIsKnown
  <2>2. CASE pc'[r] # "idle"
    BY <1>1, <1>2, <2>2, EndPollTyped, WindowStaysKnown DEF ClockInv, CoverInv, WindowsAreKnown
  <2> QED
    BY <2>1, <2>2
<1>8. PositionsBegin'
  BY <1>1, EndPollTyped DEF ClockInv, CoverInv, PositionsBegin
<1> QED
  BY <1>5, <1>6, <1>7, <1>8 DEF CoverInv, WindowsAreKnown

(* A step that leaves the polls alone and makes more durable. *)
LEMMA QuietStepCovers ==
  ASSUME CoverInv, UNCHANGED <<stamp, checkpoint, pc, from, to, first, position, horizon>>,
         held \subseteq held', \A q \in Pollers : found[q] \subseteq found'[q] \union held'
  PROVE  CoverInv'
<1>1. CheckpointCoversEvidence' /\ BeforeWindowIsHeld' /\ PositionsBegin'
  BY DEF CoverInv, CheckpointCoversEvidence, BeforeWindowIsHeld, PositionsBegin, Recorded
<1>2. ASSUME NEW q \in Pollers PROVE WindowIsKnown(q)'
  BY WindowStaysKnown DEF CoverInv, WindowsAreKnown
<1> QED
  BY <1>1, <1>2 DEF CoverInv, WindowsAreKnown

(* Coverage is kept by every step. *)
LEMMA NextCoverInv == WideOverlap /\ ClockInv /\ CoverInv /\ [Next]_vars => CoverInv'
<1>0. SUFFICES ASSUME WideOverlap, ClockInv, CoverInv PROVE [Next]_vars => CoverInv'
  OBVIOUS
<1>1. CASE Tick
  BY <1>0, <1>1, QuietStepCovers DEF Tick, polls
<1>2. CASE StepBack
  BY <1>0, <1>2, QuietStepCovers DEF StepBack, polls
<1>3. CASE Crash
  BY <1>0, <1>3, EndPollCovers DEF Crash, ClockInv
<1>4. ASSUME NEW e \in Events, Record(e) PROVE CoverInv'
  BY <1>0, <1>4, RecordCovers
<1>5. ASSUME NEW q \in Pollers, BeginPoll(q) PROVE CoverInv'
  BY <1>0, <1>5, BeginPollCovers
<1>6. ASSUME NEW q \in Pollers, SearchPage(q) PROVE CoverInv'
  BY <1>0, <1>6, SearchPageCovers
<1>7. ASSUME NEW q \in Pollers, NEW e \in Events, Persist(q, e) PROVE CoverInv'
  <2>1. held' = held \union {e} /\ \A r \in Pollers : found[r] \subseteq found'[r] \union held'
    BY <1>0, <1>7 DEF ClockInv, TypeOK, Persist
  <2> QED
    BY <1>0, <1>7, <2>1, QuietStepCovers DEF Persist
<1>8. ASSUME NEW q \in Pollers, SaveCheckpoint(q) PROVE CoverInv'
  BY <1>0, <1>8, SaveCheckpointCovers
<1>9. ASSUME NEW q \in Pollers, PollFails(q) PROVE CoverInv'
  BY <1>0, <1>9, EndPollCovers DEF PollFails, ClockInv
<1>10. CASE UNCHANGED vars
  BY <1>0, <1>10, QuietStepCovers DEF vars, polls
<1> QED
  BY <1>1, <1>2, <1>3, <1>4, <1>5, <1>6, <1>7, <1>8, <1>9, <1>10 DEF Next, PollStep

(* The checkpoint never moves past evidence that is not durable, for any   *)
(* number of pollers that share it without a lock, as long as the overlap  *)
(* is at least the terminal's lag plus the furthest step back of the       *)
(* bridge's clock (pollOnce, SetCheckpoint).                               *)
THEOREM CheckpointCoversEvidenceAlways ==
  ASSUME Lag + MaxStepBack <= Overlap PROVE Spec => []CheckpointCoversEvidence
<1>1. Spec => []ClockInv
  BY InitClockInv, NextClockInv, PTL DEF Spec
<1>2. ClockInv /\ CoverInv /\ [Next]_vars => CoverInv'
  BY NextCoverInv DEF WideOverlap
<1>3. Spec => []CoverInv
  BY <1>1, <1>2, InitCoverInv, PTL DEF Spec
<1>4. CoverInv => CheckpointCoversEvidence
  BY DEF CoverInv
<1> QED
  BY <1>3, <1>4, PTL
=============================================================================
