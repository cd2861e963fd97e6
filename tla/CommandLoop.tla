---------------------------- MODULE CommandLoop ----------------------------
(***************************************************************************)
(* When the bridge asks the cloud for commands: commandLoop of             *)
(* internal/bridge/runner.go, woken by the stream that internal/realtime   *)
(* keeps open to the control node of its device, which the administrators' *)
(* functions overwrite after they queue a command (realtime/signals.ts).   *)
(*                                                                         *)
(* The stream's goroutine calls back into two channels with non-blocking   *)
(* sends: commandWake, of capacity one, and states, of capacity two, which *)
(* the loop does not read while an exchange is running (an exchange takes  *)
(* minutes when it captures a fingerprint).  In its select the loop takes  *)
(* whichever is ready, in no order.  The timer stands for all delays: once *)
(* armed it may fire at any moment.                                        *)
(*                                                                         *)
(* What one exchange does is CommandExchange's subject; here it reports    *)
(* the results the bridge holds and brings at most one command.            *)
(*                                                                         *)
(* The names that every specification has carry Loop here, so that the     *)
(* proofs about both loops of the bridge can share a module.               *)
(***************************************************************************)
EXTENDS Naturals, Sequences

CONSTANTS
  Commands,
  StatesCapacity,   \* capacity of the states channel (two)
  SignalsFail,      \* TRUE when the three attempts to signal may all fail
  MaxFlaps,         \* bound on disconnections of the stream
  MaxFaults         \* bound on failed exchanges and crashes

ASSUME LoopAssumption ==
  /\ StatesCapacity \in Nat \ {0} /\ SignalsFail \in BOOLEAN
  /\ MaxFlaps \in Nat /\ MaxFaults \in Nat

VARIABLES
  \* the cloud
  command,          \* "none", "queued", "leased" to the bridge, "done"
  unsignalled,      \* commands whose function has not come to its signal yet
  \* the stream and the channels
  streamUp,
  put,              \* an event of the control node is on its way
  states,           \* the channel of connection states
  wake,             \* commandWake holds a token
  missed,           \* the last change of the stream found states full
  \* commandLoop
  connected, startupReconciled,
  timer,            \* timerC is armed
  exchange,         \* "none", "sent" or "served"
  reporting,        \* the results the exchange carries
  brought,          \* the commands it brought, at most one
  receipts,         \* results the bridge holds
  \* bounds
  flaps, faults

channels == <<streamUp, put, states, wake, missed>>
loop == <<connected, startupReconciled, timer, exchange, reporting, brought, receipts>>
loopVars == <<command, unsignalled, channels, loop, flaps, faults>>

LoopInit ==
  /\ command = [c \in Commands |-> "none"] /\ unsignalled = {}
  /\ streamUp = FALSE /\ put = FALSE /\ states = <<>> /\ wake = FALSE /\ missed = FALSE
  /\ connected = FALSE /\ startupReconciled = FALSE /\ timer = TRUE
  /\ exchange = "none" /\ reporting = {} /\ brought = {} /\ receipts = {}
  /\ flaps = 0 /\ faults = 0

Fault ==
  /\ faults < MaxFaults
  /\ faults' = faults + 1

-----------------------------------------------------------------------------
(* The cloud. *)

(* createEmployee and requestFingerprintEnrollment: the transaction. *)
Queue(c) ==
  /\ command[c] = "none"
  /\ command' = [command EXCEPT ![c] = "queued"]
  /\ unsignalled' = unsignalled \union {c}
  /\ UNCHANGED <<channels, loop, flaps, faults>>

(* signalDeviceCommand, in the same call; an open stream is sent the node. *)
Signal(c) ==
  /\ c \in unsignalled
  /\ unsignalled' = unsignalled \ {c}
  /\ put' = (put \/ streamUp)
  /\ UNCHANGED <<command, streamUp, states, wake, missed, loop, flaps, faults>>

SignalFails(c) ==
  /\ SignalsFail /\ c \in unsignalled
  /\ unsignalled' = unsignalled \ {c}
  /\ UNCHANGED <<command, channels, loop, flaps, faults>>

(* A command whose lease has run out can be delivered again. *)
LeaseExpires(c) ==
  /\ command[c] = "leased"
  /\ command' = [command EXCEPT ![c] = "queued"]
  /\ UNCHANGED <<unsignalled, channels, loop, flaps, faults>>

-----------------------------------------------------------------------------
(* The stream. *)

(* onState: the send is given up when the channel is full. *)
Notify(up) ==
  IF Len(states) < StatesCapacity
    THEN states' = Append(states, up) /\ missed' = FALSE
    ELSE missed' = TRUE /\ UNCHANGED states

(* The stream opens, and the database sends the node at once. *)
Connect ==
  /\ ~streamUp /\ streamUp' = TRUE
  /\ Notify(TRUE)
  /\ put' = TRUE
  /\ UNCHANGED <<command, unsignalled, wake, loop, flaps, faults>>

Disconnect ==
  /\ streamUp /\ streamUp' = FALSE
  /\ flaps < MaxFlaps /\ flaps' = flaps + 1
  /\ Notify(FALSE)
  /\ put' = FALSE
  /\ UNCHANGED <<command, unsignalled, wake, loop, faults>>

(* onSignal: a token that is there already will do. *)
ReceivePut ==
  /\ put /\ put' = FALSE
  /\ wake' = TRUE
  /\ UNCHANGED <<command, unsignalled, streamUp, states, missed, loop, flaps, faults>>

-----------------------------------------------------------------------------
(* commandLoop. *)

Selecting == exchange = "none"

(* Mutant: only the opening of the stream is looked at. *)
TakeOpened ==
  /\ Selecting /\ states # <<>>
  /\ connected' = (connected \/ Head(states))
  /\ states' = Tail(states)
  /\ timer' = ((timer /\ ~startupReconciled) \/ ~Head(states))
  /\ UNCHANGED <<command, unsignalled, streamUp, put, wake, missed, startupReconciled,
                 exchange, reporting, brought, receipts, flaps, faults>>

(* Mutant: the fallback is left to the next exchange. *)
TakeWithoutFallback ==
  /\ Selecting /\ states # <<>>
  /\ connected' = Head(states)
  /\ states' = Tail(states)
  /\ timer' = (timer /\ ~(Head(states) /\ startupReconciled))
  /\ UNCHANGED <<command, unsignalled, streamUp, put, wake, missed, startupReconciled,
                 exchange, reporting, brought, receipts, flaps, faults>>

(* A state arrives: open stops the timer, unless nothing has been asked    *)
(* since the start; closed arms it.                                        *)
TakeState ==
  /\ Selecting /\ states # <<>>
  /\ connected' = Head(states)
  /\ states' = Tail(states)
  /\ timer' = IF Head(states) THEN timer /\ ~startupReconciled ELSE TRUE
  /\ UNCHANGED <<command, unsignalled, streamUp, put, wake, missed, startupReconciled,
                 exchange, reporting, brought, receipts, flaps, faults>>

TakeWake ==
  /\ Selecting /\ wake
  /\ wake' = FALSE /\ timer' = TRUE
  /\ UNCHANGED <<command, unsignalled, streamUp, put, states, missed, connected,
                 startupReconciled, exchange, reporting, brought, receipts, flaps, faults>>

(* exchangeCommandsOnce begins. *)
TimerFires ==
  /\ Selecting /\ timer
  /\ timer' = FALSE /\ startupReconciled' = TRUE
  /\ exchange' = "sent" /\ reporting' = receipts
  /\ UNCHANGED <<command, unsignalled, channels, connected, brought, receipts, flaps, faults>>

(* The cloud takes the results and leases a command, if one is queued. *)
Serve ==
  LET settled == [c \in Commands |-> IF c \in reporting THEN "done" ELSE command[c]]
      queued  == {c \in Commands : settled[c] = "queued"}
  IN
  /\ exchange = "sent" /\ exchange' = "served"
  /\ \/ /\ queued = {} /\ command' = settled
        /\ brought' = {}
     \/ \E c \in queued :
          /\ command' = [settled EXCEPT ![c] = "leased"]
          /\ brought' = {c}
  /\ UNCHANGED <<unsignalled, channels, connected, startupReconciled, timer, reporting,
                 receipts, flaps, faults>>

(* The commands without a receipt are executed, and leave one. *)
Processed == brought \ (receipts \ reporting)

EndExchange == exchange' = "none" /\ reporting' = {} /\ brought' = {}

(* Mutant: the fallback is not armed again. *)
ReturnWithoutFallback ==
  /\ exchange = "served"
  /\ receipts' = (receipts \ reporting) \union brought
  /\ timer' = (Processed # {})
  /\ EndExchange
  /\ UNCHANGED <<command, unsignalled, channels, connected, startupReconciled, flaps, faults>>

(* It ends well: at once another one if a command was executed, after the  *)
(* fallback delay if the stream is thought closed, none otherwise.         *)
ExchangeReturns ==
  /\ exchange = "served"
  /\ receipts' = (receipts \ reporting) \union brought
  /\ timer' = (Processed # {} \/ ~connected)
  /\ EndExchange
  /\ UNCHANGED <<command, unsignalled, channels, connected, startupReconciled, flaps, faults>>

(* It fails, before the cloud served it or after, and is tried again: the  *)
(* answer is lost, or the final receipt could not be written.              *)
ExchangeFails ==
  /\ exchange # "none" /\ Fault
  /\ \/ UNCHANGED receipts
     \/ exchange = "served" /\ receipts' = (receipts \ reporting) \union brought
  /\ timer' = TRUE
  /\ EndExchange
  /\ UNCHANGED <<command, unsignalled, channels, connected, startupReconciled, flaps>>

(* The process dies and is started again; its receipts are files. *)
BridgeRestarts ==
  /\ Fault
  /\ streamUp' = FALSE /\ put' = FALSE /\ states' = <<>> /\ wake' = FALSE /\ missed' = FALSE
  /\ connected' = FALSE /\ startupReconciled' = FALSE /\ timer' = TRUE
  /\ EndExchange
  /\ \/ UNCHANGED receipts
     \/ exchange = "served" /\ receipts' = (receipts \ reporting) \union brought
  /\ UNCHANGED <<command, unsignalled, flaps>>

LoopNext ==
  \/ \E c \in Commands : Queue(c) \/ Signal(c) \/ SignalFails(c) \/ LeaseExpires(c)
  \/ Connect \/ Disconnect \/ ReceivePut
  \/ TakeState \/ TakeWake \/ TimerFires \/ Serve \/ ExchangeReturns
  \/ ExchangeFails \/ BridgeRestarts

LoopSpec == LoopInit /\ [][LoopNext]_loopVars

(* A goroutine goes on; the select of Go is fair among what stays ready; a *)
(* request is served or fails; a lease runs out.  Nothing is assumed of    *)
(* the network, and so of Connect.                                         *)
FairLoopSpec ==
  /\ LoopSpec
  /\ WF_loopVars(TakeState) /\ WF_loopVars(TakeWake) /\ SF_loopVars(TimerFires)
  /\ WF_loopVars(Serve) /\ WF_loopVars(ExchangeReturns) /\ WF_loopVars(ReceivePut)
  /\ \A c \in Commands : WF_loopVars(LeaseExpires(c)) /\ WF_loopVars(Signal(c))

-----------------------------------------------------------------------------
LoopTypeOK ==
  /\ command \in [Commands -> {"none", "queued", "leased", "done"}]
  /\ unsignalled \subseteq Commands
  /\ streamUp \in BOOLEAN /\ put \in BOOLEAN /\ wake \in BOOLEAN /\ missed \in BOOLEAN
  /\ states \in Seq(BOOLEAN) /\ Len(states) <= StatesCapacity
  /\ connected \in BOOLEAN /\ startupReconciled \in BOOLEAN /\ timer \in BOOLEAN
  /\ exchange \in {"none", "sent", "served"}
  /\ reporting \subseteq Commands /\ brought \subseteq Commands /\ receipts \subseteq Commands
  /\ flaps \in Nat /\ faults \in Nat

(* A loop that takes the stream for closed, or has not asked the cloud     *)
(* anything since it was started, is never left without a timer.           *)
OfflineIsPolling == Selecting /\ (~connected \/ ~startupReconciled) => timer

(* What the loop believes of the stream, or will once it has read the      *)
(* channel, is so, unless the last change found the channel full.          *)
BeliefFollowsStream ==
  ~missed => streamUp = (IF states = <<>> THEN connected ELSE states[Len(states)])

(* While the stream is taken for closed, the fallback polls collect every  *)
(* command and report its result, signalled or not, through any failures.  *)
FallbackCollects ==
  (<>[]~connected) => \A c \in Commands : (command[c] = "queued") ~> (command[c] = "done")

(* Every command is collected and its result reported, connected or not    *)
(* (docs/REALTIME_COMMAND_DELIVERY.md: "reconnect reconciliation and       *)
(* bounded fallback polling recover every durable Firestore command if a   *)
(* signal is missed").  The code does not do so: a wake-up that the loop   *)
(* takes before the state of the connection that brought it is cancelled   *)
(* with the timer.                                                         *)
CommandsAreCollected ==
  \A c \in Commands : (command[c] = "queued") ~> (command[c] = "done")
=============================================================================
