-------------------------- MODULE EvidenceDelivery --------------------------
(***************************************************************************)
(* What the bridge promises about attendance evidence, with no files, no   *)
(* processes and no network: an event becomes held when the bridge stores  *)
(* it, the cloud may receive any of the held events, and the bridge may    *)
(* let go of an event only once the cloud has it.  (docs/ARCHITECTURE.md,  *)
(* "Reliability invariants", 1 to 3, as the code in internal/store and     *)
(* internal/bridge carries them out.)                                      *)
(***************************************************************************)
CONSTANT Events         \* the identities (deterministic ids) of device events

VARIABLES
  held,                 \* events with a copy of their evidence on the bridge
  delivered             \* events with a raw document in the cloud

vars == <<held, delivered>>

Init ==
  /\ held = {}
  /\ delivered = {}

(* The bridge makes the evidence of events durable. *)
Hold(S) ==
  /\ held' = held \union S
  /\ UNCHANGED delivered

(* The cloud creates raw documents, only for evidence the bridge holds. *)
Deliver(S) ==
  /\ S \subseteq held
  /\ delivered' = delivered \union S
  /\ UNCHANGED held

(* The bridge drops its copies, only of delivered events. *)
LetGo(S) ==
  /\ S \subseteq delivered
  /\ held' = held \ S
  /\ UNCHANGED delivered

Next == \E S \in SUBSET Events : Hold(S) \/ Deliver(S) \/ LetGo(S)

Spec == Init /\ [][Next]_vars
=============================================================================
