----------------------- MODULE CommandExchangeProofs -----------------------
(***************************************************************************)
(* Proofs about CommandExchange, for any commands, employees, requests in  *)
(* service, limits and faults.                                             *)
(*                                                                         *)
(* Types first, then one lemma for each variable saying which steps change *)
(* it and to what.  Two properties hold however many requests are served   *)
(* at once:                                                                *)
(*  - SuccessIsTrue, since a success in a receipt, in a result on its way  *)
(*    or in hand is one the terminal accepted (SuccessInv);                *)
(*  - EnrollmentTellsFate, since a document that speaks of a fingerprint   *)
(*    is overwritten by its own command or a newer enrollment only         *)
(*    (FateInv), and nobody holds a command that was never queued          *)
(*    (AskedInv).                                                          *)
(* The others need NoStaleCandidates, which the delivery transaction does  *)
(* not see to itself and which holds when requests do not overlap:         *)
(*  - FinalStays and LiveEnrollmentHoldsLock, inductive by themselves;     *)
(*  - AtMostOneExecution and ExecutedIsReported, which lean on each other  *)
(*    (ExecInv): a receipt goes only when the cloud has the end of its     *)
(*    command, and a command that the cloud delivers has not ended there,  *)
(*    so that its receipt, if it was executed, is still at the bridge.     *)
(***************************************************************************)
EXTENDS CommandExchange, FiniteSetTheorems, WellFoundedInduction, TLAPS

(* The set of types of one request and of one enrollment document. *)
Request == [phase : {"free", "sent", "results", "query", "deliver", "replied"},
            results : SUBSET (Commands \X Outcomes), at : Nat,
            candidates : SUBSET Commands, command : Commands \union {None}]
Enrollment == [state : {"none", "user_pending", "queued", "capturing", "user_synced",
                        "enrolled", "failed"},
               command : Commands \union {None}, print : BOOLEAN]

CloudTypes ==
  /\ now \in Nat
  /\ state \in [Commands -> {"none", "removed"} \union Live \union Outcomes]
  /\ expiresAt \in [Commands -> Nat] /\ leaseUntil \in [Commands -> Nat]
  /\ lock \in Enrolls \union {None}
  /\ enrollment \in [Employees -> Enrollment]
HandlerTypes == handler \in [Handlers -> Request]
BridgeTypes ==
  /\ receipt \in [Commands -> {"none", "interrupted"} \union Outcomes]
  /\ cached \subseteq Employees
  /\ pc \in {"idle", "waiting", "received", "prepare", "upsert", "capture", "assign", "finish"}
  /\ awaiting \subseteq Handlers
  /\ cur \in Commands \union {None}
  /\ usedCache \in BOOLEAN /\ outcome \in Outcomes
DeviceTypes ==
  /\ onDevice \subseteq Employees /\ assigned \subseteq Enrolls
  /\ executions \in [Commands -> Nat]
  /\ faults \in Nat

(* Past the answer there is a command in hand; only a fingerprint command  *)
(* captures one.                                                           *)
AtWork == pc \in {"received", "prepare", "upsert", "capture", "assign", "finish"}
InHand ==
  /\ AtWork => cur \in Commands
  /\ pc \in {"capture", "assign"} => cur \in Enrolls

TypeInv == CloudTypes /\ HandlerTypes /\ BridgeTypes /\ DeviceTypes /\ InHand

USE CommandsAssumption, TimesAssumption
USE DEF None, Outcomes, Live

LEMMA TypeParts == CloudTypes /\ HandlerTypes /\ BridgeTypes /\ DeviceTypes <=> TypeOK
  BY DEF CloudTypes, HandlerTypes, BridgeTypes, DeviceTypes, TypeOK, Request, Enrollment

LEMMA CommandSets ==
  /\ Upserts \subseteq Commands /\ Enrolls \subseteq Commands /\ Commands \subseteq Nat
  /\ None \notin Commands /\ IsFiniteSet(Commands)
  /\ \A c \in Commands : EmployeeOf[c] \in Employees
  BY FS_Union DEF Commands, Employees

LEMMA InitTypes == Init => TypeInv
<1>1. Init => CloudTypes
  BY CommandSets DEF Init, CloudTypes, Enrollment, NoEnrollment
<1>2. Init => HandlerTypes
  BY CommandSets DEF Init, HandlerTypes, Request, NoRequest
<1>3. Init => BridgeTypes
  BY CommandSets DEF Init, BridgeTypes
<1>4. Init => DeviceTypes
  BY CommandSets DEF Init, DeviceTypes
<1>5. Init => InHand
  BY DEF Init, InHand, AtWork
<1> QED
  BY <1>1, <1>2, <1>3, <1>4, <1>5 DEF TypeInv

-----------------------------------------------------------------------------
(* Finite sets of naturals have a greatest element, *)

LEMMA GreatestExists ==
  ASSUME NEW S, IsFiniteSet(S), S \subseteq Nat, S # {}
  PROVE  \E x \in S : \A y \in S : y <= x
<1> DEFINE Unbounded == {U \in SUBSET S : U # {} /\ ~(\E x \in U : \A y \in U : y <= x)}
<1>1. SUFFICES ASSUME Unbounded # {} PROVE FALSE
  OBVIOUS
<1>2. PICK U \in Unbounded : \A V \in Unbounded : ~(<<V, U>> \in StrictSubsetOrdering(S))
  <2>1. IsWellFoundedOn(StrictSubsetOrdering(S), FiniteSubsetsOf(S))
    BY FS_StrictSubsetOrderingWellFounded
  <2>2. Unbounded \subseteq FiniteSubsetsOf(S)
    BY FS_Subset DEF FiniteSubsetsOf
  <2> QED BY <1>1, <2>1, <2>2, WFMin
<1>3. PICK x \in U : TRUE
  BY <1>2
<1>4. U \ {x} \notin Unbounded
  BY <1>2, <1>3 DEF StrictSubsetOrdering
<1>5. CASE U \ {x} = {}
  BY <1>2, <1>3, <1>5
<1>6. CASE U \ {x} # {}
  <2>1. PICK z \in U \ {x} : \A y \in U \ {x} : y <= z
    BY <1>2, <1>4, <1>6
  <2>2. x \in Nat /\ z \in Nat /\ \A y \in U : y \in Nat
    BY <1>2, <2>1
  <2>3. CASE x <= z
    BY <1>2, <2>1, <2>2, <2>3
  <2>4. CASE z <= x
    <3>1. \A y \in U : y <= x
      BY <2>1, <2>2, <2>4
    <3> QED BY <1>2, <3>1
  <2> QED BY <2>2, <2>3, <2>4
<1> QED BY <1>5, <1>6

(* so a document that several commands of a transaction write keeps what   *)
(* one of them says.                                                       *)
LEMMA LastWriteStays ==
  ASSUME CloudTypes, NEW D, D \subseteq Commands, NEW news, DOMAIN news = D,
         WriteEnrollments(news), NEW m \in Employees
  PROVE  \/ /\ \A c \in D : EmployeeOf[c] # m
            /\ enrollment'[m] = enrollment[m]
         \/ \E c \in D : EmployeeOf[c] = m /\ enrollment'[m] = Written(m, c, news[c])
<1> DEFINE mine == {c \in DOMAIN news : EmployeeOf[c] = m}
           last == CHOOSE x \in mine : \A y \in mine : y <= x
<1>1. enrollment'[m] = IF mine = {} THEN enrollment[m] ELSE Written(m, last, news[last])
  BY DEF WriteEnrollments, LastWrite
<1>2. CASE mine = {}
  BY <1>1, <1>2
<1>3. CASE mine # {}
  <2>1. \E x \in mine : \A y \in mine : y <= x
    <3>1. IsFiniteSet(mine) /\ mine \subseteq Nat
      BY CommandSets, FS_Subset
    <3> HIDE DEF mine
    <3> QED BY <1>3, <3>1, GreatestExists
  <2>2. last \in mine
    <3> HIDE DEF mine
    <3> QED BY <2>1
  <2>3. enrollment'[m] = Written(m, last, news[last])
    BY <1>1, <1>3
  <2> HIDE DEF last
  <2> QED BY <2>2, <2>3
<1> QED BY <1>2, <1>3

LEMMA WritesTyped ==
  ASSUME CloudTypes, NEW D, D \subseteq Commands, NEW news, DOMAIN news = D,
         \A c \in D : news[c] \in {"none", "user_pending", "queued", "capturing",
                                   "user_synced", "enrolled", "failed"},
         WriteEnrollments(news)
  PROVE  enrollment' \in [Employees -> Enrollment]
<1>1. ASSUME NEW m \in Employees PROVE enrollment'[m] \in Enrollment
  <2>1. enrollment[m] \in Enrollment
    BY DEF CloudTypes
  <2>2. ASSUME NEW c \in D PROVE Written(m, c, news[c]) \in Enrollment
    BY <2>1, <2>2 DEF Enrollment, Written
  <2> QED BY <2>1, <2>2, LastWriteStays
<1> QED BY <1>1 DEF WriteEnrollments

-----------------------------------------------------------------------------
(* Every step keeps the types.                                             *)

LEMMA CloudSteps ==
  ASSUME TypeInv, NEW h \in Handlers, Serve(h)
  PROVE  CloudTypes' /\ HandlerTypes'
<1> USE DEF TypeInv
<1>0. handler[h] \in Request
  BY DEF HandlerTypes
<1>1. CASE RequestArrives(h)
  BY <1>0, <1>1 DEF RequestArrives, CloudTypes, HandlerTypes, Request, cloud
<1>2. CASE ApplyResults(h)
  <2> DEFINE known == {c \in Reported(h) : state[c] # "removed"}
             fresh == {c \in known : Unfinished(c)}
  <2>1. Reported(h) \subseteq Commands /\ \A c \in Reported(h) : ReportOf(h, c) \in Outcomes
    BY <1>0 DEF Reported, ReportOf, Request
  <2>2. state' \in [Commands -> {"none", "removed"} \union Live \union Outcomes]
    BY <1>2, <2>1 DEF ApplyResults, CloudTypes
  <2>3. enrollment' \in [Employees -> Enrollment]
    <3> DEFINE D == {d \in fresh : ~PreservesEnrollment(d)}
               news == [c \in D |-> EnrollmentAfter(c, ReportOf(h, c))]
    <3>1. WriteEnrollments(news)
      BY <1>2 DEF ApplyResults
    <3>2. D \subseteq Commands
      BY <2>1
    <3>3. DOMAIN news = D /\ \A c \in D : news[c] \in {"none", "user_pending", "queued", "capturing",
                                                     "user_synced", "enrolled", "failed"}
      BY DEF EnrollmentAfter
    <3> HIDE DEF D, news
    <3> QED BY <3>1, <3>2, <3>3, WritesTyped
  <2>4. CloudTypes'
    BY <1>2, <2>2, <2>3 DEF ApplyResults, CloudTypes
  <2>5. HandlerTypes'
    BY <1>0, <1>2 DEF ApplyResults, HandlerTypes, Request
  <2> QED BY <2>4, <2>5
<1>3. CASE QueryCandidates(h)
  <2>1. First({c \in Commands : state[c] \in Live}, CandidateLimit) \in SUBSET Commands
    BY DEF First
  <2> QED
    BY <1>0, <1>3, <2>1 DEF QueryCandidates, CloudTypes, HandlerTypes, Request, cloud
<1>4. CASE Deliver(h)
  <2> DEFINE expired == Expired(h)
             chosen == First(Deliverable(h), 1)
  <2>1. expired \subseteq Commands /\ chosen \subseteq Commands
    BY <1>0 DEF Expired, Deliverable, Candidates, First, Request
  <2>2. state' \in [Commands -> {"none", "removed"} \union Live \union Outcomes]
    BY <1>4 DEF Deliver, CloudTypes
  <2>3. leaseUntil' \in [Commands -> Nat]
    BY <1>0, <1>4 DEF Deliver, CloudTypes, Request
  <2>4. enrollment' \in [Employees -> Enrollment]
    <3> DEFINE D == {d \in expired : enrollment[EmployeeOf[d]].command = d}
                      \union (chosen \intersect Enrolls)
               news == [c \in D |-> IF c \in expired THEN "failed" ELSE "capturing"]
    <3>1. WriteEnrollments(news)
      BY <1>4 DEF Deliver
    <3>2. D \subseteq Commands
      BY <2>1
    <3>3. DOMAIN news = D /\ \A c \in D : news[c] \in {"none", "user_pending", "queued", "capturing",
                                                     "user_synced", "enrolled", "failed"}
      OBVIOUS
    <3> HIDE DEF D, news
    <3> QED BY <3>1, <3>2, <3>3, WritesTyped
  <2>5. CloudTypes'
    BY <1>4, <2>2, <2>3, <2>4 DEF Deliver, CloudTypes
  <2>6. (IF chosen = {} THEN None ELSE CHOOSE c \in chosen : TRUE) \in Commands \union {None}
    BY <2>1
  <2>7. HandlerTypes'
    <3> HIDE DEF chosen
    <3>1. handler' = [handler EXCEPT ![h].phase = "replied", ![h].candidates = {},
                        ![h].command = IF chosen = {} THEN None ELSE CHOOSE c \in chosen : TRUE]
      BY <1>4 DEF Deliver, chosen
    <3> QED BY <1>0, <2>6, <3>1 DEF HandlerTypes, Request
  <2> QED BY <2>5, <2>7
<1>5. CASE RequestEnds(h)
  BY <1>5, CommandSets DEF RequestEnds, CloudTypes, HandlerTypes, Request, NoRequest, cloud
<1> QED
  BY <1>1, <1>2, <1>3, <1>4, <1>5 DEF Serve

LEMMA BackToIdleTypes ==
  ASSUME TypeInv, BackToIdle
  PROVE  /\ pc' = "idle" /\ awaiting' \subseteq Handlers /\ cur' \in Commands \union {None}
         /\ usedCache' \in BOOLEAN /\ outcome' \in Outcomes /\ InHand'
  BY DEF BackToIdle, InHand, AtWork

LEMMA NextTypes == TypeInv /\ [Next]_vars => TypeInv'
<1>0. SUFFICES ASSUME TypeInv PROVE [Next]_vars => TypeInv'
  OBVIOUS
<1> USE DEF TypeInv
<1>1. ASSUME NEW c \in Commands, QueueUpsert(c) PROVE TypeInv'
  <2>1. enrollment' \in [Employees -> Enrollment]
    <3>1. enrollment[EmployeeOf[c]] \in Enrollment
      BY <1>0, CommandSets DEF CloudTypes
    <3>2. [enrollment[EmployeeOf[c]] EXCEPT !.state = "user_pending", !.command = c] \in Enrollment
      BY <3>1 DEF Enrollment
    <3>3. enrollment' = [enrollment EXCEPT ![EmployeeOf[c]] =
            [enrollment[EmployeeOf[c]] EXCEPT !.state = "user_pending", !.command = c]]
      BY <1>1 DEF QueueUpsert
    <3> QED BY <1>0, <3>2, <3>3 DEF CloudTypes
  <2>2. CloudTypes'
    BY <1>0, <1>1, <2>1 DEF QueueUpsert, CloudTypes
  <2> QED
    BY <1>0, <1>1, <2>2 DEF QueueUpsert, HandlerTypes, BridgeTypes, DeviceTypes, InHand, AtWork,
       bridge, device
<1>2. ASSUME NEW c \in Commands, QueueEnroll(c) PROVE TypeInv'
  <2>1. enrollment' \in [Employees -> Enrollment]
    <3>1. [state |-> "queued", command |-> c, print |-> TRUE] \in Enrollment
      BY DEF Enrollment
    <3> QED BY <1>0, <1>2, <3>1 DEF QueueEnroll, CloudTypes
  <2>2. CloudTypes'
    BY <1>0, <1>2, <2>1 DEF QueueEnroll, CloudTypes
  <2> QED
    BY <1>0, <1>2, <2>2 DEF QueueEnroll, HandlerTypes, BridgeTypes, DeviceTypes, InHand, AtWork,
       bridge, device
<1>3. ASSUME NEW h \in Handlers, Serve(h) PROVE TypeInv'
  <2>1. UNCHANGED <<bridge, device, faults>>
    BY <1>3 DEF Serve, RequestArrives, ApplyResults, QueryCandidates, Deliver, RequestEnds
  <2> QED
    BY <1>0, <1>3, <2>1, CloudSteps DEF BridgeTypes, DeviceTypes, InHand, AtWork, bridge, device
<1>4. ASSUME NEW h \in Handlers, SendExchange(h) PROVE TypeInv'
  <2> DEFINE r == [NoRequest EXCEPT !.phase = "sent",
                     !.results = {<<c, IF receipt[c] = "succeeded" THEN "succeeded" ELSE "failed">>
                                    : c \in First({c \in Commands : receipt[c] # "none"}, ResultLimit)}]
  <2>1. r \in Request
    <3> DEFINE rs == {<<c, IF receipt[c] = "succeeded" THEN "succeeded" ELSE "failed">>
                        : c \in First({c \in Commands : receipt[c] # "none"}, ResultLimit)}
    <3>1. rs \subseteq Commands \X Outcomes
      <4>1. First({c \in Commands : receipt[c] # "none"}, ResultLimit) \subseteq Commands
        BY DEF First
      <4>2. ASSUME NEW c \in Commands
            PROVE  <<c, IF receipt[c] = "succeeded" THEN "succeeded" ELSE "failed">>
                     \in Commands \X Outcomes
        OBVIOUS
      <4> QED BY <4>1, <4>2
    <3> HIDE DEF rs
    <3>2. [NoRequest EXCEPT !.phase = "sent", !.results = rs] \in Request
      BY <3>1 DEF Request, NoRequest
    <3> QED BY <3>2 DEF rs
  <2>2. handler' = [handler EXCEPT ![h] = r]
    BY <1>4 DEF SendExchange
  <2>3. HandlerTypes'
    <3> HIDE DEF r
    <3> QED BY <1>0, <2>1, <2>2 DEF HandlerTypes
  <2> QED
    BY <1>0, <1>4, <2>3 DEF SendExchange, CloudTypes, BridgeTypes, DeviceTypes, InHand, AtWork, cloud, device
<1>5. ASSUME NEW h \in Handlers, ReceiveAnswer(h) PROVE TypeInv'
  <2>1. handler[h] \in Request /\ NoRequest \in Request
    BY <1>0, CommandSets DEF HandlerTypes, Request, NoRequest
  <2>2. HandlerTypes' /\ receipt' \in [Commands -> {"none", "interrupted"} \union Outcomes]
    BY <1>0, <1>5, <2>1 DEF ReceiveAnswer, HandlerTypes, BridgeTypes
  <2>3. cur' \in Commands \union {None} /\ InHand'
    BY <1>5, <2>1 DEF ReceiveAnswer, InHand, AtWork, Request
  <2> QED
    BY <1>0, <1>5, <2>2, <2>3 DEF ReceiveAnswer, CloudTypes, BridgeTypes, DeviceTypes, cloud, device
<1>6. ASSUME NEW h \in Handlers, RemovalStops(h) PROVE TypeInv'
  <2>1. NoRequest \in Request
    BY CommandSets DEF Request, NoRequest
  <2>2. HandlerTypes' /\ receipt' \in [Commands -> {"none", "interrupted"} \union Outcomes]
    BY <1>0, <1>6, <2>1 DEF RemovalStops, HandlerTypes, BridgeTypes
  <2> QED
    BY <1>0, <1>6, <2>2, BackToIdleTypes
       DEF RemovalStops, Fault, CloudTypes, BridgeTypes, DeviceTypes, cloud, device
<1>7. CASE SkipCommand
  BY <1>0, <1>7, BackToIdleTypes
     DEF SkipCommand, CloudTypes, HandlerTypes, BridgeTypes, DeviceTypes, cloud, device
<1>8. CASE WriteReceipt
  BY <1>0, <1>8 DEF WriteReceipt, CloudTypes, HandlerTypes, BridgeTypes, DeviceTypes, InHand, AtWork, cloud, device
<1>9. CASE TooLate
  BY <1>0, <1>9
     DEF TooLate, Conclude, CloudTypes, HandlerTypes, BridgeTypes, DeviceTypes, InHand, AtWork, cloud, device
<1>10. CASE Start
  <2>1. executions' \in [Commands -> Nat]
    BY <1>0, <1>10 DEF Start, DeviceTypes, InHand, AtWork
  <2>2. usedCache' \in BOOLEAN /\ pc' \in {"capture", "upsert"}
    BY <1>10 DEF Start
  <2> QED
    BY <1>0, <1>10, <2>1, <2>2
       DEF Start, CloudTypes, HandlerTypes, BridgeTypes, DeviceTypes, InHand, AtWork, cloud
<1>11. CASE UpsertUser
  <2>1. /\ EmployeeOf[cur] \in Employees /\ cur \in Commands
        /\ cur \notin Upserts => cur \in Enrolls
    BY <1>0, <1>11, CommandSets DEF UpsertUser, InHand, AtWork, Commands
  <2> QED
    BY <1>0, <1>11, <2>1
       DEF UpsertUser, Conclude, CloudTypes, HandlerTypes, BridgeTypes, DeviceTypes, InHand, AtWork, cloud
<1>12. CASE Capture
  BY <1>0, <1>12 DEF Capture, CloudTypes, HandlerTypes, BridgeTypes, DeviceTypes, InHand, AtWork, cloud, device
<1>13. CASE Assign
  <2>1. EmployeeOf[cur] \in Employees /\ cur \in Enrolls
    BY <1>0, <1>13, CommandSets DEF Assign, InHand, AtWork
  <2> QED
    BY <1>0, <1>13, <2>1
       DEF Assign, Conclude, CloudTypes, HandlerTypes, BridgeTypes, DeviceTypes, InHand, AtWork, cloud
<1>14. CASE DeviceFails
  <2>1. cur \in Commands /\ EmployeeOf[cur] \in Employees /\ (pc = "assign" => cur \in Enrolls)
    BY <1>0, <1>14, CommandSets DEF DeviceFails, InHand, AtWork
  <2>2. onDevice' \subseteq Employees /\ assigned' \subseteq Enrolls
    BY <1>0, <1>14, <2>1 DEF DeviceFails, DeviceTypes
  <2>3. DeviceTypes'
    BY <1>0, <1>14, <2>2 DEF DeviceFails, Fault, DeviceTypes
  <2> QED
    BY <1>0, <1>14, <2>3
       DEF DeviceFails, Conclude, CloudTypes, HandlerTypes, BridgeTypes, InHand, AtWork, cloud
<1>15. CASE Finish
  BY <1>0, <1>15, BackToIdleTypes
     DEF Finish, CloudTypes, HandlerTypes, BridgeTypes, DeviceTypes, cloud, device
<1>16. CASE ExchangeFails
  BY <1>0, <1>16, BackToIdleTypes
     DEF ExchangeFails, Fault, CloudTypes, HandlerTypes, BridgeTypes, DeviceTypes, cloud, device
<1>17. CASE Crash
  BY <1>0, <1>17, BackToIdleTypes
     DEF Crash, Fault, CloudTypes, HandlerTypes, BridgeTypes, DeviceTypes, cloud, device
<1>18. ASSUME NEW m \in Employees, RemoveUser(m) PROVE TypeInv'
  BY <1>0, <1>18
     DEF RemoveUser, Fault, CloudTypes, HandlerTypes, BridgeTypes, DeviceTypes, InHand, AtWork, cloud, bridge
<1>19. CASE ReplaceDevice
  <2>1. NoRequest \in Request /\ NoEnrollment \in Enrollment
    BY CommandSets DEF Request, NoRequest, Enrollment, NoEnrollment
  <2>2. HandlerTypes' /\ enrollment' \in [Employees -> Enrollment]
    BY <1>0, <1>19, <2>1 DEF ReplaceDevice, HandlerTypes
  <2>3. CloudTypes'
    BY <1>0, <1>19, <2>2 DEF ReplaceDevice, CloudTypes
  <2> QED
    BY <1>0, <1>19, <2>2, <2>3, BackToIdleTypes DEF ReplaceDevice, Fault, BridgeTypes, DeviceTypes, device
<1>20. CASE Tick
  BY <1>0, <1>20
     DEF Tick, CloudTypes, HandlerTypes, BridgeTypes, DeviceTypes, InHand, AtWork, cloud, bridge, device
<1>21. CASE UNCHANGED vars
  BY <1>0, <1>21
     DEF vars, CloudTypes, HandlerTypes, BridgeTypes, DeviceTypes, InHand, AtWork, cloud, bridge, device
<1> QED
  BY <1>1, <1>2, <1>3, <1>4, <1>5, <1>6, <1>7, <1>8, <1>9, <1>10, <1>11, <1>12, <1>13, <1>14,
     <1>15, <1>16, <1>17, <1>18, <1>19, <1>20, <1>21 DEF Next, BridgeStep

(* Every variable keeps its type, for any commands, employees, handlers    *)
(* and limits.                                                             *)
THEOREM ExchangeTypes == Spec => []TypeOK
<1>1. Spec => []TypeInv
  BY InitTypes, NextTypes, PTL DEF Spec
<1>2. TypeInv => TypeOK
  BY TypeParts DEF TypeInv
<1> QED BY <1>1, <1>2, PTL

LEMMA TypeInvAlways == Spec => []TypeInv
  BY InitTypes, NextTypes, PTL DEF Spec

-----------------------------------------------------------------------------
(* What a step can change.                                                 *)

(* What a step can do to one request. *)
LEMMA RequestSteps ==
  ASSUME TypeInv, [Next]_vars, NEW h \in Handlers
  PROVE  \/ handler'[h] \in {handler[h], NoRequest}
         \/ RequestArrives(h) \/ ApplyResults(h) \/ QueryCandidates(h) \/ Deliver(h) \/ SendExchange(h)
<1>0. handler \in [Handlers -> Request]
  BY DEF TypeInv, HandlerTypes
<1>1. ASSUME NEW g \in Handlers, g # h,
             RequestArrives(g) \/ ApplyResults(g) \/ QueryCandidates(g) \/ Deliver(g) \/ SendExchange(g)
      PROVE  handler'[h] = handler[h]
  BY <1>0, <1>1 DEF RequestArrives, ApplyResults, QueryCandidates, Deliver, SendExchange
<1>2. ASSUME NEW g \in Handlers, RequestEnds(g) \/ ReceiveAnswer(g) \/ RemovalStops(g)
      PROVE  handler'[h] \in {handler[h], NoRequest}
  BY <1>0, <1>2 DEF RequestEnds, ReceiveAnswer, RemovalStops
<1>3. UNCHANGED handler
      \/ \E g \in Handlers : \/ Serve(g) \/ SendExchange(g) \/ ReceiveAnswer(g) \/ RemovalStops(g)
      \/ ReplaceDevice
  BY DEF Next, BridgeStep, vars, QueueUpsert, QueueEnroll, SkipCommand, WriteReceipt, TooLate, Start,
     UpsertUser, Capture, Assign, Finish, ExchangeFails, DeviceFails, Crash, RemoveUser, Tick
<1>4. CASE \E g \in Handlers : \/ RequestArrives(g) \/ ApplyResults(g) \/ QueryCandidates(g)
                               \/ Deliver(g) \/ SendExchange(g)
  BY <1>1, <1>4
<1>5. CASE \E g \in Handlers : RequestEnds(g) \/ ReceiveAnswer(g) \/ RemovalStops(g)
  BY <1>2, <1>5
<1>6. CASE UNCHANGED handler \/ ReplaceDevice
  BY <1>6 DEF ReplaceDevice
<1> QED BY <1>3, <1>4, <1>5, <1>6 DEF Serve

(* A request is given results of receipts, candidates that are live, and   *)
(* one of its candidates as its command; it loses them only.               *)
LEMMA RequestNews ==
  ASSUME TypeInv, [Next]_vars, NEW h \in Handlers
  PROVE  /\ \A r \in handler'[h].results :
              \/ r \in handler[h].results
              \/ /\ r[1] \in Commands /\ receipt[r[1]] # "none"
                 /\ r[2] = "succeeded" => receipt[r[1]] = "succeeded"
         /\ \A c \in handler'[h].candidates :
              c \in handler[h].candidates \/ state[c] \in Live
         /\ \/ handler'[h].command \in {None, handler[h].command}
            \/ handler'[h].command \in handler[h].candidates
<1> DEFINE News ==
      /\ \A r \in handler'[h].results :
           \/ r \in handler[h].results
           \/ /\ r[1] \in Commands /\ receipt[r[1]] # "none"
              /\ r[2] = "succeeded" => receipt[r[1]] = "succeeded"
      /\ \A c \in handler'[h].candidates :
           c \in handler[h].candidates \/ state[c] \in Live
      /\ \/ handler'[h].command \in {None, handler[h].command}
         \/ handler'[h].command \in handler[h].candidates
<1> SUFFICES News
  OBVIOUS
<1>0. handler \in [Handlers -> Request]
  BY DEF TypeInv, HandlerTypes
<1>1. CASE handler'[h] = handler[h]
  BY <1>1
<1>2. CASE handler'[h] = NoRequest
  BY <1>2 DEF NoRequest
<1>3. ASSUME NEW g \in Handlers, RequestArrives(g) PROVE News
  BY <1>0, <1>3 DEF RequestArrives, Request
<1>4. ASSUME NEW g \in Handlers, ApplyResults(g) PROVE News
  <2>1. /\ handler'[h].results \subseteq handler[h].results
        /\ handler'[h].candidates = handler[h].candidates
        /\ handler'[h].command = handler[h].command
    BY <1>0, <1>4 DEF ApplyResults, Request
  <2> QED BY <2>1
<1>5. ASSUME NEW g \in Handlers, QueryCandidates(g) PROVE News
  <2> DEFINE live == {c \in Commands : state[c] \in Live}
  <2>1. First(live, CandidateLimit) \subseteq live
    BY DEF First
  <2>2. handler' = [handler EXCEPT ![g].phase = "deliver",
                                   ![g].candidates = First(live, CandidateLimit)]
    BY <1>5 DEF QueryCandidates
  <2>3. /\ handler'[h].results = handler[h].results
        /\ handler'[h].candidates \in {handler[h].candidates, First(live, CandidateLimit)}
        /\ handler'[h].command = handler[h].command
    BY <1>0, <2>2 DEF Request
  <2> QED BY <2>1, <2>3
<1>6. ASSUME NEW g \in Handlers, Deliver(g) PROVE News
  <2> DEFINE chosen == First(Deliverable(g), 1)
             command == IF chosen = {} THEN None ELSE CHOOSE c \in chosen : TRUE
  <2>1. chosen \subseteq handler[g].candidates
    BY DEF First, Deliverable, Candidates
  <2>2. command = None \/ command \in handler[g].candidates
    BY <2>1
  <2>3. handler' = [handler EXCEPT ![g].phase = "replied", ![g].candidates = {},
                                   ![g].command = command]
    BY <1>6 DEF Deliver
  <2> HIDE DEF command
  <2>4. /\ handler'[h].results = handler[h].results
        /\ handler'[h].candidates \subseteq handler[h].candidates
        /\ handler'[h].command = handler[h].command \/ (h = g /\ handler'[h].command = command)
    BY <1>0, <2>3 DEF Request
  <2> QED BY <2>2, <2>4
<1>7. ASSUME NEW g \in Handlers, SendExchange(g) PROVE News
  <2> DEFINE held == {c \in Commands : receipt[c] # "none"}
             rs == {<<c, IF receipt[c] = "succeeded" THEN "succeeded" ELSE "failed">>
                      : c \in First(held, ResultLimit)}
  <2>1. First(held, ResultLimit) \subseteq held
    BY DEF First
  <2>2. ASSUME NEW r \in rs
        PROVE  /\ r[1] \in Commands /\ receipt[r[1]] # "none"
               /\ r[2] = "succeeded" => receipt[r[1]] = "succeeded"
    <3>1. PICK c \in First(held, ResultLimit) :
            r = <<c, IF receipt[c] = "succeeded" THEN "succeeded" ELSE "failed">>
      OBVIOUS
    <3>2. r[1] = c /\ r[2] = IF receipt[c] = "succeeded" THEN "succeeded" ELSE "failed"
      BY <3>1
    <3>3. c \in held
      BY <2>1
    <3> QED BY <3>2, <3>3
  <2>3. handler' = [handler EXCEPT ![g] = [NoRequest EXCEPT !.phase = "sent", !.results = rs]]
    BY <1>7 DEF SendExchange
  <2> HIDE DEF rs
  <2>4. \/ handler'[h] = handler[h]
        \/ handler'[h].results = rs /\ handler'[h].candidates = {} /\ handler'[h].command = None
    BY <1>0, <2>3 DEF Request, NoRequest
  <2> QED BY <1>1, <2>2, <2>4
<1>8. CASE UNCHANGED handler
  BY <1>1, <1>8
<1>9. ASSUME NEW g \in Handlers, RequestEnds(g) \/ ReceiveAnswer(g) \/ RemovalStops(g) PROVE News
  BY <1>0, <1>1, <1>2, <1>9 DEF RequestEnds, ReceiveAnswer, RemovalStops
<1>10. CASE ReplaceDevice
  BY <1>1, <1>2, <1>10 DEF ReplaceDevice
<1>11. UNCHANGED handler
       \/ \E g \in Handlers : \/ Serve(g) \/ SendExchange(g) \/ ReceiveAnswer(g) \/ RemovalStops(g)
       \/ ReplaceDevice
  BY DEF Next, BridgeStep, vars, QueueUpsert, QueueEnroll, SkipCommand, WriteReceipt, TooLate, Start,
     UpsertUser, Capture, Assign, Finish, ExchangeFails, DeviceFails, Crash, RemoveUser, Tick
<1> HIDE DEF News
<1> QED
  BY <1>3, <1>4, <1>5, <1>6, <1>7, <1>8, <1>9, <1>10, <1>11 DEF Serve

(* Receipts appear for the command in hand only; it comes from an answer.  *)
LEMMA BridgeNews ==
  ASSUME TypeInv, [Next]_vars
  PROVE  /\ \A c \in Commands :
              \/ receipt'[c] \in {"none", receipt[c]}
              \/ cur = c /\ receipt'[c] = "interrupted"
              \/ cur = c /\ pc = "finish" /\ receipt'[c] = outcome
         /\ \/ cur' \in {None, cur}
            \/ \E h \in Handlers : cur' = handler[h].command
<1> DEFINE News ==
      /\ \A c \in Commands :
           \/ receipt'[c] \in {"none", receipt[c]}
           \/ cur = c /\ receipt'[c] = "interrupted"
           \/ cur = c /\ pc = "finish" /\ receipt'[c] = outcome
      /\ \/ cur' \in {None, cur}
         \/ \E h \in Handlers : cur' = handler[h].command
<1> SUFFICES News
  OBVIOUS
<1>0. receipt \in [Commands -> {"none", "interrupted"} \union Outcomes]
  BY DEF TypeInv, BridgeTypes
<1>1. CASE receipt' = receipt /\ cur' \in {None, cur}
  BY <1>1
<1>2. ASSUME NEW h \in Handlers, ReceiveAnswer(h) PROVE News
  BY <1>0, <1>2 DEF ReceiveAnswer
<1>3. ASSUME NEW h \in Handlers, RemovalStops(h) PROVE News
  BY <1>0, <1>3 DEF RemovalStops, BackToIdle
<1>4. CASE WriteReceipt
  BY <1>0, <1>4 DEF WriteReceipt
<1>5. CASE Finish
  BY <1>0, <1>5 DEF Finish, BackToIdle
<1>6. \/ receipt' = receipt /\ cur' \in {None, cur}
      \/ \E h \in Handlers : ReceiveAnswer(h) \/ RemovalStops(h)
      \/ WriteReceipt \/ Finish
  BY DEF Next, BridgeStep, Serve, vars, bridge, QueueUpsert, QueueEnroll, RequestArrives, ApplyResults,
     QueryCandidates, Deliver, RequestEnds, SendExchange, SkipCommand, TooLate, Start,
     UpsertUser, Capture, Assign, ExchangeFails, DeviceFails, Crash, RemoveUser, Tick, ReplaceDevice,
     BackToIdle
<1> HIDE DEF News
<1> QED BY <1>1, <1>2, <1>3, <1>4, <1>5, <1>6

(* A command changes its state when it is queued, reported, delivered or   *)
(* fails as a candidate, or when its device is removed.                    *)
LEMMA StateNews ==
  ASSUME TypeInv, [Next]_vars, NEW c \in Commands
  PROVE  \/ state'[c] = state[c]
         \/ state[c] = "none" /\ state'[c] = "queued"
         \/ \E h \in Handlers : /\ ApplyResults(h) /\ c \in Reported(h)
                               /\ state[c] \notin Outcomes \union {"removed"}
                               /\ state'[c] = ReportOf(h, c) /\ state'[c] \in Outcomes
         \/ \E h \in Handlers : /\ Deliver(h) /\ handler[h].phase = "deliver"
                               /\ c \in handler[h].candidates /\ state[c] # "removed"
                               /\ state'[c] \in {"failed", "dispatched"}
         \/ ReplaceDevice /\ state[c] # "none" /\ state'[c] = "removed"
<1>0. state \in [Commands -> {"none", "removed"} \union Live \union Outcomes]
  BY DEF TypeInv, CloudTypes
<1>1. CASE state' = state
  BY <1>1
<1>2. ASSUME NEW d \in Commands, QueueUpsert(d) \/ QueueEnroll(d)
      PROVE  state'[c] = state[c] \/ (state[c] = "none" /\ state'[c] = "queued")
  BY <1>0, <1>2 DEF QueueUpsert, QueueEnroll
<1>3. ASSUME NEW h \in Handlers, ApplyResults(h), state'[c] # state[c]
      PROVE  /\ c \in Reported(h) /\ state[c] \notin Outcomes \union {"removed"}
             /\ state'[c] = ReportOf(h, c) /\ state'[c] \in Outcomes
  <2>1. /\ c \in Reported(h) /\ state[c] \notin Outcomes \union {"removed"}
        /\ state'[c] = ReportOf(h, c)
    BY <1>3 DEF ApplyResults, Unfinished
  <2>2. ReportOf(h, c) \in Outcomes
    BY <2>1 DEF TypeInv, HandlerTypes, Request, Reported, ReportOf
  <2> QED BY <2>1, <2>2
<1>4. ASSUME NEW h \in Handlers, Deliver(h), state'[c] # state[c]
      PROVE  /\ handler[h].phase = "deliver"
             /\ c \in handler[h].candidates /\ state[c] # "removed"
             /\ state'[c] \in {"failed", "dispatched"}
  BY <1>4 DEF Deliver, Expired, Deliverable, Candidates, First
<1>5. CASE ReplaceDevice
  BY <1>5 DEF ReplaceDevice
<1>6. \/ state' = state
      \/ \E d \in Commands : QueueUpsert(d) \/ QueueEnroll(d)
      \/ \E h \in Handlers : ApplyResults(h) \/ Deliver(h)
      \/ ReplaceDevice
  BY DEF Next, BridgeStep, Serve, vars, cloud, RequestArrives, QueryCandidates, RequestEnds,
     SendExchange, ReceiveAnswer, RemovalStops, SkipCommand, WriteReceipt, TooLate, Start,
     UpsertUser, Capture, Assign, Finish, ExchangeFails, DeviceFails, Crash, RemoveUser, Tick
<1> QED BY <1>1, <1>2, <1>3, <1>4, <1>5, <1>6

(* A command that was queued once is never unqueued again. *)
LEMMA QueuedStays ==
  ASSUME TypeInv, [Next]_vars, NEW c \in Commands, state[c] # "none"
  PROVE  state'[c] # "none"
  BY StateNews

LEMMA AssignedGrows ==
  ASSUME [Next]_vars
  PROVE  assigned \subseteq assigned'
<1>1. CASE Assign
  BY <1>1 DEF Assign
<1>2. CASE DeviceFails
  BY <1>2 DEF DeviceFails
<1>3. assigned' = assigned \/ Assign \/ DeviceFails
  BY DEF Next, BridgeStep, Serve, vars, device, QueueUpsert, QueueEnroll, RequestArrives, ApplyResults,
     QueryCandidates, Deliver, RequestEnds, SendExchange, ReceiveAnswer, RemovalStops, SkipCommand,
     WriteReceipt, TooLate, Start, UpsertUser, Capture, Finish, ExchangeFails, Crash, RemoveUser,
     ReplaceDevice, Tick
<1> QED BY <1>1, <1>2, <1>3

LEMMA ReportIsReported ==
  ASSUME TypeInv, NEW h \in Handlers, NEW c \in Reported(h)
  PROVE  <<c, ReportOf(h, c)>> \in handler[h].results
<1>1. handler[h].results \subseteq Commands \X Outcomes
  BY DEF TypeInv, HandlerTypes, Request
<1>2. \E r \in handler[h].results : r[1] = c
  BY DEF Reported
<1> DEFINE r == CHOOSE r \in handler[h].results : r[1] = c
<1>3. r \in handler[h].results /\ r[1] = c
  BY <1>2
<1>4. r = <<r[1], r[2]>>
  BY <1>1, <1>3
<1> QED BY <1>3, <1>4 DEF ReportOf

LEMMA ReportIsOutcome ==
  ASSUME TypeInv, NEW h \in Handlers, NEW c \in Reported(h)
  PROVE  c \in Commands /\ ReportOf(h, c) \in Outcomes
<1>1. handler[h].results \subseteq Commands \X Outcomes
  BY DEF TypeInv, HandlerTypes, Request
<1>2. <<c, ReportOf(h, c)>> \in handler[h].results
  BY ReportIsReported
<1> QED BY <1>1, <1>2

(* An enrollment document changes when a command is queued for its         *)
(* employee, when a result is applied, when a candidate expires or is      *)
(* delivered, and when the device is removed.                              *)
LEMMA EnrollmentNews ==
  ASSUME TypeInv, [Next]_vars, NEW m \in Employees
  PROVE  \/ enrollment'[m] = enrollment[m]
         \/ enrollment'[m].state \notin {"none", "enrolled"}
         \/ \E h \in Handlers : \E c \in Reported(h) :
              /\ ApplyResults(h) /\ c \in Commands
              /\ enrollment'[m] = Written(m, c, EnrollmentAfter(c, ReportOf(h, c)))
         \/ enrollment'[m] = NoEnrollment
<1>0. enrollment \in [Employees -> Enrollment]
  BY DEF TypeInv, CloudTypes
<1>1. ASSUME NEW c \in Commands, QueueUpsert(c) \/ QueueEnroll(c)
      PROVE  enrollment'[m] = enrollment[m] \/ enrollment'[m].state \in {"user_pending", "queued"}
  BY <1>0, <1>1 DEF QueueUpsert, QueueEnroll, Enrollment
<1>2. ASSUME NEW h \in Handlers, ApplyResults(h)
      PROVE  \/ enrollment'[m] = enrollment[m]
             \/ \E c \in Reported(h) :
                  /\ c \in Commands
                  /\ enrollment'[m] = Written(m, c, EnrollmentAfter(c, ReportOf(h, c)))
  <2> DEFINE known == {c \in Reported(h) : state[c] # "removed"}
             fresh == {c \in known : Unfinished(c)}
             D == {d \in fresh : ~PreservesEnrollment(d)}
             news == [c \in D |-> EnrollmentAfter(c, ReportOf(h, c))]
  <2>1. WriteEnrollments(news) /\ DOMAIN news = D
    BY <1>2 DEF ApplyResults
  <2>2. D \subseteq Reported(h) /\ D \subseteq Commands
    BY DEF TypeInv, HandlerTypes, Request, Reported
  <2>3. \A c \in D : news[c] = EnrollmentAfter(c, ReportOf(h, c))
    OBVIOUS
  <2> HIDE DEF D, news
  <2>4. enrollment'[m] = enrollment[m]
        \/ \E c \in D : enrollment'[m] = Written(m, c, news[c])
    BY <2>1, <2>2, LastWriteStays DEF TypeInv
  <2> QED BY <2>2, <2>3, <2>4
<1>3. ASSUME NEW h \in Handlers, Deliver(h)
      PROVE  enrollment'[m] = enrollment[m] \/ enrollment'[m].state \in {"failed", "capturing"}
  <2> DEFINE expired == Expired(h)
             chosen == First(Deliverable(h), 1)
             D == {d \in expired : enrollment[EmployeeOf[d]].command = d}
                    \union (chosen \intersect Enrolls)
             news == [c \in D |-> IF c \in expired THEN "failed" ELSE "capturing"]
  <2>1. WriteEnrollments(news) /\ DOMAIN news = D
    BY <1>3 DEF Deliver
  <2>2. D \subseteq Commands
    BY DEF TypeInv, HandlerTypes, Request, Expired, Deliverable, Candidates, First
  <2>3. \A c \in D : news[c] \in {"failed", "capturing"}
    OBVIOUS
  <2> HIDE DEF D, news
  <2>4. enrollment'[m] = enrollment[m]
        \/ \E c \in D : enrollment'[m] = Written(m, c, news[c])
    BY <2>1, <2>2, LastWriteStays DEF TypeInv
  <2>5. ASSUME NEW c \in D PROVE Written(m, c, news[c]).state = news[c]
    BY <1>0 DEF Written, Enrollment
  <2> QED BY <2>3, <2>4, <2>5
<1>4. CASE ReplaceDevice
  BY <1>4 DEF ReplaceDevice
<1>5. \/ enrollment' = enrollment
      \/ \E c \in Commands : QueueUpsert(c) \/ QueueEnroll(c)
      \/ \E h \in Handlers : ApplyResults(h) \/ Deliver(h)
      \/ ReplaceDevice
  BY DEF Next, BridgeStep, Serve, vars, cloud, RequestArrives, QueryCandidates, RequestEnds,
     SendExchange, ReceiveAnswer, RemovalStops, SkipCommand, WriteReceipt, TooLate, Start,
     UpsertUser, Capture, Assign, Finish, ExchangeFails, DeviceFails, Crash, RemoveUser, Tick
<1> QED BY <1>1, <1>2, <1>3, <1>4, <1>5

-----------------------------------------------------------------------------
(* Nobody holds a command the cloud was never asked for: the receipts of   *)
(* the bridge, its command in hand and what a request carries all come     *)
(* from a document.                                                        *)

Known(c) ==
  \/ receipt[c] # "none" \/ cur = c
  \/ \E h \in Handlers : c \in Reported(h) \union handler[h].candidates \union {handler[h].command}

AskedInv == \A c \in Commands : Known(c) => state[c] # "none"

LEMMA InitAsked == Init => AskedInv
  BY CommandSets DEF Init, AskedInv, Known, Reported, NoRequest

LEMMA NextAsked == TypeInv /\ AskedInv /\ [Next]_vars => AskedInv'
<1> SUFFICES ASSUME TypeInv, AskedInv, [Next]_vars, NEW c \in Commands, Known(c)'
             PROVE  state'[c] # "none"
  BY DEF AskedInv
<1>1. CASE receipt'[c] # "none"
  BY <1>1, BridgeNews, QueuedStays DEF AskedInv, Known
<1>2. CASE cur' = c
  BY <1>2, BridgeNews, QueuedStays, CommandSets DEF AskedInv, Known
<1>3. ASSUME NEW h \in Handlers,
             c \in Reported(h)' \union handler'[h].candidates \union {handler'[h].command}
      PROVE  state'[c] # "none"
  <2>1. CASE c \in Reported(h)'
    <3>1. PICK r \in handler'[h].results : r[1] = c
      BY <2>1 DEF Reported
    <3>2. r \in handler[h].results \/ receipt[c] # "none"
      BY <3>1, RequestNews
    <3>3. Known(c)
      BY <3>1, <3>2 DEF Known, Reported
    <3> QED BY <3>3, QueuedStays DEF AskedInv
  <2>2. CASE c \in handler'[h].candidates
    <3>1. c \in handler[h].candidates \/ state[c] \in Live
      BY <2>2, RequestNews
    <3>2. state[c] # "none"
      BY <3>1 DEF AskedInv, Known
    <3> QED BY <3>2, QueuedStays
  <2>3. CASE handler'[h].command = c
    <3>1. c = handler[h].command \/ c \in handler[h].candidates
      BY <2>3, RequestNews, CommandSets
    <3>2. state[c] # "none"
      BY <3>1 DEF AskedInv, Known
    <3> QED BY <3>2, QueuedStays
  <2> QED BY <1>3, <2>1, <2>2, <2>3
<1> QED BY <1>1, <1>2, <1>3 DEF Known

LEMMA AskedAlways == Spec => []AskedInv
  BY InitAsked, NextAsked, TypeInvAlways, PTL DEF Spec

-----------------------------------------------------------------------------
(* A success that anybody reports is one the terminal accepted: the        *)
(* receipts, the results on their way and the outcome in hand with it.     *)

SuccessInv ==
  /\ \A c \in Enrolls : receipt[c] = "succeeded" => c \in assigned
  /\ \A h \in Handlers : \A c \in Enrolls :
       <<c, "succeeded">> \in handler[h].results => c \in assigned
  /\ pc = "finish" /\ outcome = "succeeded" /\ cur \in Enrolls => cur \in assigned
  /\ SuccessIsTrue

LEMMA InitSuccess == Init => SuccessInv
  BY CommandSets DEF Init, SuccessInv, SuccessIsTrue, NoRequest, NoEnrollment

(* The command in hand ends in success only if the terminal took it. *)
LEMMA ConcludedTruly ==
  ASSUME TypeInv, SuccessInv, [Next]_vars,
         pc' = "finish", outcome' = "succeeded", cur' \in Enrolls
  PROVE  cur' \in assigned'
<1>1. CASE UpsertUser
  BY <1>1 DEF UpsertUser, Conclude
<1>2. CASE Assign
  BY <1>2 DEF Assign, Conclude
<1>3. CASE DeviceFails
  BY <1>3 DEF DeviceFails, Conclude
<1>4. CASE TooLate
  BY <1>4 DEF TooLate, Conclude
<1>5. CASE UNCHANGED <<pc, outcome, cur>>
  BY <1>5, AssignedGrows DEF SuccessInv
<1>6. \/ UpsertUser \/ Assign \/ DeviceFails \/ TooLate
      \/ UNCHANGED <<pc, outcome, cur>>
      \/ pc' # "finish"
  BY DEF Next, BridgeStep, Serve, vars, bridge, QueueUpsert, QueueEnroll, RequestArrives, ApplyResults,
     QueryCandidates, Deliver, RequestEnds, SendExchange, ReceiveAnswer, RemovalStops, SkipCommand,
     WriteReceipt, Start, Capture, Finish, ExchangeFails, Crash, RemoveUser, ReplaceDevice, Tick,
     BackToIdle
<1> QED BY <1>1, <1>2, <1>3, <1>4, <1>5, <1>6

LEMMA NextSuccess == TypeInv /\ SuccessInv /\ [Next]_vars => SuccessInv'
<1> SUFFICES ASSUME TypeInv, SuccessInv, [Next]_vars PROVE SuccessInv'
  OBVIOUS
<1>0. Enrolls \subseteq Commands /\ assigned \subseteq assigned'
  BY CommandSets, AssignedGrows
<1>1. ASSUME NEW c \in Enrolls, receipt'[c] = "succeeded" PROVE c \in assigned'
  BY <1>0, <1>1, BridgeNews DEF SuccessInv
<1>2. ASSUME NEW h \in Handlers, NEW c \in Enrolls, <<c, "succeeded">> \in handler'[h].results
      PROVE  c \in assigned'
  <2>1. <<c, "succeeded">> \in handler[h].results \/ receipt[c] = "succeeded"
    BY <1>2, RequestNews
  <2> QED BY <1>0, <2>1 DEF SuccessInv
<1>3. ASSUME NEW h \in Handlers, NEW c \in Enrolls, c \in Reported(h), ReportOf(h, c) = "succeeded"
      PROVE  c \in assigned'
  <2>1. <<c, "succeeded">> \in handler[h].results
    BY <1>3, ReportIsReported
  <2> QED BY <1>0, <2>1 DEF SuccessInv
<1>4. ASSUME NEW c \in Enrolls, state'[c] = "succeeded" PROVE c \in assigned'
  BY <1>0, <1>3, <1>4, StateNews DEF SuccessInv, SuccessIsTrue
<1>5. ASSUME NEW m \in Employees, enrollment'[m].state = "enrolled"
      PROVE  enrollment'[m].command \in assigned'
  <2>1. CASE enrollment'[m] = enrollment[m]
    BY <1>0, <1>5, <2>1 DEF SuccessInv, SuccessIsTrue
  <2>2. ASSUME NEW h \in Handlers, NEW c \in Reported(h), c \in Commands,
               enrollment'[m] = Written(m, c, EnrollmentAfter(c, ReportOf(h, c)))
        PROVE  enrollment'[m].command \in assigned'
    <3>1. enrollment[m] \in Enrollment
      BY DEF TypeInv, CloudTypes
    <3>2. /\ enrollment'[m].state = EnrollmentAfter(c, ReportOf(h, c))
          /\ enrollment'[m].command = c
      BY <2>2, <3>1 DEF Written, Enrollment
    <3>3. ReportOf(h, c) \in Outcomes
      BY ReportIsOutcome
    <3>4. c \in Enrolls /\ ReportOf(h, c) = "succeeded"
      BY <1>5, <3>2, <3>3 DEF EnrollmentAfter
    <3> QED BY <1>3, <3>2, <3>4
  <2>3. CASE enrollment'[m] = NoEnrollment
    BY <1>5, <2>3 DEF NoEnrollment
  <2> QED BY <1>5, <2>1, <2>2, <2>3, EnrollmentNews
<1> QED
  BY <1>1, <1>2, <1>4, <1>5, ConcludedTruly DEF SuccessInv, SuccessIsTrue

(* What the cloud calls succeeded succeeded at the terminal, and a         *)
(* document that says enrolled names a fingerprint it accepted, whatever   *)
(* requests are served at once and whatever is lost: executeCommand's      *)
(* outcome is the only source of a success.                                *)
THEOREM SuccessAlwaysTrue == Spec => []SuccessIsTrue
<1>1. SuccessInv => SuccessIsTrue
  BY DEF SuccessInv
<1> QED BY <1>1, InitSuccess, NextSuccess, TypeInvAlways, PTL DEF Spec

-----------------------------------------------------------------------------
(* The enrollment document names a command of its employee that exists,    *)
(* and says whether a fingerprint was asked for; while one was, no other   *)
(* command replaces it except a newer enrollment.                          *)

Gone(c) == state[c] \in {"none", "removed"}

Fate(m) ==
  LET e == enrollment[m] IN
  /\ e.command \in Commands => EmployeeOf[e.command] = m /\ ~Gone(e.command)
  /\ e.print <=> e.command \in Enrolls
  /\ e.print => e.state \in {"queued", "capturing", "enrolled", "failed"}
  /\ e.state = "none" => \A c \in Commands : EmployeeOf[c] = m => Gone(c)
  /\ \A c \in Enrolls : EmployeeOf[c] = m /\ ~Gone(c) => e.print
  /\ e.command \in Enrolls /\ state[e.command] = "succeeded" => e.state = "enrolled"
  /\ e.command \in Enrolls /\ state[e.command] = "failed" => e.state = "failed"

FateInv == \A m \in Employees : Fate(m)

LEMMA FateTells == FateInv => EnrollmentTellsFate
  BY DEF FateInv, Fate, EnrollmentTellsFate

LEMMA InitFate == Init => FateInv
<1> SUFFICES ASSUME Init, NEW m \in Employees PROVE Fate(m)
  BY DEF FateInv
<1>1. enrollment[m] = NoEnrollment /\ \A c \in Commands : state[c] = "none"
  BY DEF Init
<1>2. None \notin Enrolls
  BY CommandSets
<1> QED
  BY <1>1, <1>2, CommandSets DEF Fate, Gone, NoEnrollment

(* A document that did not change tells the fate still, if the commands of *)
(* its employee are there as before and the one it names did not end.      *)
LEMMA SameFate ==
  ASSUME NEW m \in Employees, Fate(m), enrollment'[m] = enrollment[m],
         \A c \in Commands : EmployeeOf[c] = m => (Gone(c)' <=> Gone(c)),
         enrollment[m].command \in Enrolls =>
           \/ state'[enrollment[m].command] = state[enrollment[m].command]
           \/ state'[enrollment[m].command] \in Live
  PROVE  Fate(m)'
<1>1. Enrolls \subseteq Commands
  BY CommandSets
<1> QED BY <1>1 DEF Fate

LEMMA QueueUpsertFate ==
  ASSUME TypeInv, FateInv, NEW c \in Commands, QueueUpsert(c), NEW m \in Employees
  PROVE  Fate(m)'
<1>0. /\ enrollment \in [Employees -> Enrollment]
      /\ state \in [Commands -> {"none", "removed"} \union Live \union Outcomes]
      /\ Fate(m) /\ Enrolls \subseteq Commands /\ c \in Upserts /\ c \notin Enrolls
  BY CommandSets DEF TypeInv, CloudTypes, FateInv, QueueUpsert
<1>1. state[c] = "none" /\ state'[c] = "queued" /\ \A d \in Commands \ {c} : state'[d] = state[d]
  BY <1>0 DEF QueueUpsert
<1>2. CASE EmployeeOf[c] = m
  <2>1. enrollment[m] = NoEnrollment
    BY <1>2 DEF QueueUpsert
  <2>2. enrollment'[m] = [state |-> "user_pending", command |-> c, print |-> FALSE]
    BY <1>0, <1>2, <2>1 DEF QueueUpsert, NoEnrollment
  <2>3. \A d \in Commands : EmployeeOf[d] = m => Gone(d)
    BY <1>0, <2>1 DEF Fate, NoEnrollment
  <2>4. \A d \in Enrolls : EmployeeOf[d] = m => Gone(d)'
    BY <1>0, <1>1, <2>3 DEF Gone
  <2>5. ~Gone(c)'
    BY <1>1 DEF Gone
  <2> QED BY <1>0, <1>2, <2>2, <2>4, <2>5 DEF Fate
<1>3. CASE EmployeeOf[c] # m
  <2>1. enrollment'[m] = enrollment[m]
    BY <1>0, <1>3 DEF QueueUpsert
  <2>2. \A d \in Commands : EmployeeOf[d] = m => state'[d] = state[d]
    BY <1>1, <1>3
  <2>3. enrollment[m].command \in Enrolls => EmployeeOf[enrollment[m].command] = m
    BY <1>0 DEF Fate
  <2> QED BY <1>0, <2>1, <2>2, <2>3, SameFate DEF Gone
<1> QED BY <1>2, <1>3

LEMMA QueueEnrollFate ==
  ASSUME TypeInv, FateInv, NEW c \in Commands, QueueEnroll(c), NEW m \in Employees
  PROVE  Fate(m)'
<1>0. /\ enrollment \in [Employees -> Enrollment]
      /\ state \in [Commands -> {"none", "removed"} \union Live \union Outcomes]
      /\ Fate(m) /\ Enrolls \subseteq Commands /\ c \in Enrolls
  BY CommandSets DEF TypeInv, CloudTypes, FateInv, QueueEnroll
<1>1. state[c] = "none" /\ state'[c] = "queued" /\ \A d \in Commands \ {c} : state'[d] = state[d]
  BY <1>0 DEF QueueEnroll
<1>2. CASE EmployeeOf[c] = m
  <2>1. enrollment'[m] = [state |-> "queued", command |-> c, print |-> TRUE]
    BY <1>0, <1>2 DEF QueueEnroll
  <2>2. ~Gone(c)'
    BY <1>1 DEF Gone
  <2> QED BY <1>0, <1>1, <1>2, <2>1, <2>2 DEF Fate
<1>3. CASE EmployeeOf[c] # m
  <2>1. enrollment'[m] = enrollment[m]
    BY <1>0, <1>3 DEF QueueEnroll
  <2>2. \A d \in Commands : EmployeeOf[d] = m => state'[d] = state[d]
    BY <1>1, <1>3
  <2>3. enrollment[m].command \in Enrolls => EmployeeOf[enrollment[m].command] = m
    BY <1>0 DEF Fate
  <2> QED BY <1>0, <2>1, <2>2, <2>3, SameFate DEF Gone
<1> QED BY <1>2, <1>3

(* A command that writes the document must be a fingerprint command if one *)
(* was asked for, and say of itself what is true.                          *)
LEMMA WrittenFate ==
  ASSUME NEW m \in Employees, enrollment[m] \in Enrollment, Fate(m),
         NEW c \in Commands, EmployeeOf[c] = m, ~Gone(c)', NEW s,
         enrollment'[m] = Written(m, c, s), s # "none",
         enrollment[m].print <=> c \in Enrolls,
         \A d \in Commands : EmployeeOf[d] = m => (Gone(d)' <=> Gone(d)),
         c \in Enrolls => s \in {"capturing", "enrolled", "failed"},
         c \in Enrolls /\ state'[c] = "succeeded" => s = "enrolled",
         c \in Enrolls /\ state'[c] = "failed" => s = "failed"
  PROVE  Fate(m)'
<1>1. /\ enrollment'[m].command = c /\ enrollment'[m].state = s
      /\ enrollment'[m].print = enrollment[m].print
  BY DEF Written, Enrollment
<1>2. Enrolls \subseteq Commands
  BY CommandSets
<1>3. \A d \in Enrolls : EmployeeOf[d] = m /\ ~Gone(d)' => enrollment[m].print
  BY <1>2 DEF Fate
<1> QED BY <1>1, <1>2, <1>3 DEF Fate

(* A result says what its own document has to say, and a document that     *)
(* speaks of a fingerprint is written by its own command only.             *)
LEMMA ApplyResultsFate ==
  ASSUME TypeInv, AskedInv, FateInv, NEW h \in Handlers, ApplyResults(h), NEW m \in Employees
  PROVE  Fate(m)'
<1> DEFINE known == {c \in Reported(h) : state[c] # "removed"}
           fresh == {c \in known : Unfinished(c)}
           D == {d \in fresh : ~PreservesEnrollment(d)}
           news == [c \in D |-> EnrollmentAfter(c, ReportOf(h, c))]
           e == enrollment[m]
<1>0. e \in Enrollment /\ Fate(m) /\ Enrolls \subseteq Commands
  BY CommandSets DEF TypeInv, CloudTypes, FateInv
<1>1. fresh \subseteq Commands /\ \A c \in fresh : ReportOf(h, c) \in Outcomes
  BY ReportIsOutcome
<1>2. \A c \in Commands : state'[c] = IF c \in fresh THEN ReportOf(h, c) ELSE state[c]
  BY DEF ApplyResults
<1>3. \A c \in fresh : state[c] # "none" /\ state[c] # "removed"
  BY <1>1 DEF AskedInv, Known
<1>4. \A c \in Commands : Gone(c)' <=> Gone(c)
  <2> HIDE DEF fresh
  <2> QED BY <1>1, <1>2, <1>3 DEF Gone
<1>5. WriteEnrollments(news) /\ DOMAIN news = D /\ D \subseteq Commands
  BY <1>1 DEF ApplyResults
<1>6. \A c \in D : c \in fresh /\ ~PreservesEnrollment(c)
                   /\ news[c] = EnrollmentAfter(c, ReportOf(h, c))
  OBVIOUS
<1>7. ASSUME \A c \in D : EmployeeOf[c] # m, enrollment'[m] = enrollment[m]
      PROVE  Fate(m)'
  <2>1. ASSUME e.command \in Enrolls PROVE e.command \notin fresh
    <3>1. e.command \in Commands /\ EmployeeOf[e.command] = m
      BY <1>0, <2>1 DEF Fate
    <3>2. ~PreservesEnrollment(e.command)
      BY <3>1 DEF PreservesEnrollment
    <3> QED BY <1>7, <3>1, <3>2
  <2> HIDE DEF fresh, D, news
  <2>2. e.command \in Enrolls => state'[e.command] = state[e.command]
    BY <1>0, <1>2, <2>1
  <2> QED BY <1>0, <1>4, <1>7, <2>2, SameFate
<1>8. ASSUME NEW c \in D, EmployeeOf[c] = m, enrollment'[m] = Written(m, c, news[c])
      PROVE  Fate(m)'
  <2>1. c \in Commands /\ c \in fresh /\ ~PreservesEnrollment(c)
        /\ news[c] = EnrollmentAfter(c, ReportOf(h, c))
    BY <1>5, <1>6
  <2> HIDE DEF fresh, D, news
  <2>2. ReportOf(h, c) \in Outcomes /\ state'[c] = ReportOf(h, c) /\ ~Gone(c) /\ ~Gone(c)'
    BY <1>1, <1>2, <1>3, <1>4, <2>1 DEF Gone
  <2>3. e.state # "none"
    BY <1>0, <1>8, <2>1, <2>2 DEF Fate
  <2>4. e.command = c \/ (c \notin Enrolls /\ e.state \notin {"queued", "capturing", "enrolled"}
                           /\ ~(e.state = "failed" /\ e.print))
    BY <1>8, <2>1, <2>3 DEF PreservesEnrollment
  <2>5. e.print <=> c \in Enrolls
    BY <1>0, <1>8, <2>2, <2>4 DEF Fate
  <2> QED
    BY <1>0, <1>4, <1>8, <2>1, <2>2, <2>5, WrittenFate DEF EnrollmentAfter
<1> HIDE DEF news, D
<1> QED BY <1>5, <1>7, <1>8, LastWriteStays DEF TypeInv

LEMMA DeliverFate ==
  ASSUME TypeInv, AskedInv, FateInv, NEW h \in Handlers, Deliver(h), NEW m \in Employees
  PROVE  Fate(m)'
<1> DEFINE expired == Expired(h)
           chosen == First(Deliverable(h), 1)
           D == {d \in expired : enrollment[EmployeeOf[d]].command = d}
                  \union (chosen \intersect Enrolls)
           news == [c \in D |-> IF c \in expired THEN "failed" ELSE "capturing"]
           e == enrollment[m]
<1>0. e \in Enrollment /\ Fate(m) /\ Enrolls \subseteq Commands
  BY CommandSets DEF TypeInv, CloudTypes, FateInv
<1>1. /\ \A c \in expired \union chosen : c \in handler[h].candidates /\ state[c] # "removed"
      /\ \A c \in chosen : c \notin expired
  BY DEF Expired, Deliverable, Candidates, First
<1>2. \A c \in Commands : state'[c] = IF c \in expired THEN "failed"
                                      ELSE IF c \in chosen THEN "dispatched" ELSE state[c]
  BY DEF Deliver
<1> HIDE DEF expired, chosen
<1>3. expired \union chosen \subseteq Commands
  BY <1>1 DEF TypeInv, HandlerTypes, Request
<1>4. \A c \in expired \union chosen : ~Gone(c)
  BY <1>1, <1>3 DEF AskedInv, Known, Gone
<1>5. \A c \in Commands : Gone(c)' <=> Gone(c)
  BY <1>2, <1>4 DEF Gone
<1>6. WriteEnrollments(news) /\ DOMAIN news = D /\ D \subseteq Commands
  BY <1>3 DEF Deliver, expired, chosen
<1>7. ASSUME \A c \in D : EmployeeOf[c] # m, enrollment'[m] = enrollment[m]
      PROVE  Fate(m)'
  <2>1. e.command \in Enrolls => EmployeeOf[e.command] = m
    BY <1>0 DEF Fate
  <2>2. e.command \in Enrolls => e.command \notin expired \union chosen
    BY <1>7, <2>1
  <2>3. e.command \in Enrolls => state'[e.command] = state[e.command]
    BY <1>0, <1>2, <2>2
  <2> QED BY <1>0, <1>5, <1>7, <2>3, SameFate
<1>8. ASSUME NEW c \in D, EmployeeOf[c] = m, enrollment'[m] = Written(m, c, news[c])
      PROVE  Fate(m)'
  <2>1. c \in Commands /\ ~Gone(c) /\ ~Gone(c)'
    BY <1>4, <1>5, <1>6
  <2>2. CASE c \in expired
    <3>1. e.command = c /\ news[c] = "failed" /\ state'[c] = "failed"
      BY <1>1, <1>2, <1>8, <2>1, <2>2
    <3> HIDE DEF news
    <3> QED BY <1>0, <1>5, <1>8, <2>1, <3>1, WrittenFate DEF Fate
  <2>3. CASE c \notin expired
    <3>1. c \in chosen /\ c \in Enrolls /\ news[c] = "capturing" /\ state'[c] = "dispatched"
      BY <1>2, <1>8, <2>1, <2>3
    <3>2. e.print
      BY <1>0, <1>8, <2>1, <3>1 DEF Fate
    <3> HIDE DEF news
    <3> QED BY <1>0, <1>5, <1>8, <2>1, <3>1, <3>2, WrittenFate
  <2> QED BY <2>2, <2>3
<1> HIDE DEF news, D
<1> QED BY <1>6, <1>7, <1>8, LastWriteStays DEF TypeInv

LEMMA NextFate == TypeInv /\ AskedInv /\ FateInv /\ [Next]_vars => FateInv'
<1> SUFFICES ASSUME TypeInv, AskedInv, FateInv, [Next]_vars, NEW m \in Employees
             PROVE  Fate(m)'
  BY DEF FateInv
<1>1. CASE UNCHANGED <<state, enrollment>>
  BY <1>1 DEF FateInv, Fate, Gone
<1>2. CASE ReplaceDevice
  <2>1. /\ enrollment'[m] = NoEnrollment
        /\ \A c \in Commands : state'[c] \in {"none", "removed"}
    BY <1>2 DEF ReplaceDevice
  <2>2. None \notin Enrolls /\ Enrolls \subseteq Commands
    BY CommandSets
  <2> QED BY <2>1, <2>2, CommandSets DEF Fate, Gone, NoEnrollment
<1>3. \/ UNCHANGED <<state, enrollment>>
      \/ \E c \in Commands : QueueUpsert(c) \/ QueueEnroll(c)
      \/ \E h \in Handlers : ApplyResults(h) \/ Deliver(h)
      \/ ReplaceDevice
  BY DEF Next, BridgeStep, Serve, vars, cloud, RequestArrives, QueryCandidates, RequestEnds,
     SendExchange, ReceiveAnswer, RemovalStops, SkipCommand, WriteReceipt, TooLate, Start,
     UpsertUser, Capture, Assign, Finish, ExchangeFails, DeviceFails, Crash, RemoveUser, Tick
<1> QED
  BY <1>1, <1>2, <1>3, QueueUpsertFate, QueueEnrollFate, ApplyResultsFate, DeliverFate

(* An enrollment document that was asked for a fingerprint always names    *)
(* the command and tells its fate, whatever results, expiries and          *)
(* deliveries of other commands write it, and however many requests are    *)
(* served at once: preserveFingerprintState is enough.                     *)
THEOREM EnrollmentAlwaysTells == Spec => []EnrollmentTellsFate
<1>1. Spec => []FateInv
  BY InitFate, NextFate, TypeInvAlways, AskedAlways, PTL DEF Spec
<1> QED BY <1>1, FateTells, PTL

-----------------------------------------------------------------------------
(* What follows needs NoStaleCandidates.                                   *)

(* A request comes to the delivery with candidates that were live when it  *)
(* looked for them, and stays there until it delivers.                     *)
LEMMA PhaseNews ==
  ASSUME TypeInv, [Next]_vars, NEW h \in Handlers, handler'[h].phase = "deliver"
  PROVE  \/ /\ handler[h].phase = "deliver" /\ handler'[h].candidates = handler[h].candidates
            /\ ~ApplyResults(h) /\ ~Deliver(h)
         \/ /\ \A c \in handler'[h].candidates : state[c] \in Live
            /\ state' = state
<1> DEFINE News ==
      \/ /\ handler[h].phase = "deliver" /\ handler'[h].candidates = handler[h].candidates
         /\ ~ApplyResults(h) /\ ~Deliver(h)
      \/ /\ \A c \in handler'[h].candidates : state[c] \in Live
         /\ state' = state
<1> SUFFICES News
  OBVIOUS
<1>0. handler \in [Handlers -> Request]
  BY DEF TypeInv, HandlerTypes
<1>1. CASE handler'[h] = handler[h]
  BY <1>0, <1>1 DEF ApplyResults, Deliver, Request
<1>2. CASE handler'[h] = NoRequest
  BY <1>2 DEF NoRequest
<1>3. CASE RequestArrives(h) \/ ApplyResults(h) \/ Deliver(h) \/ SendExchange(h)
  <2>1. RequestArrives(h) \/ ApplyResults(h) => handler'[h].phase \in {"results", "query"}
    BY <1>0 DEF RequestArrives, ApplyResults, Request
  <2>2. Deliver(h) => handler'[h].phase = "replied"
    BY <1>0 DEF Deliver, Request
  <2>3. SendExchange(h) => handler'[h].phase = "sent"
    BY <1>0 DEF SendExchange, NoRequest
  <2> QED BY <1>3, <2>1, <2>2, <2>3
<1>4. CASE QueryCandidates(h)
  <2> DEFINE live == {c \in Commands : state[c] \in Live}
  <2>1. First(live, CandidateLimit) \subseteq live
    BY DEF First
  <2>2. handler' = [handler EXCEPT ![h].phase = "deliver",
                                   ![h].candidates = First(live, CandidateLimit)]
    BY <1>4 DEF QueryCandidates
  <2>3. handler'[h].candidates = First(live, CandidateLimit)
    BY <1>0, <2>2 DEF Request
  <2>4. state' = state
    BY <1>4 DEF QueryCandidates, cloud
  <2> QED BY <2>1, <2>3, <2>4
<1> HIDE DEF News
<1> QED BY <1>1, <1>2, <1>3, <1>4, RequestSteps

(* One request in service at a time - the bridge waits for the answer      *)
(* until its timeout, and only a request given up can overlap with the     *)
(* next - leaves no stale candidate.                                       *)
THEOREM OneRequestNoStale ==
  ASSUME \A g, h \in Handlers : g = h
  PROVE  Spec => []NoStaleCandidates
<1>1. Init => NoStaleCandidates
  BY DEF Init, NoStaleCandidates, NoRequest
<1>2. ASSUME TypeInv, NoStaleCandidates, [Next]_vars,
             NEW h \in Handlers, handler'[h].phase = "deliver", NEW c \in handler'[h].candidates
      PROVE  state'[c] \in Live \union {"removed"}
  <2>1. CASE (\A d \in handler'[h].candidates : state[d] \in Live) /\ state' = state
    BY <1>2, <2>1
  <2>2. CASE handler[h].phase = "deliver" /\ handler'[h].candidates = handler[h].candidates
             /\ ~ApplyResults(h) /\ ~Deliver(h)
    <3>1. c \in Commands /\ state[c] \in Live \union {"removed"}
      BY <1>2, <2>2 DEF NoStaleCandidates, TypeInv, HandlerTypes, Request
    <3>2. \A g \in Handlers : ~ApplyResults(g) /\ ~Deliver(g)
      BY <2>2
    <3> QED BY <1>2, <3>1, <3>2, StateNews
  <2> QED BY <1>2, <2>1, <2>2, PhaseNews
<1>3. TypeInv /\ NoStaleCandidates /\ [Next]_vars => NoStaleCandidates'
  BY <1>2 DEF NoStaleCandidates
<1> QED BY <1>1, <1>3, TypeInvAlways, PTL DEF Spec

LEMMA FinalStaysStep ==
  ASSUME TypeInv, NoStaleCandidates, [Next]_vars, NEW c \in Commands,
         state[c] \in Outcomes \union {"removed"}
  PROVE  state'[c] \in {state[c], "removed"}
  BY StateNews DEF NoStaleCandidates

(* A final state is final until the command is removed: the delivery of a  *)
(* candidate never calls it back.                                          *)
THEOREM FinalAlwaysStays == Spec /\ []NoStaleCandidates => FinalStays
<1>1. TypeInv /\ NoStaleCandidates /\ [Next]_vars
        => [\A c \in Commands : state[c] \in Outcomes => state'[c] \in {state[c], "removed"}]_vars
  BY FinalStaysStep
<1> QED BY <1>1, TypeInvAlways, PTL DEF Spec, FinalStays

-----------------------------------------------------------------------------
(* The fingerprint lock.                                                   *)

LEMMA NextLock ==
  TypeInv /\ NoStaleCandidates /\ LiveEnrollmentHoldsLock /\ [Next]_vars => LiveEnrollmentHoldsLock'
<1> SUFFICES ASSUME TypeInv, NoStaleCandidates, LiveEnrollmentHoldsLock, [Next]_vars,
                    NEW c \in Enrolls, state'[c] \in Live, expiresAt'[c] > now'
             PROVE  lock' = c
  BY DEF LiveEnrollmentHoldsLock
<1>0. /\ now \in Nat /\ c \in Commands /\ expiresAt \in [Commands -> Nat]
      /\ state \in [Commands -> {"none", "removed"} \union Live \union Outcomes]
      /\ lock \in Enrolls \union {None}
  BY CommandSets DEF TypeInv, CloudTypes
<1>1. CASE UNCHANGED <<state, expiresAt, lock>> /\ now' \in {now, now + 1}
  <2>1. expiresAt[c] > now
    BY <1>0, <1>1
  <2> QED BY <1>0, <1>1, <2>1 DEF LiveEnrollmentHoldsLock
<1>2. ASSUME NEW d \in Commands, QueueUpsert(d) PROVE lock' = c
  <2>1. c # d
    BY <1>2 DEF QueueUpsert
  <2>2. state[c] \in Live /\ expiresAt[c] > now
    BY <1>0, <1>2, <2>1 DEF QueueUpsert
  <2> QED BY <1>2, <2>2 DEF QueueUpsert, LiveEnrollmentHoldsLock
<1>3. ASSUME NEW d \in Commands, QueueEnroll(d) PROVE lock' = c
  <2>1. CASE c # d
    <3>1. state[c] \in Live /\ expiresAt[c] > now
      BY <1>0, <1>3, <2>1 DEF QueueEnroll
    <3>2. lock = c
      BY <3>1 DEF LiveEnrollmentHoldsLock
    <3> QED BY <1>0, <1>3, <3>1, <3>2, CommandSets DEF QueueEnroll, LockIsFree
  <2> QED BY <1>3, <2>1 DEF QueueEnroll
<1>4. ASSUME NEW h \in Handlers, ApplyResults(h) PROVE lock' = c
  <2> DEFINE fresh == {x \in {y \in Reported(h) : state[y] # "removed"} : Unfinished(x)}
  <2>1. state'[c] = IF c \in fresh THEN ReportOf(h, c) ELSE state[c]
    BY <1>0, <1>4 DEF ApplyResults
  <2>2. c \notin fresh
    BY <2>1, ReportIsOutcome
  <2>3. state[c] \in Live /\ expiresAt[c] > now
    BY <1>0, <1>4, <2>1, <2>2 DEF ApplyResults
  <2>4. lock = c
    BY <2>3 DEF LiveEnrollmentHoldsLock
  <2> QED BY <1>4, <2>2, <2>4 DEF ApplyResults
<1>5. ASSUME NEW h \in Handlers, Deliver(h) PROVE lock' = c
  <2>1. state'[c] = IF c \in Expired(h) THEN "failed"
                    ELSE IF c \in First(Deliverable(h), 1) THEN "dispatched" ELSE state[c]
    BY <1>0, <1>5 DEF Deliver
  <2>2. c \notin Expired(h)
    BY <2>1
  <2>3. c \in First(Deliverable(h), 1) =>
          handler[h].phase = "deliver" /\ c \in handler[h].candidates /\ state[c] # "removed"
    BY <1>5 DEF Deliver, First, Deliverable, Candidates
  <2>4. state[c] \in Live /\ expiresAt[c] > now
    BY <1>0, <1>5, <2>1, <2>2, <2>3 DEF Deliver, NoStaleCandidates
  <2>5. lock = c
    BY <2>4 DEF LiveEnrollmentHoldsLock
  <2> QED BY <1>5, <2>2, <2>5 DEF Deliver
<1>6. CASE ReplaceDevice
  BY <1>0, <1>6 DEF ReplaceDevice
<1>7. \/ UNCHANGED <<state, expiresAt, lock>> /\ now' \in {now, now + 1}
      \/ \E d \in Commands : QueueUpsert(d) \/ QueueEnroll(d)
      \/ \E h \in Handlers : ApplyResults(h) \/ Deliver(h)
      \/ ReplaceDevice
  BY DEF Next, BridgeStep, Serve, vars, cloud, RequestArrives, QueryCandidates, RequestEnds,
     SendExchange, ReceiveAnswer, RemovalStops, SkipCommand, WriteReceipt, TooLate, Start,
     UpsertUser, Capture, Assign, Finish, ExchangeFails, DeviceFails, Crash, RemoveUser, Tick
<1> QED BY <1>1, <1>2, <1>3, <1>4, <1>5, <1>6, <1>7

(* At most one enrollment is under way: whatever can still be delivered    *)
(* holds the lock, so that two employees are never asked for their finger  *)
(* at once (queueFingerprintEnrollment and the releases of the lock).      *)
THEOREM LockAlwaysHeld == Spec /\ []NoStaleCandidates => []LiveEnrollmentHoldsLock
<1>1. Init => LiveEnrollmentHoldsLock
  BY CommandSets DEF Init, LiveEnrollmentHoldsLock
<1> QED BY <1>1, NextLock, TypeInvAlways, PTL DEF Spec

-----------------------------------------------------------------------------
(* Receipts and executions.                                                *)

(* A command in hand without a receipt has not been to the terminal; past  *)
(* the fail-safe receipt it has one.                                       *)
InHandInv ==
  /\ pc = "received" /\ receipt[cur] = "none" => executions[cur] = 0
  /\ pc = "prepare" => executions[cur] = 0
  /\ pc \in {"prepare", "upsert", "capture", "assign", "finish"} => receipt[cur] # "none"

(* What a request acknowledges has ended at the cloud. *)
Served(h) == handler[h].phase \in {"query", "deliver", "replied"}
AcknowledgedInv ==
  \A h \in Handlers : Served(h) =>
    \A c \in Reported(h) : state[c] \in Outcomes \union {"removed"}

(* A command delivered again is one whose receipt the bridge keeps. *)
RedeliveredInv ==
  /\ \A h \in awaiting : \A c \in Commands :
       handler[h].phase = "replied" /\ handler[h].command = c /\ executions[c] > 0 =>
         receipt[c] # "none" /\ c \notin Reported(h)
  /\ awaiting # {} => pc = "waiting"

ExecInv ==
  ExecutedIsReported /\ AtMostOneExecution /\ InHandInv /\ AcknowledgedInv /\ RedeliveredInv

LEMMA InitExec == Init => ExecInv
  BY DEF Init, ExecInv, ExecutedIsReported, AtMostOneExecution, InHandInv, AcknowledgedInv,
         RedeliveredInv, Served, NoRequest

LEMMA ExecutionNews ==
  ASSUME [Next]_vars
  PROVE  executions' = executions \/ Start
  BY DEF Next, BridgeStep, Serve, vars, device, QueueUpsert, QueueEnroll, RequestArrives, ApplyResults,
     QueryCandidates, Deliver, RequestEnds, SendExchange, ReceiveAnswer, RemovalStops, SkipCommand,
     WriteReceipt, TooLate, UpsertUser, Capture, Assign, DeviceFails, Finish, ExchangeFails, Crash,
     RemoveUser, ReplaceDevice, Tick

(* A receipt is only removed when a request acknowledges it. *)
LEMMA ReceiptLost ==
  ASSUME TypeInv, [Next]_vars, NEW c \in Commands, receipt[c] # "none", receipt'[c] = "none"
  PROVE  \E h \in Handlers : handler[h].phase = "replied" /\ c \in Reported(h)
<1>0. receipt \in [Commands -> {"none", "interrupted"} \union Outcomes] /\ outcome \in Outcomes
  BY DEF TypeInv, BridgeTypes
<1>1. ASSUME NEW h \in Handlers, ReceiveAnswer(h)
      PROVE  handler[h].phase = "replied" /\ c \in Reported(h)
  BY <1>1 DEF ReceiveAnswer
<1>2. ASSUME NEW h \in Handlers, RemovalStops(h)
      PROVE  handler[h].phase = "replied" /\ c \in Reported(h)
  BY <1>2 DEF RemovalStops
<1>3. CASE WriteReceipt
  BY <1>0, <1>3 DEF WriteReceipt
<1>4. CASE Finish
  BY <1>0, <1>4 DEF Finish
<1>5. \/ receipt' = receipt \/ WriteReceipt \/ Finish
      \/ \E h \in Handlers : ReceiveAnswer(h) \/ RemovalStops(h)
  BY DEF Next, BridgeStep, Serve, vars, bridge, QueueUpsert, QueueEnroll, RequestArrives, ApplyResults,
     QueryCandidates, Deliver, RequestEnds, SendExchange, SkipCommand, TooLate, Start, UpsertUser,
     Capture, Assign, DeviceFails, ExchangeFails, Crash, RemoveUser, ReplaceDevice, Tick
<1> QED BY <1>1, <1>2, <1>3, <1>4, <1>5

LEMMA NextReported ==
  ASSUME TypeInv, NoStaleCandidates, ExecInv, [Next]_vars
  PROVE  ExecutedIsReported'
<1> SUFFICES ASSUME NEW c \in Commands, executions'[c] > 0
             PROVE  receipt'[c] # "none" \/ state'[c] \in Outcomes \union {"removed"}
  BY DEF ExecutedIsReported
<1>1. CASE executions[c] > 0
  <2>1. CASE state[c] \in Outcomes \union {"removed"}
    BY <2>1, FinalStaysStep
  <2>2. CASE receipt[c] # "none" /\ receipt'[c] = "none"
    <3>1. PICK h \in Handlers : handler[h].phase = "replied" /\ c \in Reported(h)
      BY <2>2, ReceiptLost
    <3>2. state[c] \in Outcomes \union {"removed"}
      BY <3>1 DEF ExecInv, AcknowledgedInv, Served
    <3> QED BY <3>2, FinalStaysStep
  <2> QED BY <1>1, <2>1, <2>2 DEF ExecInv, ExecutedIsReported
<1>2. CASE ~(executions[c] > 0)
  <2>1. Start
    BY <1>2, ExecutionNews
  <2>2. cur = c
    BY <1>2, <2>1 DEF Start, TypeInv, DeviceTypes
  <2> QED BY <2>1, <2>2 DEF Start, ExecInv, InHandInv
<1> QED BY <1>1, <1>2

LEMMA NextOnce ==
  ASSUME TypeInv, ExecInv, [Next]_vars
  PROVE  AtMostOneExecution'
<1>1. CASE executions' = executions
  BY <1>1 DEF ExecInv, AtMostOneExecution
<1>2. CASE Start
  <2>1. executions[cur] = 0 /\ executions \in [Commands -> Nat]
    BY <1>2 DEF Start, ExecInv, InHandInv, TypeInv, DeviceTypes
  <2> QED BY <1>2, <2>1 DEF Start, ExecInv, AtMostOneExecution
<1> QED BY <1>1, <1>2, ExecutionNews

LEMMA NextInHand ==
  ASSUME TypeInv, ExecInv, [Next]_vars
  PROVE  InHandInv'
<1>0. receipt \in [Commands -> {"none", "interrupted"} \union Outcomes]
  BY DEF TypeInv, BridgeTypes
<1>1. CASE pc' = "received"
  <2>1. ASSUME NEW h \in Handlers, ReceiveAnswer(h), receipt'[cur'] = "none"
        PROVE  executions'[cur'] = 0
    <3>1. /\ h \in awaiting /\ handler[h].phase = "replied" /\ cur' = handler[h].command
          /\ handler[h].command # None /\ executions' = executions
      BY <1>1, <2>1 DEF ReceiveAnswer, device
    <3>2. cur' \in Commands
      BY <3>1 DEF TypeInv, HandlerTypes, Request
    <3>3. receipt'[cur'] = IF cur' \in Reported(h) THEN "none" ELSE receipt[cur']
      BY <2>1, <3>2 DEF ReceiveAnswer
    <3>4. ~(executions[cur'] > 0)
      BY <2>1, <3>1, <3>2, <3>3 DEF ExecInv, RedeliveredInv
    <3> QED BY <3>1, <3>2, <3>4 DEF TypeInv, DeviceTypes
  <2>2. CASE UNCHANGED <<pc, cur, receipt, executions>>
    BY <1>1, <2>2 DEF ExecInv, InHandInv
  <2>3. UNCHANGED <<pc, cur, receipt, executions>> \/ \E h \in Handlers : ReceiveAnswer(h)
    BY <1>1 DEF Next, BridgeStep, Serve, vars, bridge, device, QueueUpsert, QueueEnroll, RequestArrives,
       ApplyResults, QueryCandidates, Deliver, RequestEnds, SendExchange, RemovalStops, SkipCommand,
       WriteReceipt, TooLate, Start, UpsertUser, Capture, Assign, DeviceFails, Finish, ExchangeFails,
       Crash, RemoveUser, ReplaceDevice, Tick, Conclude, BackToIdle
  <2> QED BY <1>1, <2>1, <2>2, <2>3 DEF InHandInv
<1>2. CASE pc' \in {"prepare", "upsert", "capture", "assign", "finish"}
  <2>1. CASE WriteReceipt
    BY <1>0, <2>1 DEF WriteReceipt, ExecInv, InHandInv, TypeInv, InHand, AtWork, device
  <2>2. CASE /\ cur' = cur /\ receipt' = receipt
             /\ pc \in {"prepare", "upsert", "capture", "assign", "finish"}
             /\ pc' = "prepare" => pc = "prepare" /\ executions' = executions
    BY <1>2, <2>2 DEF ExecInv, InHandInv
  <2>3. \/ WriteReceipt
        \/ /\ cur' = cur /\ receipt' = receipt
           /\ pc \in {"prepare", "upsert", "capture", "assign", "finish"}
           /\ pc' = "prepare" => pc = "prepare" /\ executions' = executions
    BY <1>2 DEF Next, BridgeStep, Serve, vars, bridge, device, QueueUpsert, QueueEnroll, RequestArrives,
       ApplyResults, QueryCandidates, Deliver, RequestEnds, SendExchange, ReceiveAnswer, RemovalStops,
       SkipCommand, TooLate, Start, UpsertUser, Capture, Assign, DeviceFails, Finish, ExchangeFails,
       Crash, RemoveUser, ReplaceDevice, Tick, Conclude, BackToIdle
  <2> QED BY <2>1, <2>2, <2>3
<1>3. CASE pc' \in {"idle", "waiting"}
  BY <1>3 DEF InHandInv
<1>4. pc' \in {"idle", "waiting", "received", "prepare", "upsert", "capture", "assign", "finish"}
  BY NextTypes DEF TypeInv, BridgeTypes
<1> QED BY <1>1, <1>2, <1>3, <1>4

(* A request comes to be served when its results are applied. *)
LEMMA ServedNews ==
  ASSUME TypeInv, [Next]_vars, NEW h \in Handlers, Served(h)'
  PROVE  \/ Served(h) /\ handler'[h].results = handler[h].results
         \/ ApplyResults(h)
<1>0. handler \in [Handlers -> Request]
  BY DEF TypeInv, HandlerTypes
<1> DEFINE News == \/ Served(h) /\ handler'[h].results = handler[h].results
                   \/ ApplyResults(h)
<1> SUFFICES News
  OBVIOUS
<1>1. CASE handler'[h] \in {handler[h], NoRequest}
  BY <1>1 DEF Served, NoRequest
<1>2. RequestArrives(h) => News
  BY <1>0 DEF RequestArrives, Request, Served
<1>3. QueryCandidates(h) => News
  BY <1>0 DEF QueryCandidates, Request, Served
<1>4. Deliver(h) => News
  <2>1. ASSUME Deliver(h) PROVE handler'[h].results = handler[h].results /\ Served(h)
    BY <1>0, <2>1 DEF Deliver, Request, Served
  <2> QED BY <2>1
<1>5. SendExchange(h) => News
  <2>1. SendExchange(h) => handler'[h].phase = "sent"
    BY <1>0 DEF SendExchange, NoRequest
  <2> QED BY <2>1 DEF Served
<1>6. ApplyResults(h) => News
  OBVIOUS
<1> HIDE DEF News
<1> QED BY <1>1, <1>2, <1>3, <1>4, <1>5, <1>6, RequestSteps

LEMMA NextAcknowledged ==
  ASSUME TypeInv, NoStaleCandidates, ExecInv, [Next]_vars
  PROVE  AcknowledgedInv'
<1> SUFFICES ASSUME NEW h \in Handlers, Served(h)', NEW c \in Reported(h)'
             PROVE  state'[c] \in Outcomes \union {"removed"}
  BY DEF AcknowledgedInv
<1>1. CASE Served(h) /\ handler'[h].results = handler[h].results
  <2>1. c \in Reported(h)
    BY <1>1 DEF Reported
  <2>2. c \in Commands /\ state[c] \in Outcomes \union {"removed"}
    BY <1>1, <2>1, ReportIsOutcome DEF ExecInv, AcknowledgedInv
  <2> QED BY <2>2, FinalStaysStep
<1>2. CASE ApplyResults(h)
  <2>1. PICK r \in handler'[h].results : c = r[1]
    BY DEF Reported
  <2>2. handler \in [Handlers -> Request]
    BY DEF TypeInv, HandlerTypes
  <2>3. r \in handler[h].results /\ state[r[1]] # "removed"
    BY <1>2, <2>1, <2>2 DEF ApplyResults, Request
  <2>4. c \in Reported(h) /\ state[c] # "removed"
    BY <2>1, <2>3 DEF Reported
  <2>5. c \in Commands /\ ReportOf(h, c) \in Outcomes
    BY <2>4, ReportIsOutcome
  <2>6. state'[c] = IF Unfinished(c) THEN ReportOf(h, c) ELSE state[c]
    BY <1>2, <2>4, <2>5 DEF ApplyResults
  <2> QED BY <2>5, <2>6 DEF Unfinished
<1> QED BY <1>1, <1>2, ServedNews

(* While the bridge waits for an answer it executes nothing and keeps its  *)
(* receipts, and the request it waits for is answered by a delivery.       *)
LEMMA AwaitingNews ==
  ASSUME TypeInv, RedeliveredInv, [Next]_vars, awaiting' # {}
  PROVE  /\ pc' = "waiting"
         /\ \/ UNCHANGED <<awaiting, receipt, executions>>
            \/ \E h \in Handlers : SendExchange(h)
<1>1. ASSUME NEW h \in Handlers, SendExchange(h) PROVE pc' = "waiting"
  BY <1>1 DEF SendExchange
<1>2. CASE UNCHANGED <<pc, awaiting, receipt, executions>>
  BY <1>2 DEF RedeliveredInv
<1>3. CASE UNCHANGED awaiting /\ pc \in {"received", "prepare", "upsert", "capture", "assign", "finish"}
  BY <1>3 DEF RedeliveredInv
<1>4. \/ \E h \in Handlers : SendExchange(h)
      \/ UNCHANGED <<pc, awaiting, receipt, executions>>
      \/ UNCHANGED awaiting /\ pc \in {"received", "prepare", "upsert", "capture", "assign", "finish"}
  BY DEF Next, BridgeStep, Serve, vars, bridge, device, QueueUpsert, QueueEnroll, RequestArrives,
     ApplyResults, QueryCandidates, Deliver, RequestEnds, ReceiveAnswer, RemovalStops, SkipCommand,
     WriteReceipt, TooLate, Start, UpsertUser, Capture, Assign, DeviceFails, Finish, ExchangeFails,
     Crash, RemoveUser, ReplaceDevice, Tick, BackToIdle
<1> QED BY <1>1, <1>2, <1>3, <1>4

LEMMA NextRedelivered ==
  ASSUME TypeInv, NoStaleCandidates, ExecInv, [Next]_vars
  PROVE  RedeliveredInv'
<1>0. handler \in [Handlers -> Request] /\ awaiting \subseteq Handlers
  BY DEF TypeInv, HandlerTypes, BridgeTypes
<1>1. ASSUME NEW h \in awaiting', NEW c \in Commands, handler'[h].phase = "replied",
             handler'[h].command = c, executions'[c] > 0
      PROVE  receipt'[c] # "none" /\ c \notin Reported(h)'
  <2>1. UNCHANGED <<awaiting, receipt, executions>>
    <3>1. ASSUME NEW g \in Handlers, SendExchange(g) PROVE FALSE
      <4>1. h = g
        BY <3>1 DEF SendExchange
      <4>2. handler'[g].phase = "sent"
        BY <1>0, <3>1 DEF SendExchange, NoRequest
      <4> QED BY <1>1, <4>1, <4>2
    <3> QED BY <3>1, AwaitingNews DEF ExecInv
  <2>2. h \in Handlers /\ h \in awaiting
    BY <1>0, <2>1
  <2>3. CASE handler'[h] = handler[h]
    BY <1>1, <2>1, <2>2, <2>3 DEF ExecInv, RedeliveredInv, Reported
  <2>4. CASE Deliver(h)
    <3> DEFINE chosen == First(Deliverable(h), 1)
               command == IF chosen = {} THEN None ELSE CHOOSE d \in chosen : TRUE
    <3>1. chosen \subseteq handler[h].candidates /\ \A d \in chosen : state[d] # "removed"
      BY DEF First, Deliverable, Candidates
    <3>2. command = None \/ command \in chosen
      OBVIOUS
    <3>3. handler' = [handler EXCEPT ![h].phase = "replied", ![h].candidates = {},
                                     ![h].command = command]
      BY <2>4 DEF Deliver
    <3> HIDE DEF chosen, command
    <3>4. handler'[h].command = command /\ handler'[h].results = handler[h].results
      BY <1>0, <2>2, <3>3 DEF Request
    <3>5. handler[h].phase = "deliver"
      BY <2>4 DEF Deliver
    <3>6. c \in handler[h].candidates /\ state[c] # "removed"
      BY <1>1, <3>1, <3>2, <3>4, CommandSets
    <3>7. state[c] \in Live
      BY <2>2, <3>5, <3>6 DEF NoStaleCandidates
    <3>8. receipt[c] # "none"
      BY <1>1, <2>1, <3>7 DEF ExecInv, ExecutedIsReported
    <3>9. c \notin Reported(h)
      BY <2>2, <3>5, <3>7 DEF ExecInv, AcknowledgedInv, Served
    <3> QED BY <2>1, <3>4, <3>8, <3>9 DEF Reported
  <2>5. handler'[h].phase = "replied" => handler'[h] = handler[h] \/ Deliver(h)
    <3>1. RequestArrives(h) \/ ApplyResults(h) \/ QueryCandidates(h)
            => handler'[h].phase \in {"results", "query", "deliver"}
      BY <1>0, <2>2 DEF RequestArrives, ApplyResults, QueryCandidates, Request
    <3>2. SendExchange(h) => handler'[h].phase = "sent"
      BY <1>0, <2>2 DEF SendExchange, NoRequest
    <3>3. NoRequest.phase = "free"
      BY DEF NoRequest
    <3> QED BY <2>2, <3>1, <3>2, <3>3, RequestSteps
  <2> QED BY <1>1, <2>3, <2>4, <2>5
<1>2. awaiting' # {} => pc' = "waiting"
  BY AwaitingNews DEF ExecInv
<1> QED BY <1>1, <1>2 DEF RedeliveredInv

LEMMA ExecAlways == Spec /\ []NoStaleCandidates => []ExecInv
<1>1. TypeInv /\ NoStaleCandidates /\ ExecInv /\ [Next]_vars => ExecInv'
  BY NextReported, NextOnce, NextInHand, NextAcknowledged, NextRedelivered DEF ExecInv
<1> QED BY <1>1, InitExec, TypeInvAlways, PTL DEF Spec

(* No command is taken to the terminal twice, however often it is          *)
(* delivered, whatever crashes, timeouts and lost answers there are: a     *)
(* receipt is written before the terminal is touched and goes only when    *)
(* the cloud has the end of the command.                                   *)
THEOREM OnceAtMost == Spec /\ []NoStaleCandidates => []AtMostOneExecution
  BY ExecAlways, PTL DEF ExecInv

(* A command that was taken to the terminal has a receipt at the bridge or *)
(* an end at the cloud, at every moment in between: RemoveCommandResults   *)
(* removes what exchangeCommands has stored.                               *)
THEOREM ExecutedAlwaysReported == Spec /\ []NoStaleCandidates => []ExecutedIsReported
  BY ExecAlways, PTL DEF ExecInv

(* So a bridge whose requests do not overlap executes every command once   *)
(* at most, loses none and has one enrollment under way, whatever else     *)
(* fails.                                                                  *)
THEOREM OneRequestAtATime ==
  ASSUME \A g, h \in Handlers : g = h
  PROVE  Spec => /\ []AtMostOneExecution /\ []ExecutedIsReported
                 /\ []LiveEnrollmentHoldsLock /\ FinalStays
  BY OneRequestNoStale, OnceAtMost, ExecutedAlwaysReported, LockAlwaysHeld, FinalAlwaysStays, PTL
=============================================================================
