-------------------------- MODULE OrganizationProofs --------------------------
(***************************************************************************)
(* Proofs about what an organization has and what it has paid for: Billing *)
(* and Tenancy, for any visits, administrators, users, branches, devices,  *)
(* numbers, plans, batch sizes, times and bounds.                          *)
(*                                                                         *)
(* Billing.  Types first, together with what a checkout in service holds   *)
(* (VisitInv: the lock, alone, because a function ends before the lock     *)
(* expires) and what the record says (RecordInv).  ProviderChange reduces  *)
(* the payment, the customer and the administrator to one step,            *)
(* SubscriptionChanges.                                                    *)
(*                                                                         *)
(* SettledRecordFollowsProvider and NotLockedOut follow from two           *)
(* invariants: the events tell what the provider has (EventInv), and the   *)
(* record is no older than any event that was received (FollowsInv).       *)
(*                                                                         *)
(* OneLiveSubscription follows from three more.  The lock gives out the    *)
(* newest URL until its time is over (LockCovers), a payment is known by   *)
(* then or is late (PaidInv), and so, as long as neither it nor an older   *)
(* one is late, no offer but the newest is alive (OneInv).  The step that  *)
(* needs all of them is the beginning of a checkout, AllOverAtAcquire.     *)
(*                                                                         *)
(* Tenancy.  Types first (OrganizationOK), with the fact that nobody is    *)
(* ever removed (PeopleStep) and what a merge has planned.  TenancySteps   *)
(* sorts the actions by what they do to identities and enrollments: other  *)
(* callables write to one device and say so, a merge writes a batch.       *)
(*                                                                         *)
(* StaffInActiveBranches is inductive with the types; WithinPlan needs     *)
(* that what is counted is finite (CountedInv).  MergeIsComplete follows   *)
(* from MergeInv: number by number the target has what it had or what the  *)
(* merge gives it, and the rest is planned.                                *)
(***************************************************************************)
EXTENDS Billing, Tenancy, FiniteSetTheorems, TLAPS

-----------------------------------------------------------------------------
(* Billing.                                                                *)

(* The parts of TypeOK, one for each group of variables that change together. *)
ClockOK ==
  /\ now \in 0..MaxTime
  /\ trialConsumed \in BOOLEAN /\ available \in BOOLEAN /\ crossed \in BOOLEAN
  /\ acts \in 0..MaxActs /\ faults \in 0..MaxFaults
Records == [source : {"none", "dodo", "manual"}, status : Statuses \union {"none"},
            sub : 0..MaxOffers, at : 0..MaxChanges, ends : Nat \union {Forever}]
Locks == [state : {"none", "creating", "ready", "failed"}, url : 0..MaxOffers, expires : Nat]
LockOK == lock \in Locks /\ (lock.url # 0 => lock.url \in DOMAIN offers)
VisitRecords == [pc : {"idle", "provider"}, trial : BOOLEAN, since : Nat]
ActRecords == [pc : {"idle", "update", "write", "replace"}, source : {"none", "dodo", "manual"},
               sub : 0..MaxOffers, status : Statuses \union {"none"}]
Offers == [trial : BOOLEAN, made : Nat]
Events == [sub : DOMAIN offers, status : Statuses, trial : BOOLEAN]
SequencesOK ==
  /\ offers \in Seq(Offers)
  /\ provider \in Seq(Statuses \union {"none"}) /\ Len(provider) = Len(offers)
  /\ sent \in Seq(Events)
  /\ seen \subseteq DOMAIN sent
  /\ late \subseteq DOMAIN offers

LEMMA TypeParts ==
  TypeOK <=> /\ ClockOK /\ record \in Records /\ LockOK
             /\ visit \in [Visits -> VisitRecords] /\ act \in [Admins -> ActRecords]
             /\ SequencesOK
  BY DEF TypeOK, ClockOK, Records, Locks, LockOK, VisitRecords, ActRecords, Offers, Events,
         SequencesOK

(* A checkout that waits for the provider holds the lock, alone.           *)
HoldsLock(v) ==
  /\ lock.state = "creating" /\ lock.url = 0 /\ lock.expires = visit[v].since + LockTime
  /\ visit[v].since <= now /\ now <= visit[v].since + RequestTime
  /\ Len(offers) < MaxOffers
VisitInv ==
  /\ \A v \in Visits : visit[v].pc = "provider" => HoldsLock(v)
  /\ \A v, w \in Visits : visit[v].pc = "provider" /\ visit[w].pc = "provider" => v = w
  /\ Len(offers) <= MaxOffers /\ Len(sent) <= MaxChanges

(* What the record and an administrator's act say of the provider.         *)
RecordInv ==
  /\ record.source = "none" => record = NoRecord
  /\ record.source = "dodo" => record.sub \in DOMAIN offers /\ record.status \in Statuses
  /\ \A a \in Admins : act[a].pc = "update" => act[a].sub \in DOMAIN offers
  /\ \A a \in Admins : act[a].pc \in {"update", "write"} =>
       act[a].status \in Statuses /\ record.source # "none"

Base == TypeOK /\ VisitInv /\ RecordInv

(* The only way the provider changes: the owner pays, the customer or the  *)
(* provider acts, or an administrator has it changed.                      *)
SubscriptionChanges(s, status) ==
  /\ \/ provider[s] \in Live
     \/ provider[s] = "none" /\ status # "cancelled" /\ (LetGo(s, now) => s \in late')
  /\ Changes(s, status)
  /\ UNCHANGED <<now, record, lock, visit, offers, seen, crossed>>

(* Which steps change a variable; every other action leaves it alone.      *)
LEMMA RecordChanges ==
  ASSUME [Next]_vars
  PROVE  \/ UNCHANGED <<record, seen>>
         \/ \E i \in 1..MaxChanges : Deliver(i)
         \/ \E a \in Admins : WriteStatus(a) \/ WriteManual(a)
  BY DEF Next, vars, Tick, Pay, ProviderChanges, ConfigureProduct, Acquire, Publish,
         CheckoutFails, CheckoutDies, StartSetStatus, UpdateProvider, StartManual, ActDies

LEMMA ActChanges ==
  ASSUME [Next]_vars
  PROVE  \/ act' = act
         \/ \E a \in Admins : StartSetStatus(a) \/ UpdateProvider(a) \/ WriteStatus(a)
                              \/ StartManual(a) \/ WriteManual(a) \/ ActDies(a)
  BY DEF Next, vars, Tick, Pay, ProviderChanges, ConfigureProduct, Acquire, Publish,
         CheckoutFails, CheckoutDies, Deliver

LEMMA CheckoutChanges ==
  ASSUME [Next]_vars
  PROVE  \/ UNCHANGED <<lock, visit, offers>>
         \/ \E v \in Visits : Acquire(v) \/ Publish(v) \/ CheckoutFails(v) \/ CheckoutDies(v)
  BY DEF Next, vars, Tick, Pay, ProviderChanges, ConfigureProduct, Deliver, StartSetStatus,
         UpdateProvider, WriteStatus, StartManual, WriteManual, ActDies

LEMMA ClockChanges ==
  ASSUME [Next]_vars
  PROVE  now' = now \/ Tick
  BY DEF Next, vars, Pay, ProviderChanges, ConfigureProduct, Deliver, StartSetStatus, Acquire,
         Publish, CheckoutFails, CheckoutDies,
         UpdateProvider, WriteStatus, StartManual, WriteManual, ActDies

(* What came late stays so. *)
LEMMA LateStep ==
  ASSUME late \subseteq DOMAIN offers, [Next]_vars
  PROVE  late \subseteq late' /\ late' \subseteq DOMAIN offers
<1>1. CASE Tick
  BY <1>1 DEF Tick
<1>2. CASE Pay
  BY <1>2 DEF Pay
<1>3. CASE late' = late
  BY <1>3
<1> QED BY <1>1, <1>2, <1>3
    DEF Next, vars, ProviderChanges, ConfigureProduct, Deliver, StartSetStatus, Acquire,
        Publish, CheckoutFails, CheckoutDies,
        UpdateProvider, WriteStatus, StartManual, WriteManual, ActDies

LEMMA ProviderChange ==
  ASSUME Base, [Next]_vars
  PROVE  \/ UNCHANGED <<provider, sent>>
         \/ \E v \in Visits : Publish(v)
         \/ \E s \in DOMAIN offers, status \in Statuses : SubscriptionChanges(s, status)
<1> DEFINE Claim == \/ UNCHANGED <<provider, sent>>
                    \/ \E v \in Visits : Publish(v)
                    \/ \E s \in DOMAIN offers, status \in Statuses : SubscriptionChanges(s, status)
<1> SUFFICES Claim
  OBVIOUS
<1>0. SequencesOK /\ DOMAIN provider = DOMAIN offers
  <2>1. SequencesOK
    BY TypeParts DEF Base
  <2>2. DOMAIN provider = 1..Len(provider) /\ DOMAIN offers = 1..Len(offers)
    BY <2>1 DEF SequencesOK
  <2> QED BY <2>1, <2>2 DEF SequencesOK
<1>1. CASE Pay
  <2>1. PICK s \in DOMAIN offers, status \in {"pending", "active"} :
          /\ provider[s] = "none" /\ (LetGo(s, now) => s \in late')
          /\ Changes(s, status)
          /\ UNCHANGED <<now, record, lock, visit, offers, seen, crossed>>
    BY <1>1 DEF Pay
  <2>2. SubscriptionChanges(s, status) /\ status \in Statuses
    BY <2>1 DEF SubscriptionChanges, Statuses, Live
  <2> QED BY <2>2
<1>2. CASE ProviderChanges
  <2>1. PICK s \in LiveSubscriptions, status \in Statuses \ {"pending"} :
          /\ Changes(s, status)
          /\ UNCHANGED <<now, record, lock, visit, offers, seen, crossed>>
    BY <1>2 DEF ProviderChanges
  <2>2. SubscriptionChanges(s, status) /\ s \in DOMAIN offers
    BY <2>1, <1>0 DEF SubscriptionChanges, LiveSubscriptions
  <2> QED BY <2>2
<1>3. ASSUME NEW a \in Admins, UpdateProvider(a) PROVE Claim
  <2>1. act[a].sub \in DOMAIN offers /\ act[a].status \in Statuses
    BY <1>3 DEF UpdateProvider, Base, RecordInv
  <2>2. CASE provider[act[a].sub] \in Live /\ provider[act[a].sub] # act[a].status
    <3>1. SubscriptionChanges(act[a].sub, act[a].status)
      BY <2>2, <1>3 DEF UpdateProvider, SubscriptionChanges
    <3> QED BY <3>1, <2>1
  <2>3. CASE ~(provider[act[a].sub] \in Live /\ provider[act[a].sub] # act[a].status)
    BY <2>3, <1>3 DEF UpdateProvider
  <2> QED BY <2>2, <2>3
<1> HIDE DEF Claim
<1>4. \/ Pay \/ ProviderChanges \/ \E a \in Admins : UpdateProvider(a)
      \/ UNCHANGED <<provider, sent>> \/ \E v \in Visits : Publish(v)
  BY DEF Next, vars, Tick, ConfigureProduct, Acquire, CheckoutFails, CheckoutDies, Deliver,
         StartSetStatus, WriteStatus, StartManual, WriteManual, ActDies
<1> QED BY <1>1, <1>2, <1>3, <1>4 DEF Claim
-----------------------------------------------------------------------------
(* Types and what goes with them, one lemma for each group of variables.   *)
LEMMA InitBase == Init => Base
<1> SUFFICES ASSUME Init PROVE Base
  OBVIOUS
<1>1. ClockOK
  <2>1. now \in 0..MaxTime /\ acts \in 0..MaxActs /\ faults \in 0..MaxFaults
    BY TimesAssumption DEF Init
  <2>2. trialConsumed \in BOOLEAN /\ available \in BOOLEAN /\ crossed \in BOOLEAN
    BY DEF Init
  <2> QED BY <2>1, <2>2 DEF ClockOK
<1>2. record \in Records /\ lock \in Locks /\ lock.url = 0
  BY TimesAssumption DEF Init, NoRecord, NoLock, Records, Locks
<1>3. visit \in [Visits -> VisitRecords] /\ act \in [Admins -> ActRecords]
  BY TimesAssumption DEF Init, NoVisit, NoAct, VisitRecords, ActRecords
<1>4. SequencesOK
  BY DEF Init, SequencesOK
<1>5. VisitInv
  BY TimesAssumption DEF Init, VisitInv, NoVisit
<1>6. RecordInv
  BY DEF Init, RecordInv, NoAct, NoRecord
<1> QED BY <1>1, <1>2, <1>3, <1>4, <1>5, <1>6, TypeParts DEF Base, LockOK

LEMMA ClockStep ==
  ASSUME Base, [Next]_vars
  PROVE  ClockOK'
<1>1. ClockOK
  BY TypeParts DEF Base
<1>2. now' \in 0..MaxTime
  BY <1>1, ClockChanges, TimesAssumption DEF ClockOK, Tick
<1>3. faults' \in 0..MaxFaults
  <2>1. faults' = faults \/ (faults < MaxFaults /\ faults' = faults + 1)
    BY DEF Next, vars, Tick, Pay, ProviderChanges, ConfigureProduct, Acquire, Publish, Deliver,
           CheckoutFails, CheckoutDies, StartSetStatus, UpdateProvider, WriteStatus,
           StartManual, WriteManual, ActDies
  <2> QED BY <2>1, <1>1, TimesAssumption DEF ClockOK
<1>4. acts' \in 0..MaxActs
  <2>1. acts' = acts \/ (acts < MaxActs /\ acts' = acts + 1)
    BY DEF Next, vars, Tick, Pay, ProviderChanges, ConfigureProduct, Acquire, Publish, Deliver,
           CheckoutFails, CheckoutDies, StartSetStatus, UpdateProvider, WriteStatus, Begins,
           StartManual, WriteManual, ActDies
  <2> QED BY <2>1, <1>1, TimesAssumption DEF ClockOK
<1>5. trialConsumed' \in BOOLEAN
  BY <1>1 DEF ClockOK, Next, vars, Tick, Pay, ProviderChanges, ConfigureProduct, Acquire,
           Publish, Deliver, CheckoutFails, CheckoutDies, StartSetStatus, UpdateProvider,
           WriteStatus, StartManual, WriteManual, ActDies
<1>6. available' \in BOOLEAN
  BY <1>1 DEF ClockOK, Next, vars, Tick, Pay, ProviderChanges, ConfigureProduct, Acquire,
           Publish, Deliver, CheckoutFails, CheckoutDies, StartSetStatus, UpdateProvider,
           WriteStatus, StartManual, WriteManual, ActDies
<1>7. crossed' \in BOOLEAN
  BY <1>1 DEF ClockOK, Next, vars, Tick, Pay, ProviderChanges, ConfigureProduct, Acquire,
           Publish, Deliver, CheckoutFails, CheckoutDies, StartSetStatus, UpdateProvider,
           WriteStatus, StartManual, WriteManual, ActDies
<1> QED BY <1>2, <1>3, <1>4, <1>5, <1>6, <1>7 DEF ClockOK

LEMMA SequencesStep ==
  ASSUME Base, [Next]_vars
  PROVE  /\ SequencesOK'
         /\ Len(offers)' <= MaxOffers /\ Len(sent)' <= MaxChanges
         /\ DOMAIN offers \subseteq DOMAIN offers' /\ DOMAIN sent \subseteq DOMAIN sent'
         /\ \A s \in DOMAIN offers : offers'[s] = offers[s]
         /\ \A i \in DOMAIN sent : sent'[i] = sent[i]
<1>0. /\ SequencesOK /\ ClockOK /\ visit \in [Visits -> VisitRecords]
      /\ MaxOffers \in Nat /\ MaxChanges \in Nat
      /\ Len(offers) <= MaxOffers /\ Len(sent) <= MaxChanges
  BY TypeParts, TimesAssumption DEF Base, VisitInv
<1>l. late' \subseteq DOMAIN offers
  BY <1>0, LateStep DEF SequencesOK
<1> DEFINE Claim == /\ SequencesOK'
                    /\ Len(offers)' <= MaxOffers /\ Len(sent)' <= MaxChanges
                    /\ DOMAIN offers \subseteq DOMAIN offers' /\ DOMAIN sent \subseteq DOMAIN sent'
                    /\ \A s \in DOMAIN offers : offers'[s] = offers[s]
                    /\ \A i \in DOMAIN sent : sent'[i] = sent[i]
<1> SUFFICES Claim
  OBVIOUS
<1>1. ASSUME NEW v \in Visits, Publish(v) PROVE Claim
  <2>1. PICK o \in Offers : offers' = Append(offers, o)
    <3>1. [trial |-> visit[v].trial, made |-> now] \in Offers
      BY <1>0, TimesAssumption DEF Offers, VisitRecords, ClockOK
    <3> QED BY <3>1, <1>1 DEF Publish
  <2>2. /\ offers' \in Seq(Offers) /\ Len(offers') = Len(offers) + 1
        /\ DOMAIN offers \subseteq DOMAIN offers'
        /\ \A s \in DOMAIN offers : offers'[s] = offers[s]
    BY <2>1, <1>0 DEF SequencesOK
  <2>3. provider' \in Seq(Statuses \union {"none"}) /\ Len(provider') = Len(provider) + 1
    BY <1>1, <1>0 DEF SequencesOK, Publish
  <2>4. sent' = sent /\ seen' = seen /\ Len(offers) < MaxOffers
    BY <1>1 DEF Publish, Base, VisitInv, HoldsLock
  <2>5. Events \subseteq Events'
    BY <2>2 DEF Events
  <2>6. sent' \in Seq(Events')
    BY <2>4, <2>5, <1>0 DEF SequencesOK
  <2>7. late' \subseteq DOMAIN offers'
    BY <2>2, <1>l
  <2> QED BY <2>2, <2>3, <2>4, <2>6, <2>7, <1>0 DEF SequencesOK, Offers
<1>2. ASSUME NEW s \in DOMAIN offers, NEW status \in Statuses, SubscriptionChanges(s, status)
      PROVE  Claim
  <2>1. offers' = offers /\ seen' = seen /\ Len(sent) < MaxChanges
    BY <1>2 DEF SubscriptionChanges, Changes
  <2>2. PICK e \in Events : sent' = Append(sent, e)
    <3>1. offers[s].trial \in BOOLEAN
      <4>1. offers[s] \in Offers
        BY <1>0 DEF SequencesOK
      <4> QED BY <4>1 DEF Offers
    <3>2. [sub |-> s, status |-> status, trial |-> offers[s].trial] \in Events
      BY <3>1 DEF Events
    <3> QED BY <3>2, <1>2 DEF SubscriptionChanges, Changes
  <2>3. /\ sent' \in Seq(Events) /\ Len(sent') = Len(sent) + 1
        /\ DOMAIN sent \subseteq DOMAIN sent'
        /\ \A i \in DOMAIN sent : sent'[i] = sent[i]
    BY <2>2, <1>0 DEF SequencesOK
  <2>4. provider' \in Seq(Statuses \union {"none"}) /\ Len(provider') = Len(provider)
    <3>1. provider' = [provider EXCEPT ![s] = status]
      BY <1>2 DEF SubscriptionChanges, Changes
    <3> QED BY <3>1, <1>0 DEF SequencesOK
  <2>5. Events' = Events
    BY <2>1 DEF Events
  <2> QED BY <2>1, <2>3, <2>4, <2>5, <1>0, <1>l DEF SequencesOK, Offers
<1>3. CASE UNCHANGED <<provider, sent, offers>>
  <2>1. seen' = seen \/ \E i \in DOMAIN sent : seen' = seen \union {i}
    BY RecordChanges DEF Deliver, WriteStatus, WriteManual
  <2>2. Events' = Events /\ Offers' = Offers
    BY <1>3 DEF Events, Offers
  <2> QED BY <1>3, <2>1, <2>2, <1>0, <1>l DEF SequencesOK
<1> HIDE DEF Claim
<1>4. offers' = offers \/ \E v \in Visits : Publish(v)
  BY CheckoutChanges DEF Acquire, CheckoutFails, CheckoutDies
<1> QED BY <1>1, <1>2, <1>3, <1>4, ProviderChange

LEMMA EndIsTime ==
  ASSUME now \in Nat, NEW term \in Terms
  PROVE  EndOf(term) \in Nat \union {Forever}
BY TimesAssumption DEF EndOf

LEMMA RecordStep ==
  ASSUME Base, [Next]_vars
  PROVE  record' \in Records
<1>0. /\ record \in Records /\ ClockOK /\ act \in [Admins -> ActRecords] /\ SequencesOK
      /\ Len(offers) <= MaxOffers
  BY TypeParts DEF Base, VisitInv
<1>1. ASSUME NEW i \in 1..MaxChanges, Deliver(i) PROVE record' \in Records
  <2>1. CASE record' = record
    BY <2>1, <1>0
  <2>2. ASSUME NEW term \in Terms,
               record' = [source |-> "dodo", status |-> sent[i].status, sub |-> sent[i].sub,
                          at |-> i, ends |-> EndOf(term)]
        PROVE  record' \in Records
    <3>1. sent[i] \in Events
      BY <1>1, <1>0 DEF Deliver, SequencesOK
    <3>2. sent[i].status \in Statuses /\ sent[i].sub \in DOMAIN offers
      BY <3>1 DEF Events
    <3>3. sent[i].sub \in 0..MaxOffers
      BY <3>2, <1>0, TimesAssumption DEF SequencesOK
    <3>4. i \in 0..MaxChanges
      BY TimesAssumption
    <3>5. EndOf(term) \in Nat \union {Forever}
      BY <1>0, EndIsTime, TimesAssumption DEF ClockOK
    <3> QED BY <2>2, <3>2, <3>3, <3>4, <3>5 DEF Records
  <2> QED BY <1>1, <2>1, <2>2 DEF Deliver
<1>2. ASSUME NEW a \in Admins, WriteStatus(a) PROVE record' \in Records
  <2>1. act[a].status \in Statuses \union {"none"}
    BY <1>0 DEF ActRecords
  <2>2. record' = [record EXCEPT !.status = act[a].status]
    BY <1>2 DEF WriteStatus
  <2> QED BY <2>1, <2>2, <1>0 DEF Records
<1>3. ASSUME NEW a \in Admins, WriteManual(a) PROVE record' \in Records
  <2>1. PICK term \in Terms :
          record' = [source |-> "manual", status |-> "active", sub |-> 0, at |-> 0,
                     ends |-> EndOf(term)]
    BY <1>3 DEF WriteManual
  <2>2. EndOf(term) \in Nat \union {Forever}
    BY <1>0, EndIsTime, TimesAssumption DEF ClockOK
  <2>3. "active" \in Statuses /\ 0 \in 0..MaxOffers /\ 0 \in 0..MaxChanges
    BY TimesAssumption DEF Statuses, Live
  <2> HIDE DEF Statuses
  <2> QED BY <2>1, <2>2, <2>3 DEF Records
<1> QED BY <1>0, <1>1, <1>2, <1>3, RecordChanges

LEMMA ActStep ==
  ASSUME Base, [Next]_vars
  PROVE  act' \in [Admins -> ActRecords]
<1>0. record \in Records /\ act \in [Admins -> ActRecords] /\ MaxOffers \in Nat
  BY TypeParts, TimesAssumption DEF Base
<1>1. ASSUME NEW a \in Admins, StartSetStatus(a) PROVE act' \in [Admins -> ActRecords]
  <2>1. PICK status \in {"paused", "active", "cancelled"} :
          Begins(a, [pc |-> IF record.source = "dodo" THEN "update" ELSE "write",
                     source |-> record.source, sub |-> record.sub, status |-> status])
    BY <1>1 DEF StartSetStatus
  <2>2. record.source \in {"none", "dodo", "manual"} /\ record.sub \in 0..MaxOffers
    BY <1>0 DEF Records
  <2>3. status \in Statuses \union {"none"}
    BY DEF Statuses, Live
  <2>4. [pc |-> IF record.source = "dodo" THEN "update" ELSE "write",
         source |-> record.source, sub |-> record.sub, status |-> status] \in ActRecords
    BY <2>2, <2>3 DEF ActRecords
  <2> QED BY <2>1, <2>4, <1>0 DEF Begins
<1>2. ASSUME NEW a \in Admins, act' = [act EXCEPT ![a] = NoAct]
      PROVE  act' \in [Admins -> ActRecords]
  <2>1. NoAct \in ActRecords
    BY <1>0 DEF NoAct, ActRecords
  <2> QED BY <2>1, <1>2, <1>0
<1>3. ASSUME NEW a \in Admins, act' = [act EXCEPT ![a].pc = "write"]
      PROVE  act' \in [Admins -> ActRecords]
  <2>1. [act[a] EXCEPT !.pc = "write"] \in ActRecords
    BY <1>0 DEF ActRecords
  <2> QED BY <2>1, <1>3, <1>0
<1>4. ASSUME NEW a \in Admins, StartManual(a) PROVE act' \in [Admins -> ActRecords]
  <2>1. [NoAct EXCEPT !.pc = "replace"] \in ActRecords
    BY <1>0 DEF NoAct, ActRecords
  <2> QED BY <2>1, <1>4, <1>0 DEF StartManual, Begins
<1>5. ASSUME NEW a \in Admins, UpdateProvider(a) PROVE act' \in [Admins -> ActRecords]
  BY <1>5, <1>2, <1>3 DEF UpdateProvider
<1>6. ASSUME NEW a \in Admins, WriteStatus(a) \/ WriteManual(a) \/ ActDies(a)
      PROVE  act' \in [Admins -> ActRecords]
  BY <1>6, <1>2 DEF WriteStatus, WriteManual, ActDies
<1> QED BY <1>0, <1>1, <1>4, <1>5, <1>6, ActChanges

LEMMA CheckoutStep ==
  ASSUME Base, [Next]_vars
  PROVE  LockOK' /\ visit' \in [Visits -> VisitRecords]
<1>0. /\ LockOK /\ ClockOK /\ visit \in [Visits -> VisitRecords] /\ SequencesOK
      /\ MaxOffers \in Nat /\ now \in Nat
  BY TypeParts, TimesAssumption DEF Base, ClockOK
<1>a. NoVisit \in VisitRecords
  BY DEF NoVisit, VisitRecords
<1> DEFINE Claim == LockOK' /\ visit' \in [Visits -> VisitRecords]
<1> SUFFICES Claim
  OBVIOUS
<1>1. ASSUME NEW v \in Visits, Acquire(v) PROVE Claim
  <2>1. [pc |-> "provider", trial |-> ~trialConsumed, since |-> now] \in VisitRecords
    <3>1. (~trialConsumed) \in BOOLEAN
      BY <1>0 DEF ClockOK
    <3> QED BY <3>1, <1>0 DEF VisitRecords
  <2>2. visit' \in [Visits -> VisitRecords]
    BY <2>1, <1>1, <1>0 DEF Acquire
  <2>3. lock' \in Locks /\ lock'.url = 0
    BY <1>1, <1>0, TimesAssumption DEF Acquire, Locks
  <2> QED BY <2>2, <2>3 DEF LockOK, Locks
<1>2. ASSUME NEW v \in Visits, Publish(v) PROVE Claim
  <2>1. visit' \in [Visits -> VisitRecords]
    BY <1>a, <1>2, <1>0 DEF Publish
  <2>2. Len(offers) + 1 \in DOMAIN offers' /\ Len(offers) + 1 \in 0..MaxOffers
    <3>1. Len(offers) < MaxOffers /\ Len(offers) \in Nat
      BY <1>2, <1>0 DEF Publish, Base, VisitInv, HoldsLock, SequencesOK
    <3>2. \E o : offers' = Append(offers, o)
      BY <1>2 DEF Publish
    <3> QED BY <3>1, <3>2, <1>0 DEF SequencesOK
  <2>3. lock' = [state |-> "ready", url |-> Len(offers) + 1, expires |-> now + UrlTime]
    BY <1>2 DEF Publish
  <2>4. lock' \in Locks /\ lock'.url \in DOMAIN offers'
    BY <2>2, <2>3, <1>0, TimesAssumption DEF Locks
  <2> QED BY <2>1, <2>4 DEF LockOK, Locks
<1>3. ASSUME NEW v \in Visits, CheckoutFails(v) PROVE Claim
  <2>1. visit' \in [Visits -> VisitRecords] /\ offers' = offers
    BY <1>a, <1>3, <1>0 DEF CheckoutFails
  <2>2. lock' = [lock EXCEPT !.state = "failed", !.expires = now]
    BY <1>3 DEF CheckoutFails
  <2>3. lock' \in Locks /\ lock'.url = lock.url
    BY <2>2, <1>0 DEF Locks, LockOK
  <2> QED BY <2>1, <2>3, <1>0 DEF LockOK, Locks
<1>4. ASSUME NEW v \in Visits, CheckoutDies(v) PROVE Claim
  <2>1. visit' \in [Visits -> VisitRecords] /\ offers' = offers /\ lock' = lock
    BY <1>a, <1>4, <1>0 DEF CheckoutDies
  <2> QED BY <2>1, <1>0 DEF LockOK, Locks
<1>5. CASE UNCHANGED <<lock, visit, offers>>
  BY <1>5, <1>0 DEF LockOK, Locks
<1> HIDE DEF Claim
<1> QED BY <1>1, <1>2, <1>3, <1>4, <1>5, CheckoutChanges

LEMMA VisitStep ==
  ASSUME Base, [Next]_vars
  PROVE  VisitInv'
<1>0. /\ LockOK /\ ClockOK /\ visit \in [Visits -> VisitRecords] /\ SequencesOK
      /\ MaxOffers \in Nat /\ now \in Nat /\ VisitInv
      /\ LockTime \in Nat /\ RequestTime \in Nat /\ RequestTime < LockTime
      /\ Len(offers)' <= MaxOffers /\ Len(sent)' <= MaxChanges
  BY TypeParts, SequencesStep, TimesAssumption DEF Base, ClockOK
<1>a. \A v \in Visits : visit[v].pc = "provider" => HoldsLock(v)
  BY <1>0 DEF VisitInv
<1>b. \A v, w \in Visits : visit[v].pc = "provider" /\ visit[w].pc = "provider" => v = w
  BY <1>0 DEF VisitInv
<1>c. \A v \in Visits : visit[v].since \in Nat
  BY <1>0 DEF VisitRecords
<1> DEFINE Claim == /\ \A w \in Visits : visit'[w].pc = "provider" => HoldsLock(w)'
                    /\ \A w, u \in Visits : visit'[w].pc = "provider" /\ visit'[u].pc = "provider"
                         => w = u
<1> SUFFICES Claim
  BY <1>0 DEF VisitInv
<1>1. ASSUME NEW v \in Visits, Acquire(v) PROVE Claim
  <2>1. \A w \in Visits : visit[w].pc # "provider"
    <3>1. SUFFICES ASSUME NEW w \in Visits, visit[w].pc = "provider" PROVE FALSE
      OBVIOUS
    <3>2. lock.expires > now
      BY <3>1, <1>a, <1>c, <1>0 DEF HoldsLock
    <3> QED BY <3>1, <3>2, <1>a, <1>1 DEF Acquire, LockIsFree, HoldsLock
  <2>2. \A w \in Visits : w # v => visit'[w] = visit[w]
    BY <1>1, <1>0 DEF Acquire
  <2>3. visit'[v].since = now /\ now' = now /\ offers' = offers /\ Len(offers) < MaxOffers
    BY <1>1, <1>0 DEF Acquire
  <2>4. lock'.state = "creating" /\ lock'.url = 0 /\ lock'.expires = now + LockTime
    BY <1>1 DEF Acquire
  <2>5. HoldsLock(v)'
    BY <2>3, <2>4, <1>0 DEF HoldsLock
  <2> QED BY <2>1, <2>2, <2>5
<1>2. ASSUME NEW v \in Visits, visit[v].pc = "provider", visit' = [visit EXCEPT ![v] = NoVisit]
      PROVE  Claim
  <2>1. \A w \in Visits : visit'[w].pc # "provider"
    <3>1. \A w \in Visits : w # v => visit'[w] = visit[w]
      BY <1>2, <1>0
    <3>2. visit'[v].pc = "idle"
      BY <1>2, <1>0 DEF NoVisit
    <3> QED BY <3>1, <3>2, <1>2, <1>b
  <2> QED BY <2>1
<1>3. CASE UNCHANGED <<lock, visit, offers>>
  <2>1. \A w \in Visits : visit'[w].pc = "provider" => HoldsLock(w)'
    <3>1. SUFFICES ASSUME NEW w \in Visits, visit[w].pc = "provider" PROVE HoldsLock(w)'
      BY <1>3
    <3>2. CASE now' = now
      BY <3>2, <3>1, <1>3, <1>a DEF HoldsLock
    <3>3. CASE Tick
      <4>1. now < visit[w].since + RequestTime /\ now' = now + 1
        BY <3>3, <3>1 DEF Tick
      <4> QED BY <4>1, <3>1, <1>3, <1>a, <1>c, <1>0 DEF HoldsLock
    <3> QED BY <3>2, <3>3, ClockChanges
  <2> QED BY <2>1, <1>b, <1>3
<1>4. \/ UNCHANGED <<lock, visit, offers>>
      \/ \E v \in Visits : Acquire(v)
      \/ \E v \in Visits : visit[v].pc = "provider" /\ visit' = [visit EXCEPT ![v] = NoVisit]
  BY CheckoutChanges DEF Publish, CheckoutFails, CheckoutDies
<1> HIDE DEF Claim
<1> QED BY <1>1, <1>2, <1>3, <1>4

LEMMA RecordInvStep ==
  ASSUME Base, [Next]_vars
  PROVE  RecordInv'
<1>0. /\ record \in Records /\ act \in [Admins -> ActRecords] /\ SequencesOK /\ RecordInv
      /\ DOMAIN offers \subseteq DOMAIN offers'
  BY TypeParts, SequencesStep DEF Base
<1>a. record.source = "none" => record = NoRecord
  BY <1>0 DEF RecordInv
<1>b. record.source = "dodo" => record.sub \in DOMAIN offers /\ record.status \in Statuses
  BY <1>0 DEF RecordInv
<1>c. \A a \in Admins : act[a].pc = "update" => act[a].sub \in DOMAIN offers
  BY <1>0 DEF RecordInv
<1>d. \A a \in Admins : act[a].pc \in {"update", "write"} =>
         act[a].status \in Statuses /\ record.source # "none"
  BY <1>0 DEF RecordInv
<1> DEFINE Good == /\ record'.source = "none" => record' = NoRecord /\ record' = record
                   /\ record'.source = "dodo" =>
                        record'.sub \in DOMAIN offers' /\ record'.status \in Statuses
<1>1. Good
  <2>1. ASSUME NEW i \in 1..MaxChanges, Deliver(i) PROVE Good
    <3>1. CASE record' = record
      BY <3>1, <1>a, <1>b, <1>0
    <3>2. ASSUME NEW term \in Terms,
                 record' = [source |-> "dodo", status |-> sent[i].status, sub |-> sent[i].sub,
                            at |-> i, ends |-> EndOf(term)]
          PROVE  Good
      <4>1. sent[i] \in Events
        BY <2>1, <1>0 DEF Deliver, SequencesOK
      <4> QED BY <3>2, <4>1, <1>0 DEF Events
    <3> QED BY <2>1, <3>1, <3>2 DEF Deliver
  <2>2. ASSUME NEW a \in Admins, WriteStatus(a) PROVE Good
    <3>1. act[a].status \in Statuses /\ record.source # "none"
      BY <2>2, <1>d DEF WriteStatus
    <3>2. /\ record'.source = record.source /\ record'.sub = record.sub
          /\ record'.status = act[a].status
      BY <2>2, <1>0 DEF WriteStatus, Records
    <3> QED BY <3>1, <3>2, <1>b, <1>0
  <2>3. ASSUME NEW a \in Admins, WriteManual(a) PROVE Good
    <3>1. record'.source = "manual"
      BY <2>3 DEF WriteManual
    <3> QED BY <3>1
  <2>4. CASE record' = record
    BY <2>4, <1>a, <1>b, <1>0
  <2> HIDE DEF Good
  <2> QED BY <2>1, <2>2, <2>3, <2>4, RecordChanges
<1>2. record.source # "none" => record'.source # "none"
  BY <1>1 
<1> DEFINE Able(a) == /\ act[a].pc = "update" => act[a].sub \in DOMAIN offers
                      /\ act[a].pc \in {"update", "write"} =>
                           act[a].status \in Statuses /\ record.source # "none"
<1>3. \A a \in Admins : Able(a)
  BY <1>c, <1>d
<1>4. ASSUME NEW a \in Admins PROVE Able(a)'
  <2>1. ASSUME act'[a] = act[a] PROVE Able(a)'
    BY <2>1, <1>2, <1>3, <1>0
  <2>2. ASSUME NEW b \in Admins, StartSetStatus(b) PROVE Able(a)'
    <3>1. PICK status \in {"paused", "active", "cancelled"} :
            /\ record.source # "none" /\ record' = record
            /\ act' = [act EXCEPT ![b] =
                        [pc |-> IF record.source = "dodo" THEN "update" ELSE "write",
                         source |-> record.source, sub |-> record.sub, status |-> status]]
      BY <2>2 DEF StartSetStatus, Begins
    <3>2. status \in Statuses
      BY DEF Statuses, Live
    <3>3. CASE a = b
      <4>1. /\ act'[a].pc = (IF record.source = "dodo" THEN "update" ELSE "write")
            /\ act'[a].sub = record.sub /\ act'[a].status = status
        BY <3>1, <3>3, <1>0
      <4> QED BY <4>1, <3>1, <3>2, <1>b, <1>0
    <3>4. CASE a # b
      BY <3>4, <3>1, <2>1, <1>0
    <3> QED BY <3>3, <3>4
  <2>3. ASSUME NEW b \in Admins, act' = [act EXCEPT ![b] = NoAct] PROVE Able(a)'
    <3>1. CASE a = b
      <4>1. act'[a].pc = "idle"
        BY <3>1, <2>3, <1>0 DEF NoAct
      <4> QED BY <4>1
    <3>2. CASE a # b
      BY <3>2, <2>3, <2>1, <1>0
    <3> QED BY <3>1, <3>2
  <2>4. ASSUME NEW b \in Admins, act[b].pc = "update", act' = [act EXCEPT ![b].pc = "write"]
        PROVE  Able(a)'
    <3>1. CASE a = b
      <4>1. act'[a].pc = "write" /\ act'[a].status = act[a].status
        BY <3>1, <2>4, <1>0 DEF ActRecords
      <4> QED BY <4>1, <3>1, <2>4, <1>2, <1>3
    <3>2. CASE a # b
      BY <3>2, <2>4, <2>1, <1>0
    <3> QED BY <3>1, <3>2
  <2>5. ASSUME NEW b \in Admins, StartManual(b) PROVE Able(a)'
    <3>1. act' = [act EXCEPT ![b] = [NoAct EXCEPT !.pc = "replace"]]
      BY <2>5 DEF StartManual, Begins
    <3>2. CASE a = b
      <4>1. act'[a] = [NoAct EXCEPT !.pc = "replace"]
        BY <3>1, <3>2, <1>0
      <4>2. act'[a].pc = "replace"
        BY <4>1 DEF NoAct
      <4> QED BY <4>2
    <3>3. CASE a # b
      BY <3>3, <3>1, <2>1, <1>0
    <3> QED BY <3>2, <3>3
  <2>6. CASE act' = act
    BY <2>6, <2>1
  <2> HIDE DEF Able
  <2> QED BY <2>2, <2>3, <2>4, <2>5, <2>6, ActChanges
       DEF UpdateProvider, WriteStatus, WriteManual, ActDies
<1> QED BY <1>1, <1>4 DEF RecordInv

LEMMA BaseStep == Base /\ [Next]_vars => Base'
<1> SUFFICES ASSUME Base, [Next]_vars PROVE Base'
  OBVIOUS
<1>1. TypeOK'
  <2>1. ClockOK' /\ (record \in Records)' /\ LockOK' /\ (visit \in [Visits -> VisitRecords])'
        /\ (act \in [Admins -> ActRecords])' /\ SequencesOK'
    BY ClockStep, RecordStep, CheckoutStep, ActStep, SequencesStep DEF Records, VisitRecords, ActRecords
  <2> QED BY <2>1, TypeParts, PTL
<1> QED BY <1>1, VisitStep, RecordInvStep DEF Base

(* The documents, offers, provider and events keep their types (TypeOK).   *)
THEOREM BillingTypes == Spec => []TypeOK
<1>1. Spec => []Base
  BY InitBase, BaseStep, PTL DEF Spec
<1>2. Base => TypeOK
  BY DEF Base
<1> QED BY <1>1, <1>2, PTL

-----------------------------------------------------------------------------
LEMMA CrossedStays ==
  ASSUME [Next]_vars, ~crossed'
  PROVE  ~crossed
  BY DEF Next, vars, Tick, Pay, ProviderChanges, ConfigureProduct, Acquire, Publish, Deliver,
         CheckoutFails, CheckoutDies, StartSetStatus, UpdateProvider, WriteStatus,
         StartManual, WriteManual, ActDies

LEMMA Shapes ==
  ASSUME Base
  PROVE  /\ Len(offers) \in Nat /\ DOMAIN offers = 1..Len(offers) /\ DOMAIN provider = DOMAIN offers
         /\ Len(sent) \in Nat /\ DOMAIN sent = 1..Len(sent) /\ seen \subseteq DOMAIN sent
         /\ \A s \in DOMAIN offers : offers[s].made \in Nat /\ provider[s] \in Statuses \union {"none"}
         /\ \A i \in DOMAIN sent : sent[i].sub \in DOMAIN offers /\ sent[i].status \in Statuses
         /\ now \in Nat /\ record.at \in Nat
<1>1. SequencesOK /\ ClockOK /\ record \in Records /\ MaxTime \in Nat
  BY TypeParts, TimesAssumption DEF Base
<1>2. ASSUME NEW s \in DOMAIN offers
      PROVE  offers[s].made \in Nat /\ provider[s] \in Statuses \union {"none"}
  <2>1. offers[s] \in Offers
    BY <1>1 DEF SequencesOK
  <2>2. provider[s] \in Statuses \union {"none"}
    BY <1>1 DEF SequencesOK
  <2> QED BY <2>1, <2>2 DEF Offers
<1>3. ASSUME NEW i \in DOMAIN sent
      PROVE  sent[i].sub \in DOMAIN offers /\ sent[i].status \in Statuses
  <2>1. sent[i] \in Events
    BY <1>1 DEF SequencesOK
  <2> QED BY <2>1 DEF Events
<1>4. now \in Nat /\ record.at \in Nat
  BY <1>1, TimesAssumption DEF ClockOK, Records
<1>5. /\ Len(offers) \in Nat /\ DOMAIN offers = 1..Len(offers) /\ DOMAIN provider = DOMAIN offers
      /\ Len(sent) \in Nat /\ DOMAIN sent = 1..Len(sent) /\ seen \subseteq DOMAIN sent
  BY <1>1 DEF SequencesOK
<1> QED BY <1>2, <1>3, <1>4, <1>5

LEMMA NewOffer ==
  ASSUME Base, NEW v \in Visits, Publish(v)
  PROVE  /\ Len(offers)' = Len(offers) + 1 /\ DOMAIN offers' = 1..Len(offers) + 1
         /\ offers'[Len(offers) + 1].made = now /\ provider'[Len(offers) + 1] = "none"
         /\ \A s \in DOMAIN offers : provider'[s] = provider[s]
         /\ sent' = sent
<1>1. SequencesOK
  BY TypeParts DEF Base
<1>2. PICK o : offers' = Append(offers, o) /\ o.made = now
  BY DEF Publish
<1>3. provider' = Append(provider, "none") /\ sent' = sent
  BY DEF Publish
<1> QED BY <1>1, <1>2, <1>3 DEF SequencesOK

LEMMA NewEvent ==
  ASSUME Base, NEW s \in DOMAIN offers, NEW status \in Statuses, SubscriptionChanges(s, status)
  PROVE  /\ Len(sent)' = Len(sent) + 1 /\ DOMAIN sent' = 1..Len(sent) + 1
         /\ sent'[Len(sent) + 1].sub = s /\ sent'[Len(sent) + 1].status = status
         /\ \A i \in DOMAIN sent : sent'[i] = sent[i]
         /\ provider'[s] = status
         /\ \A t \in DOMAIN offers : t # s => provider'[t] = provider[t]
         /\ UNCHANGED <<now, offers, record, seen, visit, lock, crossed>>
<1>1. SequencesOK /\ DOMAIN provider = DOMAIN offers
  BY TypeParts, Shapes DEF Base
<1>2. PICK e : sent' = Append(sent, e) /\ e.sub = s /\ e.status = status
  BY DEF SubscriptionChanges, Changes
<1>3. provider' = [provider EXCEPT ![s] = status]
  BY DEF SubscriptionChanges, Changes
<1>4. provider'[s] = status /\ \A t \in DOMAIN offers : t # s => provider'[t] = provider[t]
  BY <1>1, <1>3
<1>5. /\ Len(sent)' = Len(sent) + 1 /\ DOMAIN sent' = 1..Len(sent) + 1
      /\ sent'[Len(sent) + 1] = e
      /\ \A i \in DOMAIN sent : sent'[i] = sent[i]
  BY <1>1, <1>2 DEF SequencesOK
<1> QED BY <1>2, <1>4, <1>5 DEF SubscriptionChanges

(* A subscription that has begun is never unmade, and one that has ended   *)
(* is not revived; an offer the lock has let go of is paid late.           *)
LEMMA ProviderKeeps ==
  ASSUME Base, [Next]_vars, NEW s \in DOMAIN offers
  PROVE  /\ provider[s] # "none" => provider'[s] # "none"
         /\ provider[s] \notin Live /\ provider[s] # "none" => provider'[s] = provider[s]
         /\ provider[s] = "none" /\ LetGo(s, now) /\ s \notin late' => provider'[s] = "none"
<1> DEFINE Claim ==
         /\ provider[s] # "none" => provider'[s] # "none"
         /\ provider[s] \notin Live /\ provider[s] # "none" => provider'[s] = provider[s]
         /\ provider[s] = "none" /\ LetGo(s, now) /\ s \notin late' => provider'[s] = "none"
<1> SUFFICES Claim
  OBVIOUS
<1>1. ASSUME NEW t \in DOMAIN offers, NEW status \in Statuses, SubscriptionChanges(t, status)
      PROVE  Claim
  <2>1. t # s => provider'[s] = provider[s]
    BY <1>1, NewEvent
  <2>2. CASE t = s
    <3>1. provider'[s] = status /\ status # "none"
      BY <1>1, <2>2, NewEvent DEF Statuses, Live
    <3>2. provider[s] \in Live \/ (provider[s] = "none" /\ (LetGo(s, now) => s \in late'))
      BY <1>1, <2>2 DEF SubscriptionChanges
    <3>3. "none" \notin Live
      BY DEF Live
    <3> QED BY <3>1, <3>2, <3>3
  <2> QED BY <2>1, <2>2
<1>2. ASSUME NEW v \in Visits, Publish(v) PROVE Claim
  BY <1>2, NewOffer
<1>3. CASE provider' = provider
  BY <1>3
<1> HIDE DEF Claim
<1> QED BY <1>1, <1>2, <1>3, ProviderChange

-----------------------------------------------------------------------------
(* The events tell what the provider has, the newest one exactly.          *)
EventInv ==
  /\ \A i \in DOMAIN sent : /\ provider[sent[i].sub] # "none"
                            /\ sent[i].status = "cancelled" => provider[sent[i].sub] = "cancelled"
  /\ sent # <<>> => provider[Last(sent).sub] = Last(sent).status

(* The record follows the newest event that was received, until an act     *)
(* replaces it; and then every event of the past has been received.        *)
DodoFollows ==
  /\ record.at \in seen /\ record.sub = sent[record.at].sub
  /\ \A i \in seen : i <= record.at
  /\ record.at = Len(sent) => record.status = sent[record.at].status
  /\ record.status = "cancelled" => provider[record.sub] = "cancelled"
OtherFollows ==
  /\ record.at = 0
  /\ \A i \in seen : \A j \in DOMAIN sent : j <= i => j \in seen
  /\ \A i \in seen : provider[sent[i].sub] \notin Live
FollowsInv ==
  ~crossed => IF record.source = "dodo" THEN DodoFollows ELSE OtherFollows

Settled == Base /\ EventInv /\ FollowsInv

LEMMA EventStep ==
  ASSUME Base, EventInv, [Next]_vars
  PROVE  EventInv'
<1>0. /\ DOMAIN sent = 1..Len(sent) /\ Len(sent) \in Nat
      /\ \A i \in DOMAIN sent : sent[i].sub \in DOMAIN offers /\ sent[i].status \in Statuses
  BY Shapes
<1>a. "cancelled" \notin Live /\ "none" \notin Statuses
  BY DEF Live, Statuses
<1>1. \A i \in DOMAIN sent : /\ provider'[sent[i].sub] # "none"
                             /\ sent[i].status = "cancelled" => provider'[sent[i].sub] = "cancelled"
  BY <1>0, <1>a, ProviderKeeps DEF EventInv
<1>2. ASSUME NEW s \in DOMAIN offers, NEW status \in Statuses, SubscriptionChanges(s, status)
      PROVE  EventInv'
  <2>1. /\ Len(sent)' = Len(sent) + 1 /\ DOMAIN sent' = 1..Len(sent) + 1
        /\ sent'[Len(sent) + 1].sub = s /\ sent'[Len(sent) + 1].status = status
        /\ \A i \in DOMAIN sent : sent'[i] = sent[i]
        /\ provider'[s] = status
    BY <1>2, NewEvent
  <2>2. Last(sent') = sent'[Len(sent) + 1]
    BY <2>1 DEF Last
  <2>3. \A i \in DOMAIN sent' : i \in DOMAIN sent \/ i = Len(sent) + 1
    BY <2>1, <1>0
  <2> QED BY <2>1, <2>2, <2>3, <1>1, <1>a DEF EventInv
<1>3. CASE sent' = sent /\ \A s \in DOMAIN offers : provider'[s] = provider[s]
  <2>1. sent # <<>> => Last(sent).sub \in DOMAIN offers
    <3>1. SUFFICES ASSUME sent # <<>> PROVE Len(sent) \in DOMAIN sent
      BY <1>0 DEF Last
    <3>2. sent \in Seq(Events)
      BY TypeParts DEF Base, SequencesOK
    <3> QED BY <3>1, <3>2, <1>0
  <2> QED BY <2>1, <1>3, <1>1 DEF EventInv
<1>4. ASSUME NEW v \in Visits, Publish(v) PROVE EventInv'
  BY <1>4, <1>3, NewOffer
<1>5. CASE UNCHANGED <<provider, sent>>
  BY <1>5, <1>3
<1> QED BY <1>2, <1>4, <1>5, ProviderChange

LEMMA FollowsStep ==
  ASSUME Settled, [Next]_vars
  PROVE  FollowsInv'
<1> SUFFICES ASSUME ~crossed'
             PROVE  IF record'.source = "dodo" THEN DodoFollows' ELSE OtherFollows'
  BY DEF FollowsInv
<1>0. /\ Base /\ EventInv /\ ~crossed
      /\ IF record.source = "dodo" THEN DodoFollows ELSE OtherFollows
  BY CrossedStays DEF Settled, FollowsInv
<1>a. /\ seen \subseteq DOMAIN sent
      /\ DOMAIN sent = 1..Len(sent) /\ Len(sent) \in Nat
      /\ \A i \in DOMAIN sent : sent[i].sub \in DOMAIN offers /\ sent[i].status \in Statuses
      /\ record.at \in Nat
  BY <1>0, Shapes
<1>b. /\ DOMAIN sent \subseteq DOMAIN sent'
      /\ \A i \in DOMAIN sent : sent'[i] = sent[i]
  BY <1>0, SequencesStep
<1>c. record \in Records /\ (record.source = "dodo" => record.sub \in DOMAIN offers)
  BY <1>0, TypeParts DEF Base, RecordInv
<1>d. "cancelled" \notin Live /\ "none" \notin Statuses /\ "none" \notin Live
  BY DEF Live, Statuses
<1> DEFINE Claim == IF record'.source = "dodo" THEN DodoFollows' ELSE OtherFollows'
<1>1. CASE UNCHANGED <<record, seen>>
  <2>1. CASE record.source = "dodo"
    <3>1. record.at \in DOMAIN sent
      BY <2>1, <1>0, <1>a DEF DodoFollows
    <3>2. record.at = Len(sent') => sent' = sent
      <4>1. Len(sent)' = Len(sent) + 1 \/ sent' = sent
        BY <1>0, ProviderChange, NewEvent, NewOffer
      <4> QED BY <4>1, <3>1, <1>a
    <3>3. record.status = "cancelled" => provider'[record.sub] = "cancelled"
      BY <2>1, <1>0, <1>c, <1>d, ProviderKeeps DEF DodoFollows
    <3>4. DodoFollows'
      BY <3>1, <3>2, <3>3, <2>1, <1>0, <1>1, <1>b DEF DodoFollows
    <3> QED BY <3>4, <2>1, <1>1
  <2>2. CASE record.source # "dodo"
    <3>1. OtherFollows
      BY <2>2, <1>0
    <3>2. ASSUME NEW i \in seen PROVE provider'[sent[i].sub] \notin Live
      <4>1. provider[sent[i].sub] \notin Live /\ provider[sent[i].sub] # "none"
        BY <3>1, <1>0, <1>a DEF OtherFollows, EventInv
      <4> QED BY <4>1, <1>0, <1>a, ProviderKeeps
    <3>3. ASSUME NEW i \in seen, NEW j \in DOMAIN sent', j <= i PROVE j \in seen
      <4>1. j \in DOMAIN sent
        <5>1. DOMAIN sent' = 1..Len(sent) + 1 \/ sent' = sent
          BY <1>0, ProviderChange, NewEvent, NewOffer
        <5> QED BY <5>1, <3>3, <1>a
      <4> QED BY <4>1, <3>3, <3>1 DEF OtherFollows
    <3>4. OtherFollows'
      BY <3>1, <3>2, <3>3, <1>1, <1>a, <1>b DEF OtherFollows
    <3> QED BY <3>4, <2>2, <1>1
  <2> QED BY <2>1, <2>2
<1>2. ASSUME NEW i \in 1..MaxChanges, Deliver(i) PROVE Claim
  <2>1. i \in DOMAIN sent /\ seen' = seen \union {i} /\ provider' = provider /\ sent' = sent
    BY <1>2 DEF Deliver
  <2>2. CASE i \in seen
    <3>1. UNCHANGED <<record, seen>>
      BY <1>2, <2>1, <2>2 DEF Deliver
    <3> QED BY <3>1, <1>1
  <2>3. CASE i \notin seen /\ Stale(i)
    <3>1. record' = record
      BY <1>2, <2>3 DEF Deliver
    <3>2. record.at > i /\ record.source = "dodo"
      BY <2>3, <2>1, <1>0, <1>a DEF Stale, OtherFollows
    <3>3. DodoFollows'
      BY <3>1, <3>2, <2>1, <1>0, <1>a DEF DodoFollows
    <3> QED BY <3>1, <3>2, <3>3
  <2>4. CASE i \notin seen /\ ~Stale(i)
    <3>1. /\ record'.source = "dodo" /\ record'.at = i
          /\ record'.sub = sent[i].sub /\ record'.status = sent[i].status
      BY <1>2, <2>4 DEF Deliver
    <3>2. \A k \in seen : k <= i
      <4>1. CASE record.source = "dodo"
        BY <4>1, <2>1, <2>4, <1>0, <1>a DEF DodoFollows, Stale
      <4>2. CASE record.source # "dodo"
        BY <4>2, <2>1, <2>4, <1>0, <1>a DEF OtherFollows
      <4> QED BY <4>1, <4>2
    <3>3. sent[i].status = "cancelled" => provider[sent[i].sub] = "cancelled"
      BY <2>1, <1>0 DEF EventInv
    <3>4. DodoFollows'
      BY <3>1, <3>2, <3>3, <2>1, <1>a DEF DodoFollows
    <3> QED BY <3>1, <3>4
  <2> QED BY <2>2, <2>3, <2>4
<1>3. ASSUME NEW a \in Admins, WriteStatus(a) PROVE Claim
  <2>1. /\ record' = [record EXCEPT !.status = act[a].status]
        /\ seen' = seen /\ sent' = sent /\ provider' = provider
        /\ crossed' = (crossed \/ record.source # act[a].source \/ record.sub # act[a].sub
                        \/ (record.source = "dodo" /\ provider[record.sub] # act[a].status))
    BY <1>3 DEF WriteStatus
  <2>2. /\ record'.source = record.source /\ record'.sub = record.sub /\ record'.at = record.at
        /\ record'.status = act[a].status
    BY <2>1, <1>c DEF Records
  <2>3. CASE record.source = "dodo"
    <3>1. provider[record.sub] = act[a].status
      BY <2>1, <2>3
    <3>2. record.at = Len(sent) => act[a].status = sent[record.at].status
      <4>1. SUFFICES ASSUME record.at = Len(sent) PROVE act[a].status = sent[record.at].status
        OBVIOUS
      <4>2. record.at \in DOMAIN sent /\ record.sub = sent[record.at].sub
        BY <2>3, <1>0, <1>a DEF DodoFollows
      <4>3. sent # <<>> /\ Last(sent) = sent[record.at]
        BY <4>1, <4>2 DEF Last
      <4> QED BY <4>2, <4>3, <3>1, <1>0 DEF EventInv
    <3>3. DodoFollows'
      BY <3>1, <3>2, <2>1, <2>2, <2>3, <1>0 DEF DodoFollows
    <3> QED BY <3>3, <2>2, <2>3
  <2>4. CASE record.source # "dodo"
    BY <2>1, <2>2, <2>4, <1>0 DEF OtherFollows
  <2> QED BY <2>3, <2>4
<1>4. ASSUME NEW a \in Admins, WriteManual(a) PROVE Claim
  <2>1. /\ record'.source = "manual" /\ record'.at = 0
        /\ seen' = seen /\ sent' = sent /\ provider' = provider
        /\ crossed' = (crossed \/ LiveSubscriptions # {} \/ Undelivered # {})
    BY <1>4 DEF WriteManual
  <2>2. LiveSubscriptions = {} /\ Undelivered = {}
    BY <2>1
  <2>3. \A i \in DOMAIN sent : i \in seen
    BY <2>2 DEF Undelivered
  <2>4. \A i \in seen : provider[sent[i].sub] \notin Live
    <3>1. DOMAIN provider = DOMAIN offers
      BY <1>0, Shapes
    <3> QED BY <3>1, <2>2, <1>a DEF LiveSubscriptions
  <2>5. OtherFollows'
    BY <2>1, <2>3, <2>4 DEF OtherFollows
  <2> QED BY <2>1, <2>5
<1> HIDE DEF Claim
<1>5. Claim
  BY <1>2, <1>3, <1>4, <1>1, RecordChanges DEF Claim
<1> QED BY <1>5 DEF Claim

LEMMA InitSettled == Init => Settled
<1>1. Init => EventInv /\ FollowsInv
  BY DEF Init, EventInv, FollowsInv, OtherFollows, NoRecord
<1> QED BY <1>1, InitBase DEF Settled

LEMMA AlwaysSettled == Spec => []Settled
<1>1. Settled /\ [Next]_vars => Settled'
  BY BaseStep, EventStep, FollowsStep DEF Settled
<1> QED BY <1>1, InitSettled, PTL DEF Spec

(* Once all events have arrived, in whatever order and however often, the  *)
(* record is the provider's newest change (dodoPaymentsWebhook).           *)
THEOREM RecordFollowsProvider == Spec => []SettledRecordFollowsProvider
<1>1. Settled => SettledRecordFollowsProvider
  <2>1. SUFFICES ASSUME Settled, Undelivered = {}, ~crossed, record.source = "dodo"
                 PROVE  record.sub = Last(sent).sub /\ record.status = Last(sent).status
    BY DEF SettledRecordFollowsProvider
  <2>2. DodoFollows /\ DOMAIN sent = 1..Len(sent) /\ Len(sent) \in Nat /\ seen \subseteq DOMAIN sent
    BY <2>1, Shapes DEF Settled, FollowsInv
  <2>3. Len(sent) \in seen
    BY <2>1, <2>2 DEF DodoFollows, Undelivered
  <2>4. record.at = Len(sent)
    BY <2>2, <2>3 DEF DodoFollows
  <2> QED BY <2>2, <2>4 DEF DodoFollows, Last
<1> QED BY <1>1, AlwaysSettled, PTL

(* A lock under which a URL is being made ends soon.                       *)
LockEnds == lock.state = "creating" => lock.expires <= now + LockTime

LEMMA AlwaysEnds == Spec => []LockEnds
<1>1. Init => LockEnds
  BY DEF Init, NoLock, LockEnds
<1>2. ASSUME Base, LockEnds, [Next]_vars PROVE LockEnds'
  <2>0. LockOK /\ now \in Nat /\ LockTime \in Nat
    BY <1>2, TypeParts, Shapes, TimesAssumption DEF Base
  <2>1. ASSUME NEW v \in Visits, Acquire(v) PROVE LockEnds'
    BY <2>0, <2>1 DEF Acquire, LockEnds
  <2>2. ASSUME NEW v \in Visits, Publish(v) PROVE LockEnds'
    BY <2>2 DEF Publish, LockEnds
  <2>3. ASSUME NEW v \in Visits, CheckoutFails(v) PROVE LockEnds'
    <3>1. lock'.state = "failed"
      BY <2>0, <2>3 DEF CheckoutFails, LockOK, Locks
    <3> QED BY <3>1 DEF LockEnds
  <2>4. CASE lock' = lock
    <3>1. now' = now \/ now' = now + 1
      BY <1>2, ClockChanges DEF Tick
    <3>2. lock.expires \in Nat
      BY <2>0 DEF LockOK, Locks
    <3> QED BY <1>2, <2>0, <2>4, <3>1, <3>2 DEF LockEnds
  <2> QED BY <1>2, <2>1, <2>2, <2>3, <2>4, CheckoutChanges DEF CheckoutDies
<1>3. Base /\ LockEnds /\ [Next]_vars => LockEnds'
  BY <1>2
<1>4. Settled => Base
  BY DEF Settled
<1> QED BY <1>1, <1>3, <1>4, AlwaysSettled, PTL DEF Spec

(* An organization that has no access, no live subscription and nothing    *)
(* left to arrive may begin a checkout, and a lock does not keep it from   *)
(* one for long (createSubscriptionCheckout).                              *)
THEOREM NeverLockedOut == Spec => []NotLockedOut
<1>0. LockEnds => (LockIsFree \/ lock.url # 0 \/ lock.expires <= now + LockTime)
  BY DEF LockEnds, LockIsFree
<1>1. Settled /\ LockEnds => NotLockedOut
  <2>1. SUFFICES ASSUME Settled, ~crossed, Undelivered = {}, LiveSubscriptions = {}, ~Entitled
                 PROVE  MayCheckout \/ (record.source = "manual" /\ record.ends # Forever)
    BY <1>0 DEF NotLockedOut
  <2>2. Base /\ EventInv /\ record \in Records /\ RecordInv
    BY <2>1, TypeParts DEF Settled, Base
  <2>3. CASE record.source = "none"
    BY <2>2, <2>3 DEF RecordInv, NoRecord, MayCheckout
  <2>4. CASE record.source = "manual"
    BY <2>1, <2>4 DEF Entitled, MayCheckout
  <2>5. CASE record.source = "dodo"
    <3>1. DodoFollows /\ DOMAIN sent = 1..Len(sent) /\ Len(sent) \in Nat
          /\ seen \subseteq DOMAIN sent /\ DOMAIN provider = DOMAIN offers
      BY <2>1, <2>2, <2>5, Shapes DEF Settled, FollowsInv
    <3>2. record.at = Len(sent) /\ Len(sent) \in DOMAIN sent
      BY <2>1, <3>1 DEF DodoFollows, Undelivered
    <3>3. sent # <<>> /\ Last(sent) = sent[record.at]
      BY <3>1, <3>2 DEF Last
    <3>4. record.status = provider[record.sub]
      BY <3>1, <3>2, <3>3, <2>2 DEF DodoFollows, EventInv
    <3>5. record.sub \in DOMAIN provider
      BY <3>1, <2>2, <2>5 DEF RecordInv
    <3>6. record.status \notin Live
      BY <3>4, <3>5, <2>1 DEF LiveSubscriptions
    <3> QED BY <3>6 DEF MayCheckout, Live
  <2>6. record.source \in {"none", "dodo", "manual"}
    BY <2>2 DEF Records
  <2> QED BY <2>3, <2>4, <2>5, <2>6
<1> QED BY <1>1, AlwaysSettled, AlwaysEnds, PTL

-----------------------------------------------------------------------------
(* Until its time is over, the lock gives out the newest checkout URL.     *)
LockCovers ==
  offers # <<>> /\ now < Last(offers).made + UrlTime =>
    lock.url = Len(offers) /\ lock.expires = Last(offers).made + UrlTime

(* A payment is known here before the lock lets go of its URL, or is late. *)
PaidInv ==
  \A s \in DOMAIN offers :
    provider[s] # "none" /\ s \notin late => HeardOf(s) \/ ~LetGo(s, now)

(* Until an offer, or an older one, is late: no offer but the newest can   *)
(* be paid or is live, and while another is being made, none; so the       *)
(* subscriptions follow each other.                                        *)
Over(s) == provider[s] \notin Live /\ LetGo(s, now)
OnTime(s) == \A u \in late : s < u
OneInv ==
  ~crossed =>
    /\ \A s \in DOMAIN offers : s < Len(offers) /\ OnTime(s) => Over(s)
    /\ \A v \in Visits : visit[v].pc = "provider" =>
         \A s \in DOMAIN offers : OnTime(s) => Over(s)
    /\ \A i, j \in DOMAIN sent : i <= j /\ OnTime(sent[i].sub) => sent[i].sub <= sent[j].sub

Single == Settled /\ LockCovers /\ PaidInv /\ OneInv

LEMMA LastOffer ==
  ASSUME Base
  PROVE  offers # <<>> <=> Len(offers) \in DOMAIN offers
<1>1. offers \in Seq(Offers) /\ DOMAIN offers = 1..Len(offers) /\ Len(offers) \in Nat
  BY Shapes, TypeParts DEF Base, SequencesOK
<1> QED BY <1>1

LEMMA LockCoversStep ==
  ASSUME Base, LockCovers, [Next]_vars
  PROVE  LockCovers'
<1>0. /\ now \in Nat /\ UrlTime \in Nat
      /\ \A s \in DOMAIN offers : offers[s].made \in Nat
      /\ offers # <<>> => Len(offers) \in DOMAIN offers
      /\ DOMAIN offers = 1..Len(offers) /\ Len(offers) \in Nat
  BY Shapes, LastOffer, TimesAssumption
<1>1. CASE UNCHANGED <<lock, visit, offers>>
  <2>1. now' = now \/ now' = now + 1
    BY ClockChanges DEF Tick
  <2>2. offers # <<>> => Last(offers).made \in Nat
    BY <1>0 DEF Last
  <2> QED BY <1>1, <2>1, <2>2, <1>0 DEF LockCovers
<1>2. ASSUME NEW v \in Visits, Acquire(v) PROVE LockCovers'
  <2>1. SUFFICES ASSUME offers # <<>>, now < Last(offers).made + UrlTime PROVE FALSE
    BY <1>2 DEF Acquire, LockCovers
  <2>2. lock.url = Len(offers) /\ lock.expires > now /\ lock.url # 0
    BY <2>1, <1>0 DEF LockCovers, Last
  <2> QED BY <2>2, <1>2 DEF Acquire, LockIsFree
<1>3. ASSUME NEW v \in Visits, Publish(v) PROVE LockCovers'
  <2>1. /\ Len(offers') = Len(offers) + 1 /\ offers'[Len(offers) + 1].made = now
        /\ lock'.url = Len(offers) + 1 /\ lock'.expires = now + UrlTime
    BY <1>3, NewOffer DEF Publish
  <2> QED BY <2>1 DEF LockCovers, Last
<1>4. ASSUME NEW v \in Visits, CheckoutFails(v) \/ CheckoutDies(v) PROVE LockCovers'
  <2>1. lock.url = 0 /\ offers' = offers /\ now' = now
    BY <1>4 DEF CheckoutFails, CheckoutDies, Base, VisitInv, HoldsLock
  <2> QED BY <2>1, <1>0 DEF LockCovers, Last
<1> QED BY <1>1, <1>2, <1>3, <1>4, CheckoutChanges

LEMMA LateNumbers ==
  ASSUME Base, [Next]_vars
  PROVE  /\ late \subseteq late' /\ late' \subseteq Nat
         /\ \A s \in DOMAIN offers : OnTime(s)' => OnTime(s) /\ s \notin late'
<1>1. /\ late \subseteq late' /\ late' \subseteq DOMAIN offers
  BY TypeParts, LateStep DEF Base, SequencesOK
<1>2. late' \subseteq Nat /\ DOMAIN offers \subseteq Nat
  BY <1>1, Shapes
<1>3. ASSUME NEW s \in DOMAIN offers, \A u \in late' : s < u PROVE s \notin late'
  BY <1>2, <1>3
<1> QED BY <1>1, <1>2, <1>3 DEF OnTime

LEMMA PaidStep ==
  ASSUME Base, PaidInv, [Next]_vars
  PROVE  PaidInv'
<1>0. /\ now \in Nat /\ UrlTime \in Nat
      /\ \A s \in DOMAIN offers : offers[s].made \in Nat
      /\ DOMAIN offers = 1..Len(offers) /\ Len(offers) \in Nat
      /\ seen \subseteq DOMAIN sent
  BY Shapes, TimesAssumption
<1>a. /\ \A i \in DOMAIN sent : sent'[i] = sent[i]
      /\ \A s \in DOMAIN offers : offers'[s] = offers[s]
      /\ late \subseteq late'
  BY SequencesStep, LateNumbers
<1>b. seen \subseteq seen'
  BY RecordChanges DEF Deliver, WriteStatus, WriteManual
<1>c. ASSUME NEW s \in DOMAIN offers, HeardOf(s) PROVE HeardOf(s)'
  BY <1>0, <1>a, <1>b, <1>c DEF HeardOf
<1>1. ASSUME NEW s \in DOMAIN offers, provider[s] # "none", s \notin late' PROVE HeardOf(s)' \/ ~LetGo(s, now)'
  <2>1. HeardOf(s) \/ ~LetGo(s, now)
    BY <1>1, <1>a DEF PaidInv
  <2>2. CASE HeardOf(s)
    BY <2>2, <1>c
  <2>3. CASE ~HeardOf(s) /\ ~LetGo(s, now)
    <3>1. CASE Tick
      <4>1. ~LetGo(s, now + 1) /\ now' = now + 1
        BY <1>1, <2>3, <3>1 DEF Tick
      <4> QED BY <4>1, <1>a DEF LetGo
    <3>2. CASE now' = now
      BY <3>2, <2>3, <1>a DEF LetGo
    <3> QED BY <3>1, <3>2, ClockChanges
  <2> QED BY <2>1, <2>2, <2>3
<1>2. ASSUME NEW s \in DOMAIN offers, provider[s] = "none", provider'[s] # "none", s \notin late'
      PROVE  ~LetGo(s, now)'
  <2>1. ~LetGo(s, now)
    BY <1>2, ProviderKeeps
  <2>2. PICK t \in DOMAIN offers, status \in Statuses : SubscriptionChanges(t, status)
    BY <1>2, ProviderChange, NewOffer
  <2>3. now' = now
    BY <2>2, NewEvent
  <2> QED BY <2>1, <2>3, <1>a DEF LetGo
<1>3. ASSUME NEW s \in DOMAIN offers', s \notin DOMAIN offers PROVE provider'[s] = "none"
  <2>1. PICK v \in Visits : Publish(v)
    BY <1>3, CheckoutChanges DEF Acquire, CheckoutFails, CheckoutDies
  <2>2. DOMAIN offers' = 1..Len(offers) + 1 /\ provider'[Len(offers) + 1] = "none"
    BY <2>1, NewOffer
  <2>3. s = Len(offers) + 1
    BY <2>2, <1>3, <1>0
  <2> QED BY <2>2, <2>3
<1>4. ASSUME NEW s \in DOMAIN offers', provider'[s] # "none", s \notin late'
      PROVE  HeardOf(s)' \/ ~LetGo(s, now)'
  BY <1>1, <1>2, <1>3, <1>4
<1> QED BY <1>4 DEF PaidInv

LEMMA OverStays ==
  ASSUME Base, [Next]_vars, NEW s \in DOMAIN offers, Over(s), s \notin late'
  PROVE  Over(s)'
<1>1. now \in Nat /\ UrlTime \in Nat /\ offers[s].made \in Nat
  BY Shapes, TimesAssumption
<1>2. provider'[s] = provider[s]
  BY ProviderKeeps DEF Over
<1>3. now' = now \/ now' = now + 1
  BY ClockChanges DEF Tick
<1>4. offers'[s] = offers[s]
  BY SequencesStep
<1> QED BY <1>1, <1>2, <1>3, <1>4 DEF Over, LetGo

(* Who may begin a checkout has no subscription that is live or can be     *)
(* paid: the lock has let go of the newest URL, so its payment is known.   *)
LEMMA AllOverAtAcquire ==
  ASSUME Single, ~crossed, NEW v \in Visits, Acquire(v)
  PROVE  \A s \in DOMAIN offers : OnTime(s) => Over(s)
<1>0. Base /\ LockCovers /\ PaidInv /\ OneInv /\ EventInv
      /\ IF record.source = "dodo" THEN DodoFollows ELSE OtherFollows
  BY DEF Single, Settled, FollowsInv
<1>1. /\ now \in Nat /\ UrlTime \in Nat /\ \A s \in DOMAIN offers : offers[s].made \in Nat
      /\ DOMAIN offers = 1..Len(offers) /\ Len(offers) \in Nat
      /\ DOMAIN sent = 1..Len(sent) /\ seen \subseteq DOMAIN sent
      /\ \A i \in DOMAIN sent : sent[i].sub \in DOMAIN offers
      /\ record.at \in Nat
  BY <1>0, Shapes, TimesAssumption
<1> DEFINE n == Len(offers)
<1>2. ASSUME n \in DOMAIN offers, OnTime(n) PROVE Over(n)
  <2>1. LetGo(n, now)
    <3>1. SUFFICES ASSUME now < offers[n].made + UrlTime PROVE FALSE
      BY <1>1, <1>2 DEF LetGo
    <3>2. lock.url = n /\ lock.expires > now /\ n # 0
      BY <3>1, <1>0, <1>1, <1>2, LastOffer DEF LockCovers, Last
    <3> QED BY <3>2 DEF Acquire, LockIsFree
  <2>2. SUFFICES ASSUME provider[n] \in Live PROVE FALSE
    BY <2>1 DEF Over
  <2>3. PICK i \in DOMAIN sent : sent[i].sub = n /\ i \in seen
    <3>1. provider[n] # "none"
      BY <2>2 DEF Live
    <3>2. n \notin late
      BY <1>1, <1>2 DEF OnTime
    <3> QED BY <3>1, <3>2, <2>1, <1>0, <1>1, <1>2 DEF PaidInv, HeardOf
  <2>4. CASE record.source = "dodo"
    <3>1. i <= record.at /\ record.at \in DOMAIN sent /\ record.sub = sent[record.at].sub
      BY <2>3, <2>4, <1>0, <1>1 DEF DodoFollows
    <3>2. n <= record.sub /\ record.sub \in DOMAIN offers
      BY <3>1, <2>3, <1>0, <1>1, <1>2 DEF OneInv
    <3>3. record.sub = n
      BY <3>2, <1>1
    <3>4. record.status \in Statuses /\ record.status \notin Live
      BY <2>4, <1>0 DEF Acquire, MayCheckout, Base, RecordInv
    <3>5. provider[n] = "cancelled"
      BY <3>3, <3>4, <2>4, <1>0 DEF Statuses, DodoFollows
    <3> QED BY <3>5, <2>2 DEF Live
  <2>5. CASE record.source # "dodo"
    BY <2>5, <2>2, <2>3, <1>0 DEF OtherFollows
  <2> QED BY <2>4, <2>5
<1>3. ASSUME NEW s \in DOMAIN offers, OnTime(s) PROVE Over(s)
  <2>1. s < n \/ s = n
    BY <1>1
  <2> QED BY <2>1, <1>0, <1>2, <1>3 DEF OneInv
<1> QED BY <1>3

LEMMA OneStep ==
  ASSUME Single, [Next]_vars
  PROVE  OneInv'
<1>1. SUFFICES ASSUME ~crossed'
      PROVE  /\ \A s \in DOMAIN offers' : s < Len(offers') /\ OnTime(s)' => Over(s)'
             /\ \A v \in Visits : visit'[v].pc = "provider" =>
                  \A s \in DOMAIN offers' : OnTime(s)' => Over(s)'
             /\ \A i, j \in DOMAIN sent' :
                  i <= j /\ (\A u \in late' : sent'[i].sub < u) => sent'[i].sub <= sent'[j].sub
  BY DEF OneInv, OnTime
<1>2. /\ Base /\ OneInv /\ ~crossed /\ VisitInv
      /\ \A s \in DOMAIN offers : s < Len(offers) /\ OnTime(s) => Over(s)
      /\ \A v \in Visits : visit[v].pc = "provider" =>
           \A s \in DOMAIN offers : OnTime(s) => Over(s)
      /\ \A i, j \in DOMAIN sent : i <= j /\ OnTime(sent[i].sub) => sent[i].sub <= sent[j].sub
      /\ visit \in [Visits -> VisitRecords]
  BY <1>1, CrossedStays, TypeParts DEF Single, Settled, Base, OneInv
<1>3. /\ DOMAIN offers = 1..Len(offers) /\ Len(offers) \in Nat
      /\ DOMAIN sent = 1..Len(sent) /\ Len(sent) \in Nat
      /\ \A i \in DOMAIN sent : sent[i].sub \in DOMAIN offers
  BY <1>2, Shapes
<1>4. ASSUME NEW s \in DOMAIN offers, OnTime(s)'
      PROVE  OnTime(s) /\ s \notin late' /\ (Over(s) => Over(s)')
  BY <1>2, <1>4, LateNumbers, OverStays
<1>5. ASSUME NEW s \in DOMAIN offers', s < Len(offers'), OnTime(s)' PROVE Over(s)'
  <2>1. CASE offers' = offers
    BY <2>1, <1>5, <1>2, <1>4
  <2>2. ASSUME NEW v \in Visits, Publish(v) PROVE Over(s)'
    <3>1. visit[v].pc = "provider"
      BY <2>2 DEF Publish
    <3>2. s \in DOMAIN offers
      BY <2>2, <1>2, <1>3, <1>5, NewOffer
    <3> QED BY <3>1, <3>2, <1>2, <1>4, <1>5
  <2> QED BY <2>1, <2>2, CheckoutChanges DEF Acquire, CheckoutFails, CheckoutDies
<1>6. ASSUME NEW v \in Visits, visit'[v].pc = "provider", NEW s \in DOMAIN offers', OnTime(s)'
      PROVE  Over(s)'
  <2>1. CASE UNCHANGED <<lock, visit, offers>>
    BY <2>1, <1>6, <1>2, <1>4
  <2>2. ASSUME NEW w \in Visits, Acquire(w) PROVE Over(s)'
    <3>1. \A t \in DOMAIN offers : OnTime(t) => Over(t)
      BY <2>2, <1>2, AllOverAtAcquire
    <3>2. offers' = offers
      BY <2>2 DEF Acquire
    <3> QED BY <3>1, <3>2, <1>4, <1>6
  <2>3. ASSUME NEW w \in Visits, visit[w].pc = "provider", visit' = [visit EXCEPT ![w] = NoVisit]
        PROVE  Over(s)'
    <3>1. v # w
      BY <2>3, <1>6, <1>2 DEF NoVisit
    <3>2. visit[v].pc = "provider"
      BY <3>1, <2>3, <1>6, <1>2
    <3> QED BY <3>1, <3>2, <2>3, <1>2 DEF VisitInv
  <2> QED BY <2>1, <2>2, <2>3, CheckoutChanges DEF Publish, CheckoutFails, CheckoutDies
<1>7. ASSUME NEW i \in DOMAIN sent', NEW j \in DOMAIN sent', i <= j,
             \A u \in late' : sent'[i].sub < u
      PROVE  sent'[i].sub <= sent'[j].sub
  <2>1. ASSUME i \in DOMAIN sent, sent'[i] = sent[i]
        PROVE  OnTime(sent[i].sub)' /\ OnTime(sent[i].sub)
    BY <2>1, <1>7, <1>2, LateNumbers DEF OnTime
  <2>2. CASE sent' = sent
    BY <2>1, <2>2, <1>7, <1>2
  <2>3. ASSUME NEW s \in DOMAIN offers, NEW status \in Statuses, SubscriptionChanges(s, status)
        PROVE  sent'[i].sub <= sent'[j].sub
    <3>1. /\ DOMAIN sent' = 1..Len(sent) + 1 /\ sent'[Len(sent) + 1].sub = s
          /\ \A k \in DOMAIN sent : sent'[k] = sent[k]
      BY <2>3, <1>2, NewEvent
    <3>2. CASE j \in DOMAIN sent
      <4>1. i \in DOMAIN sent
        BY <3>1, <3>2, <1>3, <1>7
      <4> QED BY <4>1, <2>1, <3>1, <3>2, <1>2, <1>7
    <3>3. CASE i = Len(sent) + 1 /\ j = Len(sent) + 1
      BY <3>1, <3>3, <1>3
    <3>4. CASE i \in DOMAIN sent /\ j = Len(sent) + 1
      <4> DEFINE m == sent[i].sub
      <4>1. m \in DOMAIN offers /\ sent'[i].sub = m
        BY <3>1, <3>4, <1>3
      <4>2. SUFFICES ASSUME s < m PROVE FALSE
        BY <4>1, <3>1, <3>4, <1>3
      <4>3. s < Len(offers) /\ \A u \in late' : s < u
        <5>1. late' \subseteq Nat
          BY <1>2, LateNumbers
        <5> HIDE DEF m
        <5> QED BY <4>1, <4>2, <5>1, <1>3, <1>7
      <4>4. OnTime(s)'
        BY <4>3 DEF OnTime
      <4>5. Over(s) /\ s \notin late'
        BY <4>3, <4>4, <1>2, <1>4
      <4> QED BY <4>5, <2>3 DEF SubscriptionChanges, Over
    <3> QED BY <3>1, <3>2, <3>3, <3>4, <1>3, <1>7
  <2> QED BY <2>2, <2>3, <1>2, ProviderChange, NewOffer
<1> QED BY <1>5, <1>6, <1>7

LEMMA AlwaysSingle == Spec => []Single
<1>1. Init => Single
  <2>1. SUFFICES ASSUME Init PROVE LockCovers /\ PaidInv /\ OneInv
    BY InitSettled DEF Single
  <2>2. offers = <<>> /\ sent = <<>> /\ visit = [v \in Visits |-> NoVisit]
    BY <2>1 DEF Init
  <2> QED BY <2>2 DEF LockCovers, PaidInv, OneInv, NoVisit
<1>2. Single /\ [Next]_vars => Single'
  <2>1. SUFFICES ASSUME Single, [Next]_vars
                 PROVE  Settled' /\ LockCovers' /\ PaidInv' /\ OneInv'
    BY DEF Single
  <2>2. Settled'
    BY <2>1, BaseStep, EventStep, FollowsStep DEF Single, Settled
  <2>3. LockCovers'
    BY <2>1, LockCoversStep DEF Single, Settled
  <2>4. PaidInv' /\ OneInv'
    BY <2>1, PaidStep, OneStep DEF Single, Settled
  <2> QED BY <2>2, <2>3, <2>4
<1> QED BY <1>1, <1>2, PTL DEF Spec

(* Two live subscriptions take a payment that was made, or became known,   *)
(* only when the lock had let go of its URL: checkouts that overlap, crash *)
(* or outlive their lock do not suffice (createSubscriptionCheckout).      *)
THEOREM SecondSubscriptionIsLate == Spec => []OneLiveSubscription
<1>1. Single => OneLiveSubscription
  <2>1. SUFFICES ASSUME Single, ~crossed, NEW s \in LiveSubscriptions, NEW t \in LiveSubscriptions,
                        s < t
                 PROVE  \E u \in late : u <= s
    BY DEF OneLiveSubscription
  <2>2. /\ DOMAIN provider = 1..Len(offers) /\ DOMAIN offers = 1..Len(offers)
        /\ Len(offers) \in Nat
    BY <2>1, Shapes DEF Single, Settled
  <2>3. late \subseteq Nat
    <3>1. late \subseteq DOMAIN offers
      BY <2>1, TypeParts DEF Single, Settled, Base, SequencesOK
    <3> QED BY <3>1, <2>2
  <2>4. s \in DOMAIN offers /\ s < Len(offers) /\ s \in Nat /\ provider[s] \in Live
    BY <2>1, <2>2 DEF LiveSubscriptions
  <2>5. ~OnTime(s)
    BY <2>1, <2>4 DEF Single, OneInv, Over
  <2> QED BY <2>3, <2>4, <2>5 DEF OnTime
<1> QED BY <1>1, AlwaysSingle, PTL

-----------------------------------------------------------------------------
(* Tenancy.                                                                *)

States == {"none", "pending", "queued", "synced", "enrolled", "failed"}
DeviceStates == {"none", "provisioning", "failed", "active", "deleting"}
EmployeeRecords == [branch : Branches \union {None}, department : Departments \union {None}]
RegistryRecords == [state : DeviceStates, branch : Branches \union {None}, enabled : BOOLEAN]
DocumentRecords == [exists : BOOLEAN, branch : Branches \union {None}, enabled : BOOLEAN]
EnrollmentRecords == [employee : Numbers \union {None}, state : States]
Identities == [Keys -> Numbers \union {None}]
Enrollments == [Keys -> EnrollmentRecords]
Writes == [kind : {"identity", "enrollment", "unmapped"}, n : Numbers, employee : Numbers,
           state : {"enrolled", "synced"}]
Merges == [pc : {"idle", "checked", "writing", "done", "dead"}, from : Devices \union {None},
           to : Devices \union {None}, todo : SUBSET Writes]

PlacesOK ==
  /\ primary \in Branches \union {None} /\ owner \in Users \union {None}
  /\ branch \in [Branches -> {"none", "active", "inactive"}]

PeopleOK ==
  /\ departments \subseteq Departments
  /\ employee \in [Numbers -> EmployeeRecords]
  /\ \A n \in Numbers : employee[n].department \in departments \union {None}
  /\ \A n \in Employees : employee[n].branch \in Branches

DevicesOK == registry \in [Devices -> RegistryRecords] /\ document \in [Devices -> DocumentRecords]

BindingsOK ==
  /\ identity \in Identities /\ enrollment \in Enrollments
  /\ unmapped \in [Keys -> {"none", "unmapped", "resolved"}]
  /\ \A k \in Keys : /\ identity[k] \in Employees \union {None}
                     /\ enrollment[k].employee \in Employees \union {None}

MergeOK ==
  /\ merge \in Merges /\ before \in [identity : Identities, enrollment : Enrollments]
  /\ disturbed \in BOOLEAN
  /\ merge.pc # "idle" => merge.from \in Devices /\ merge.to \in Devices /\ merge.from # merge.to
  /\ merge.pc # "writing" => merge.todo = {}
  /\ \A w \in merge.todo : w.employee \in Employees

PlanOK == plan \in Plans \union {None} /\ calls \in 0..MaxCalls /\ failures \in 0..MaxFailures

OrganizationOK == PlacesOK /\ PeopleOK /\ DevicesOK /\ BindingsOK /\ MergeOK /\ PlanOK

LEMMA OrganizationIsTyped == OrganizationOK => TenancyTypeOK
<1> SUFFICES ASSUME OrganizationOK PROVE TenancyTypeOK
  OBVIOUS
<1>1. employee \in [Numbers -> [branch : Branches \union {None}, department : departments \union {None}]]
  BY DEF OrganizationOK, PeopleOK, EmployeeRecords
<1>2. identity \in [Keys -> Employees \union {None}]
  BY DEF OrganizationOK, BindingsOK, Identities
<1>3. enrollment \in [Keys -> [employee : Employees \union {None}, state : States]]
  BY DEF OrganizationOK, BindingsOK, Enrollments, EnrollmentRecords
<1>4. merge.pc \in {"idle", "checked", "writing", "done", "dead"}
  BY DEF OrganizationOK, MergeOK, Merges
<1>5. registry \in [Devices -> RegistryRecords] /\ document \in [Devices -> DocumentRecords]
  BY DEF OrganizationOK, DevicesOK
<1> QED
  BY <1>1, <1>2, <1>3, <1>4, <1>5 DEF OrganizationOK, PlacesOK, PeopleOK, BindingsOK, PlanOK,
     TenancyTypeOK, States, DeviceStates, RegistryRecords, DocumentRecords

-----------------------------------------------------------------------------
(* Which steps change what; every other action leaves it alone.            *)

LEMMA PlacesChange ==
  ASSUME [TenancyNext]_tenancyVars
  PROVE  \/ UNCHANGED places
         \/ \E u \in Users, b \in Branches : Bootstrap(u, b)
         \/ \E b \in Branches : CreateBranch(b) \/ DeleteBranch(b)
BY DEF TenancyNext, tenancyVars, ChangePlan, CreateDepartment, CreateEmployee,
       UpdateEmployeeDepartment, MapDeviceIdentity, Punch, QueueFingerprint, EnrollmentEnds,
       ReserveDevice, ActivateDevice, ProvisioningFails, SetDeviceEnabled, StartRemove,
       FinishRemove, CheckMerge, ReadForMerge, CommitBatch, AuditMerge, MergeDies, RepeatMerge

LEMMA PeopleChange ==
  ASSUME [TenancyNext]_tenancyVars
  PROVE  \/ UNCHANGED people
         \/ \E t \in Departments : CreateDepartment(t)
         \/ \E n \in Numbers, b \in Branches : CreateEmployee(n, b)
         \/ \E n \in Numbers : UpdateEmployeeDepartment(n)
BY DEF TenancyNext, tenancyVars, Bootstrap, ChangePlan, CreateBranch, DeleteBranch,
       MapDeviceIdentity, Punch, QueueFingerprint, EnrollmentEnds,
       ReserveDevice, ActivateDevice, ProvisioningFails, SetDeviceEnabled, StartRemove,
       FinishRemove, CheckMerge, ReadForMerge, CommitBatch, AuditMerge, MergeDies, RepeatMerge

LEMMA DevicesChange ==
  ASSUME [TenancyNext]_tenancyVars
  PROVE  \/ UNCHANGED devices
         \/ \E d \in Devices, b \in Branches : ReserveDevice(d, b)
         \/ \E d \in Devices : ActivateDevice(d) \/ ProvisioningFails(d) \/ SetDeviceEnabled(d)
                                \/ StartRemove(d) \/ FinishRemove(d)
BY DEF TenancyNext, tenancyVars, Bootstrap, ChangePlan, CreateBranch, DeleteBranch,
       CreateDepartment, CreateEmployee, UpdateEmployeeDepartment, MapDeviceIdentity, Punch,
       QueueFingerprint, EnrollmentEnds, CheckMerge, ReadForMerge, CommitBatch, AuditMerge,
       MergeDies, RepeatMerge

LEMMA BindingsChange ==
  ASSUME [TenancyNext]_tenancyVars
  PROVE  \/ UNCHANGED bindings
         \/ \E n \in Numbers, b \in Branches : CreateEmployee(n, b)
         \/ \E d \in Devices, n \in Numbers : MapDeviceIdentity(d, n) \/ Punch(d, n)
                                               \/ QueueFingerprint(d, n) \/ EnrollmentEnds(d, n)
         \/ \E d \in Devices : FinishRemove(d)
         \/ CommitBatch
BY DEF TenancyNext, tenancyVars, Bootstrap, ChangePlan, CreateBranch, DeleteBranch,
       CreateDepartment, UpdateEmployeeDepartment,
       ReserveDevice, ActivateDevice, ProvisioningFails, SetDeviceEnabled, StartRemove,
       CheckMerge, ReadForMerge, AuditMerge, MergeDies, RepeatMerge

-----------------------------------------------------------------------------
(* Places, people and the plan.                                            *)

LEMMA PlacesStep == PlacesOK /\ [TenancyNext]_tenancyVars => PlacesOK'
BY PlacesChange DEF PlacesOK, places, Bootstrap, CreateBranch, DeleteBranch

(* An employee has a branch, so one with none is not employed. *)
LEMMA Employed ==
  ASSUME NEW b \in Branches, NEW t
  PROVE  [branch |-> b, department |-> t] # NotEmployed
BY NoneAssumption DEF NotEmployed

LEMMA EmployeeCreated ==
  ASSUME PeopleOK, NEW n \in Numbers, NEW b \in Branches, CreateEmployee(n, b)
  PROVE  /\ PeopleOK' /\ n \notin Employees /\ Employees' = Employees \union {n}
         /\ employee'[n].branch = b /\ \A m \in Numbers : m # n => employee'[m] = employee[m]
<1>1. PICK t \in departments \union {None} :
        employee' = [employee EXCEPT ![n] = [branch |-> b, department |-> t]]
  BY DEF CreateEmployee
<1>2. UNCHANGED departments /\ employee[n] = NotEmployed
  BY DEF CreateEmployee
<1>3. employee \in [Numbers -> EmployeeRecords] /\ departments \subseteq Departments
  BY DEF PeopleOK
<1>4. [branch |-> b, department |-> t] \in EmployeeRecords
  BY <1>3 DEF EmployeeRecords
<1>5. employee' \in [Numbers -> EmployeeRecords] /\ employee'[n] = [branch |-> b, department |-> t]
      /\ \A m \in Numbers : m # n => employee'[m] = employee[m]
  BY <1>1, <1>3, <1>4
<1>6. n \notin Employees /\ Employees' = Employees \union {n}
  BY <1>2, <1>5, Employed DEF Employees
<1>7. \A m \in Numbers : employee'[m].department \in departments \union {None}
  BY <1>5 DEF PeopleOK
<1>8. \A m \in Employees' : employee'[m].branch \in Branches
  <2>1. \A m \in Employees : m \in Numbers /\ employee[m].branch \in Branches
    BY DEF PeopleOK, Employees
  <2> QED BY <1>5, <1>6, <2>1
<1> QED BY <1>2, <1>3, <1>5, <1>6, <1>7, <1>8 DEF PeopleOK

LEMMA DepartmentUpdated ==
  ASSUME PeopleOK, NEW n \in Numbers, UpdateEmployeeDepartment(n)
  PROVE  /\ PeopleOK' /\ Employees' = Employees
         /\ \A m \in Numbers : employee'[m].branch = employee[m].branch
<1>1. PICK t \in departments \union {None} : employee' = [employee EXCEPT ![n].department = t]
  BY DEF UpdateEmployeeDepartment
<1>2. UNCHANGED departments /\ employee[n] # NotEmployed
  BY DEF UpdateEmployeeDepartment
<1>3. employee \in [Numbers -> EmployeeRecords] /\ departments \subseteq Departments /\ n \in Employees
  BY <1>2 DEF PeopleOK, Employees
<1>4. employee[n].branch \in Branches
  BY <1>3 DEF PeopleOK
<1>5. /\ employee' \in [Numbers -> EmployeeRecords]
      /\ employee'[n] = [employee[n] EXCEPT !.department = t]
      /\ \A m \in Numbers : m # n => employee'[m] = employee[m]
  BY <1>1, <1>3 DEF EmployeeRecords
<1>6. employee'[n].branch = employee[n].branch /\ employee'[n].department = t
  BY <1>3, <1>5 DEF EmployeeRecords
<1>7. employee'[n] # NotEmployed
  BY <1>4, <1>6, NoneAssumption DEF NotEmployed
<1>8. Employees' = Employees
  BY <1>2, <1>5, <1>7 DEF Employees
<1>9. \A m \in Numbers : employee'[m].department \in departments \union {None}
  BY <1>5, <1>6 DEF PeopleOK
<1>10. \A m \in Numbers : employee'[m].branch = employee[m].branch
  BY <1>5, <1>6
<1>11. \A m \in Employees' : employee'[m].branch \in Branches
  BY <1>8, <1>10 DEF PeopleOK, Employees
<1> QED BY <1>2, <1>3, <1>5, <1>8, <1>9, <1>10, <1>11 DEF PeopleOK

(* Nobody is ever removed: an employee code stays its employee's. *)
LEMMA PeopleStep ==
  ASSUME PeopleOK, [TenancyNext]_tenancyVars
  PROVE  PeopleOK' /\ Employees \subseteq Employees'
<1>1. CASE UNCHANGED people
  BY <1>1 DEF people, PeopleOK, Employees
<1>2. ASSUME NEW t \in Departments, CreateDepartment(t) PROVE PeopleOK' /\ Employees \subseteq Employees'
  BY <1>2 DEF CreateDepartment, PeopleOK, Employees
<1>3. ASSUME NEW n \in Numbers, NEW b \in Branches, CreateEmployee(n, b)
      PROVE  PeopleOK' /\ Employees \subseteq Employees'
  BY <1>3, EmployeeCreated
<1>4. ASSUME NEW n \in Numbers, UpdateEmployeeDepartment(n)
      PROVE  PeopleOK' /\ Employees \subseteq Employees'
  BY <1>4, DepartmentUpdated
<1> QED BY <1>1, <1>2, <1>3, <1>4, PeopleChange

LEMMA PlanStep == PlanOK /\ [TenancyNext]_tenancyVars => PlanOK'
<1> SUFFICES ASSUME PlanOK, [TenancyNext]_tenancyVars PROVE PlanOK'
  OBVIOUS
<1>1. plan' \in Plans \union {None}
  BY DEF PlanOK, TenancyNext, tenancyVars, Bootstrap, ChangePlan, CreateBranch, DeleteBranch,
       CreateDepartment, CreateEmployee, UpdateEmployeeDepartment, MapDeviceIdentity, Punch,
       QueueFingerprint, EnrollmentEnds, ReserveDevice, ActivateDevice, ProvisioningFails,
       SetDeviceEnabled, StartRemove, FinishRemove, CheckMerge, ReadForMerge, CommitBatch,
       AuditMerge, MergeDies, RepeatMerge
<1>2. calls' = calls \/ Called
  BY DEF TenancyNext, tenancyVars, Bootstrap, ChangePlan, CreateBranch, DeleteBranch,
       CreateDepartment, CreateEmployee, UpdateEmployeeDepartment, MapDeviceIdentity, Punch,
       QueueFingerprint, EnrollmentEnds, ReserveDevice, ActivateDevice, ProvisioningFails,
       SetDeviceEnabled, StartRemove, FinishRemove, CheckMerge, ReadForMerge, CommitBatch,
       AuditMerge, MergeDies, RepeatMerge
<1>3. failures' = failures \/ (failures < MaxFailures /\ failures' = failures + 1)
  BY DEF TenancyNext, tenancyVars, Bootstrap, ChangePlan, CreateBranch, DeleteBranch,
       CreateDepartment, CreateEmployee, UpdateEmployeeDepartment, MapDeviceIdentity, Punch,
       QueueFingerprint, EnrollmentEnds, ReserveDevice, ActivateDevice, ProvisioningFails,
       SetDeviceEnabled, StartRemove, FinishRemove, CheckMerge, ReadForMerge, CommitBatch,
       AuditMerge, MergeDies, RepeatMerge
<1>4. calls' \in 0..MaxCalls /\ failures' \in 0..MaxFailures
  BY <1>2, <1>3, SizesAssumption DEF PlanOK, Called
<1> QED BY <1>1, <1>4 DEF PlanOK

LEMMA DevicesStep == DevicesOK /\ [TenancyNext]_tenancyVars => DevicesOK'
<1> SUFFICES ASSUME DevicesOK, [TenancyNext]_tenancyVars PROVE DevicesOK'
  OBVIOUS
<1>1. CASE UNCHANGED devices
  BY <1>1 DEF devices, DevicesOK
<1>2. ASSUME NEW d \in Devices, NEW b \in Branches, ReserveDevice(d, b) PROVE DevicesOK'
  BY <1>2 DEF ReserveDevice, DevicesOK, RegistryRecords, DeviceStates
<1>3. ASSUME NEW d \in Devices, ActivateDevice(d) PROVE DevicesOK'
  BY <1>3 DEF ActivateDevice, DevicesOK, RegistryRecords, DocumentRecords, DeviceStates
<1>4. ASSUME NEW d \in Devices, ProvisioningFails(d) PROVE DevicesOK'
  BY <1>4 DEF ProvisioningFails, DevicesOK, RegistryRecords, DeviceStates
<1>5. ASSUME NEW d \in Devices, SetDeviceEnabled(d) PROVE DevicesOK'
  <2>1. PICK on \in BOOLEAN :
          /\ registry' = [registry EXCEPT ![d].enabled = on]
          /\ document' = [document EXCEPT ![d].exists = TRUE, ![d].enabled = on]
    BY <1>5 DEF SetDeviceEnabled
  <2>2. registry' \in [Devices -> RegistryRecords]
    BY <2>1 DEF DevicesOK, RegistryRecords
  <2>3. document' \in [Devices -> DocumentRecords]
    BY <2>1 DEF DevicesOK, DocumentRecords
  <2> QED BY <2>2, <2>3 DEF DevicesOK
<1>6. ASSUME NEW d \in Devices, StartRemove(d) PROVE DevicesOK'
  BY <1>6 DEF StartRemove, DevicesOK, RegistryRecords, DocumentRecords, DeviceStates
<1>7. ASSUME NEW d \in Devices, FinishRemove(d) PROVE DevicesOK'
  BY <1>7 DEF FinishRemove, DevicesOK, RegistryRecords, DocumentRecords, DeviceStates,
     NoDocument, NotRegistered
<1> QED BY <1>1, <1>2, <1>3, <1>4, <1>5, <1>6, <1>7, DevicesChange

-----------------------------------------------------------------------------
(* Identities, enrollments and the merge.                                  *)

LEMMA KeysOfDevices ==
  /\ \A d \in Devices, n \in Numbers : <<d, n>> \in Keys
  /\ \A k \in Keys : k[1] \in Devices /\ k[2] \in Numbers /\ k = <<k[1], k[2]>>
BY DEF Keys

(* A write to one number at one device. *)
Puts(d, n, e, x) ==
  /\ e \in Employees' \union {None} /\ x \in EnrollmentRecords
  /\ x.employee \in Employees' \union {None}
  /\ identity' = [identity EXCEPT ![<<d, n>>] = e]
  /\ enrollment' = [enrollment EXCEPT ![<<d, n>>] = x]

LEMMA PutTyped ==
  ASSUME BindingsOK, PeopleOK', Employees \subseteq Employees', NEW d \in Devices, NEW n \in Numbers,
         NEW e, NEW x, Puts(d, n, e, x),
         unmapped' \in [Keys -> {"none", "unmapped", "resolved"}]
  PROVE  /\ BindingsOK'
         /\ \A k \in Keys : k[1] # d => identity'[k] = identity[k] /\ enrollment'[k] = enrollment[k]
<1>1. <<d, n>> \in Keys /\ e \in Numbers \union {None}
  BY KeysOfDevices DEF Puts, Employees
<1>2. identity' \in Identities /\ enrollment' \in Enrollments
  BY <1>1 DEF BindingsOK, Puts, Identities, Enrollments
<1>3. \A k \in Keys : /\ identity'[k] = IF k = <<d, n>> THEN e ELSE identity[k]
                      /\ enrollment'[k] = IF k = <<d, n>> THEN x ELSE enrollment[k]
  BY <1>1 DEF BindingsOK, Puts, Identities, Enrollments
<1>4. \A k \in Keys : /\ identity'[k] \in Employees' \union {None}
                      /\ enrollment'[k].employee \in Employees' \union {None}
  BY <1>3 DEF BindingsOK, Puts
<1>5. \A k \in Keys : k[1] # d => k # <<d, n>>
  OBVIOUS
<1> QED BY <1>2, <1>3, <1>4, <1>5 DEF BindingsOK

(* A callable other than a merge that writes to a device. *)
WritesTo(d) ==
  /\ Touches(d) /\ UNCHANGED <<merge, before>>
  /\ \A k \in Keys : k[1] # d => identity'[k] = identity[k] /\ enrollment'[k] = enrollment[k]

LEMMA IdentityKept ==
  ASSUME BindingsOK, NEW k \in Keys
  PROVE  /\ identity = [identity EXCEPT ![k] = identity[k]]
         /\ enrollment = [enrollment EXCEPT ![k] = enrollment[k]]
         /\ identity[k] \in Employees \union {None} /\ enrollment[k] \in EnrollmentRecords
         /\ enrollment[k].employee \in Employees \union {None}
BY DEF BindingsOK, Identities, Enrollments

LEMMA CreatePuts ==
  ASSUME PeopleOK, BindingsOK, NEW n \in Numbers, NEW b \in Branches, CreateEmployee(n, b)
  PROVE  BindingsOK' /\ (UNCHANGED <<identity, enrollment, merging>> \/ \E d \in Devices : WritesTo(d))
<1>1. PeopleOK' /\ n \in Employees' /\ Employees \subseteq Employees'
  BY EmployeeCreated
<1>2. UNCHANGED <<unmapped, merge, before>>
  BY DEF CreateEmployee
<1>3. CASE UNCHANGED <<identity, enrollment, disturbed>>
  <2>1. BindingsOK'
    BY <1>1, <1>2, <1>3 DEF BindingsOK
  <2> QED BY <1>2, <1>3, <2>1 DEF merging
<1>4. ASSUME NEW d \in Devices,
             identity' = [identity EXCEPT ![<<d, n>>] = n],
             enrollment' = [enrollment EXCEPT ![<<d, n>>] = [employee |-> n, state |-> "pending"]],
             Touches(d)
      PROVE  BindingsOK' /\ WritesTo(d)
  <2>1. [employee |-> n, state |-> "pending"] \in EnrollmentRecords
    BY DEF EnrollmentRecords, States
  <2>2. Puts(d, n, n, [employee |-> n, state |-> "pending"])
    BY <1>1, <1>4, <2>1 DEF Puts
  <2>3. unmapped' \in [Keys -> {"none", "unmapped", "resolved"}]
    BY <1>2 DEF BindingsOK
  <2> QED BY <1>1, <1>2, <1>4, <2>2, <2>3, PutTyped DEF WritesTo
<1> QED BY <1>3, <1>4 DEF CreateEmployee

LEMMA MapPuts ==
  ASSUME PeopleOK, BindingsOK, NEW d \in Devices, NEW n \in Numbers, MapDeviceIdentity(d, n)
  PROVE  BindingsOK' /\ WritesTo(d)
<1>1. PICK e \in Employees : identity' = [identity EXCEPT ![<<d, n>>] = e]
  BY DEF MapDeviceIdentity, MayBeMapped
<1>2. /\ unmapped' = [unmapped EXCEPT ![<<d, n>>] = "resolved"]
      /\ Touches(d) /\ UNCHANGED <<people, enrollment, merge, before>>
  BY DEF MapDeviceIdentity
<1>3. PeopleOK' /\ Employees' = Employees
  BY <1>2 DEF people, PeopleOK, Employees
<1>4. Puts(d, n, e, enrollment[<<d, n>>])
  BY <1>1, <1>2, <1>3, KeysOfDevices, IdentityKept DEF Puts
<1>5. unmapped' \in [Keys -> {"none", "unmapped", "resolved"}]
  BY <1>2 DEF BindingsOK
<1> QED BY <1>2, <1>3, <1>4, <1>5, PutTyped DEF WritesTo

LEMMA QueuePuts ==
  ASSUME PeopleOK, BindingsOK, NEW d \in Devices, NEW n \in Numbers, QueueFingerprint(d, n)
  PROVE  BindingsOK' /\ WritesTo(d)
<1>1. /\ identity' = [identity EXCEPT ![<<d, n>>] = n]
      /\ enrollment' = [enrollment EXCEPT ![<<d, n>>] = [employee |-> n, state |-> "queued"]]
      /\ Touches(d) /\ UNCHANGED <<people, unmapped, merge, before>> /\ n \in Employees
  BY DEF QueueFingerprint, Employees
<1>2. PeopleOK' /\ Employees' = Employees
  BY <1>1 DEF people, PeopleOK, Employees
<1>3. [employee |-> n, state |-> "queued"] \in EnrollmentRecords
  BY DEF EnrollmentRecords, States
<1>4. Puts(d, n, n, [employee |-> n, state |-> "queued"])
  BY <1>1, <1>2, <1>3 DEF Puts
<1> QED BY <1>1, <1>2, <1>4, PutTyped DEF WritesTo, BindingsOK

LEMMA EndPuts ==
  ASSUME PeopleOK, BindingsOK, NEW d \in Devices, NEW n \in Numbers, EnrollmentEnds(d, n)
  PROVE  BindingsOK' /\ WritesTo(d)
<1>1. PICK ends \in {"synced", "enrolled", "failed"} :
        enrollment' = [enrollment EXCEPT ![<<d, n>>].state = ends]
  BY DEF EnrollmentEnds
<1>2. Touches(d) /\ UNCHANGED <<people, identity, unmapped, merge, before>>
  BY DEF EnrollmentEnds
<1>3. PeopleOK' /\ Employees' = Employees
  BY <1>2 DEF people, PeopleOK, Employees
<1> DEFINE x == [enrollment[<<d, n>>] EXCEPT !.state = ends]
<1>4. x \in EnrollmentRecords /\ x.employee \in Employees \union {None}
  BY KeysOfDevices, IdentityKept DEF EnrollmentRecords, States
<1>5. enrollment' = [enrollment EXCEPT ![<<d, n>>] = x]
  BY <1>1
<1> HIDE DEF x
<1>6. Puts(d, n, identity[<<d, n>>], x)
  BY <1>2, <1>3, <1>4, <1>5, KeysOfDevices, IdentityKept DEF Puts
<1> QED BY <1>2, <1>3, <1>6, PutTyped DEF WritesTo, BindingsOK

LEMMA PunchPuts ==
  ASSUME PeopleOK, BindingsOK, NEW d \in Devices, NEW n \in Numbers, Punch(d, n)
  PROVE  BindingsOK' /\ UNCHANGED <<identity, enrollment, merging>>
<1>1. UNCHANGED <<people, identity, enrollment, merging>>
      /\ unmapped' = [unmapped EXCEPT ![<<d, n>>] = "unmapped"]
  BY DEF Punch
<1>2. Employees' = Employees
  BY <1>1 DEF people, Employees
<1>3. unmapped' \in [Keys -> {"none", "unmapped", "resolved"}]
  BY <1>1 DEF BindingsOK
<1> QED BY <1>1, <1>2, <1>3 DEF BindingsOK

LEMMA RemovePuts ==
  ASSUME PeopleOK, BindingsOK, NEW d \in Devices, FinishRemove(d)
  PROVE  BindingsOK' /\ WritesTo(d)
<1>1. /\ identity' = [k \in Keys |-> IF k[1] = d THEN None ELSE identity[k]]
      /\ enrollment' = [k \in Keys |-> IF k[1] = d THEN NoEnrollment ELSE enrollment[k]]
      /\ unmapped' = [k \in Keys |-> IF k[1] = d THEN "none" ELSE unmapped[k]]
      /\ Touches(d) /\ UNCHANGED <<people, merge, before>>
  BY DEF FinishRemove
<1>2. Employees' = Employees
  BY <1>1 DEF people, Employees
<1>3. NoEnrollment \in EnrollmentRecords /\ NoEnrollment.employee = None
  BY DEF NoEnrollment, EnrollmentRecords, States
<1>4. identity' \in Identities /\ enrollment' \in Enrollments
      /\ unmapped' \in [Keys -> {"none", "unmapped", "resolved"}]
  BY <1>1, <1>3 DEF BindingsOK, Identities, Enrollments
<1>5. \A k \in Keys : /\ identity'[k] \in Employees \union {None}
                      /\ enrollment'[k].employee \in Employees \union {None}
  BY <1>1, <1>3 DEF BindingsOK
<1>6. BindingsOK'
  BY <1>2, <1>4, <1>5 DEF BindingsOK
<1> QED BY <1>1, <1>6 DEF WritesTo

(* A step of the merge between its batches. *)
MergeMoves ==
  /\ UNCHANGED <<people, places, devices, bindings>>
  /\ \/ \E s, t \in Devices : CheckMerge(s, t)
     \/ ReadForMerge \/ AuditMerge \/ MergeDies \/ RepeatMerge

LEMMA TenancySteps ==
  ASSUME PeopleOK, BindingsOK, [TenancyNext]_tenancyVars
  PROVE  \/ UNCHANGED <<identity, enrollment, merging>>
         \/ \E d \in Devices : WritesTo(d)
         \/ MergeMoves \/ CommitBatch
<1> DEFINE G == \/ UNCHANGED <<identity, enrollment, merging>>
                \/ \E d \in Devices : WritesTo(d)
                \/ MergeMoves \/ CommitBatch
<1>1. ASSUME NEW n \in Numbers, NEW b \in Branches, CreateEmployee(n, b) PROVE G
  BY <1>1, CreatePuts
<1>2. ASSUME NEW d \in Devices, NEW n \in Numbers,
             MapDeviceIdentity(d, n) \/ Punch(d, n) \/ QueueFingerprint(d, n) \/ EnrollmentEnds(d, n)
      PROVE  G
  BY <1>2, MapPuts, QueuePuts, EndPuts, PunchPuts
<1>3. ASSUME NEW d \in Devices, FinishRemove(d) PROVE G
  BY <1>3, RemovePuts
<1>4. CASE (\E s, t \in Devices : CheckMerge(s, t)) \/ ReadForMerge \/ AuditMerge \/ MergeDies \/ RepeatMerge
  BY <1>4 DEF MergeMoves, CheckMerge, ReadForMerge, AuditMerge, MergeDies, RepeatMerge
<1>5. CASE UNCHANGED tenancyVars
  BY <1>5 DEF tenancyVars, bindings
<1>6. ASSUME NEW b \in Branches
      PROVE  /\ CreateBranch(b) \/ DeleteBranch(b) => G
             /\ \A u \in Users : Bootstrap(u, b) => G
             /\ \A d \in Devices : ReserveDevice(d, b) => G
  BY DEF bindings, Bootstrap, CreateBranch, DeleteBranch, ReserveDevice
<1>7. /\ ChangePlan => G
      /\ \A t \in Departments : CreateDepartment(t) => G
      /\ \A n \in Numbers : UpdateEmployeeDepartment(n) => G
  BY DEF bindings, ChangePlan, CreateDepartment, UpdateEmployeeDepartment
<1>8. ASSUME NEW d \in Devices
      PROVE  ActivateDevice(d) \/ ProvisioningFails(d) \/ SetDeviceEnabled(d) \/ StartRemove(d) => G
  BY DEF bindings, ActivateDevice, ProvisioningFails, SetDeviceEnabled, StartRemove
<1> QED
  <2> HIDE DEF G
  <2>1. CommitBatch => G
    BY DEF G
  <2> QED BY <1>1, <1>2, <1>3, <1>4, <1>5, <1>6, <1>7, <1>8, <2>1 DEF TenancyNext, G

(* What a batch leaves at the target; the rest is as it was. *)
LEMMA BatchWrites ==
  ASSUME BindingsOK, MergeOK, CommitBatch
  PROVE  \E batch \in SUBSET merge.todo :
           /\ merge' = [merge EXCEPT !.todo = @ \ batch]
           /\ \A k \in Keys :
                /\ \/ identity'[k] = identity[k] /\ \A w \in batch : w.kind = "identity" => k # <<merge.to, w.n>>
                   \/ \E w \in batch : w.kind = "identity" /\ k = <<merge.to, w.n>> /\ identity'[k] = w.employee
                /\ \/ /\ enrollment'[k] = enrollment[k]
                      /\ \A w \in batch : w.kind = "enrollment" => k # <<merge.to, w.n>>
                   \/ \E w \in batch : /\ w.kind = "enrollment" /\ k = <<merge.to, w.n>>
                                       /\ enrollment'[k] = [employee |-> w.employee, state |-> w.state]
<1> DEFINE written(batch, kind, k) == {w \in batch : w.kind = kind /\ k = <<merge.to, w.n>>}
           only(writes) == CHOOSE w \in writes : TRUE
<1>1. PICK batch \in SUBSET merge.todo :
        /\ identity' = [k \in Keys |-> IF written(batch, "identity", k) = {} THEN identity[k]
                                       ELSE only(written(batch, "identity", k)).employee]
        /\ enrollment' = [k \in Keys |-> IF written(batch, "enrollment", k) = {} THEN enrollment[k]
                            ELSE [employee |-> only(written(batch, "enrollment", k)).employee,
                                  state |-> only(written(batch, "enrollment", k)).state]]
        /\ merge' = [merge EXCEPT !.todo = @ \ batch]
  BY DEF CommitBatch
<1>2. ASSUME NEW W, W # {} PROVE only(W) \in W
  BY <1>2
<1>3. ASSUME NEW k \in Keys
      PROVE  \/ identity'[k] = identity[k] /\ \A w \in batch : w.kind = "identity" => k # <<merge.to, w.n>>
             \/ \E w \in batch : w.kind = "identity" /\ k = <<merge.to, w.n>> /\ identity'[k] = w.employee
  <2>1. CASE written(batch, "identity", k) = {}
    BY <1>1, <2>1
  <2>2. CASE written(batch, "identity", k) # {}
    <3>1. only(written(batch, "identity", k)) \in written(batch, "identity", k)
      BY <1>2, <2>2
    <3>2. identity'[k] = only(written(batch, "identity", k)).employee
      BY <1>1, <2>2
    <3> HIDE DEF only
    <3> QED BY <3>1, <3>2
  <2> QED BY <2>1, <2>2
<1>4. ASSUME NEW k \in Keys
      PROVE  \/ /\ enrollment'[k] = enrollment[k]
                /\ \A w \in batch : w.kind = "enrollment" => k # <<merge.to, w.n>>
             \/ \E w \in batch : /\ w.kind = "enrollment" /\ k = <<merge.to, w.n>>
                                 /\ enrollment'[k] = [employee |-> w.employee, state |-> w.state]
  <2>1. CASE written(batch, "enrollment", k) = {}
    BY <1>1, <2>1
  <2>2. CASE written(batch, "enrollment", k) # {}
    <3>1. only(written(batch, "enrollment", k)) \in written(batch, "enrollment", k)
      BY <1>2, <2>2
    <3>2. enrollment'[k] = [employee |-> only(written(batch, "enrollment", k)).employee,
                            state |-> only(written(batch, "enrollment", k)).state]
      BY <1>1, <2>2
    <3> HIDE DEF only
    <3> QED BY <3>1, <3>2
  <2> QED BY <2>1, <2>2
<1>5. merge' = [merge EXCEPT !.todo = @ \ batch]
  BY <1>1
<1> QED BY <1>3, <1>4, <1>5, Zenon

LEMMA BatchTyped ==
  ASSUME PeopleOK, BindingsOK, MergeOK, CommitBatch
  PROVE  BindingsOK' /\ MergeOK'
<1>1. PICK batch \in SUBSET merge.todo :
           /\ merge' = [merge EXCEPT !.todo = @ \ batch]
           /\ \A k \in Keys :
                /\ \/ identity'[k] = identity[k]
                   \/ \E w \in batch : identity'[k] = w.employee
                /\ \/ enrollment'[k] = enrollment[k]
                   \/ \E w \in batch : enrollment'[k] = [employee |-> w.employee, state |-> w.state]
  BY BatchWrites
<1>2. /\ UNCHANGED <<people, before, disturbed>> /\ merge.pc = "writing"
      /\ \E f : identity' = [k \in Keys |-> f[k]]
      /\ \E f : enrollment' = [k \in Keys |-> f[k]]
      /\ unmapped' \in [Keys -> {"none", "unmapped", "resolved"}]
  <2>1. UNCHANGED <<people, before, disturbed>> /\ merge.pc = "writing"
        /\ identity' = [k \in Keys |-> identity'[k]] /\ enrollment' = [k \in Keys |-> enrollment'[k]]
    BY DEF CommitBatch
  <2>2. \A k \in Keys : unmapped[k] \in {"none", "unmapped", "resolved"}
    BY DEF BindingsOK
  <2>3. unmapped' \in [Keys -> {"none", "unmapped", "resolved"}]
    BY <2>2 DEF CommitBatch
  <2>4. \E f : identity' = [k \in Keys |-> f[k]]
    BY <2>1
  <2>5. \E f : enrollment' = [k \in Keys |-> f[k]]
    BY <2>1
  <2> QED BY <2>1, <2>3, <2>4, <2>5
<1>3. Employees' = Employees /\ Employees \subseteq Numbers
  BY <1>2 DEF people, Employees
<1>4. ASSUME NEW w \in merge.todo
      PROVE  w.employee \in Employees /\ [employee |-> w.employee, state |-> w.state] \in EnrollmentRecords
  <2>1. w \in Writes /\ w.employee \in Employees
    BY DEF MergeOK, Merges
  <2> QED BY <1>3, <2>1 DEF Writes, EnrollmentRecords, States
<1>5. \A k \in Keys : identity[k] \in Employees \union {None} /\ enrollment[k] \in EnrollmentRecords
                      /\ enrollment[k].employee \in Employees \union {None}
  BY IdentityKept
<1>6. ASSUME NEW k \in Keys
      PROVE  identity'[k] \in Employees \union {None} /\ enrollment'[k] \in EnrollmentRecords
             /\ enrollment'[k].employee \in Employees \union {None}
  <2>1. identity'[k] \in Employees \union {None}
    BY <1>1, <1>4, <1>5
  <2>2. CASE enrollment'[k] = enrollment[k]
    BY <1>5, <2>1, <2>2
  <2>3. ASSUME NEW w \in batch, enrollment'[k] = [employee |-> w.employee, state |-> w.state]
        PROVE  enrollment'[k] \in EnrollmentRecords /\ enrollment'[k].employee \in Employees
    <3>1. w.employee \in Employees /\ [employee |-> w.employee, state |-> w.state] \in EnrollmentRecords
      BY <1>4
    <3> QED BY <2>3, <3>1
  <2> QED BY <1>1, <2>1, <2>2, <2>3
<1>7. BindingsOK'
  BY <1>2, <1>3, <1>6 DEF BindingsOK, Identities, Enrollments
<1>8. merge' \in Merges /\ merge'.pc = merge.pc /\ merge'.from = merge.from /\ merge'.to = merge.to
      /\ merge'.todo \subseteq merge.todo
  BY <1>1 DEF MergeOK, Merges
<1>9. MergeOK'
  BY <1>2, <1>3, <1>8 DEF MergeOK
<1> QED BY <1>7, <1>9

LEMMA ReadPlans ==
  ASSUME BindingsOK, MergeOK, merge.pc = "checked", NEW w \in AllWrites(merge.from, merge.to)
  PROVE  /\ w \in Writes /\ w.employee \in Employees
         /\ w.n \in Bound(merge.from) /\ w.employee \in OwnersOf(merge.from, w.n)
         /\ w.state = MergedState(merge.from, merge.to, w.n)
<1>1. PICK n \in Bound(merge.from) : w \in WritesFor(merge.from, merge.to, n)
  BY DEF AllWrites
<1>2. merge.from \in Devices /\ n \in Numbers /\ OwnersOf(merge.from, n) # {}
  BY <1>1 DEF MergeOK, Bound
<1> DEFINE e == CHOOSE x \in OwnersOf(merge.from, n) : TRUE
<1>3. e \in OwnersOf(merge.from, n)
  BY <1>2
<1>4. PICK kind \in {"identity", "enrollment", "unmapped"} :
        w = [kind |-> kind, n |-> n, employee |-> e, state |-> MergedState(merge.from, merge.to, n)]
  BY <1>1 DEF WritesFor
<1> HIDE DEF e
<1>5. OwnersOf(merge.from, n) \subseteq Employees
  BY <1>2, KeysOfDevices DEF OwnersOf, BindingsOK
<1>6. e \in Employees /\ e \in Numbers
  BY <1>3, <1>5 DEF Employees
<1>7. MergedState(merge.from, merge.to, n) \in {"enrolled", "synced"}
  BY DEF MergedState
<1>8. w \in Writes
  BY <1>2, <1>4, <1>6, <1>7 DEF Writes
<1> QED BY <1>1, <1>3, <1>4, <1>6, <1>8

LEMMA PlansCover ==
  ASSUME NEW s, NEW t, NEW n \in Bound(s), NEW kind \in {"identity", "enrollment"}
  PROVE  \E w \in AllWrites(s, t) : w.kind = kind /\ w.n = n
<1> DEFINE write(x) == [kind |-> x, n |-> n, employee |-> CHOOSE e \in OwnersOf(s, n) : TRUE,
                        state |-> MergedState(s, t, n)]
<1>1. write(kind) \in WritesFor(s, t, n)
  BY DEF WritesFor
<1>2. write(kind) \in AllWrites(s, t)
  BY <1>1 DEF AllWrites
<1> QED BY <1>2

LEMMA MergeTyped ==
  ASSUME BindingsOK, MergeOK, MergeMoves
  PROVE  MergeOK'
<1>1. Employees' = Employees /\ UNCHANGED bindings
  BY DEF MergeMoves, people, Employees
<1>2. ASSUME NEW s \in Devices, NEW t \in Devices, CheckMerge(s, t) PROVE MergeOK'
  BY <1>2 DEF CheckMerge, MergeOK, Merges, BindingsOK
<1>3. CASE ReadForMerge
  <2>1. UNCHANGED <<before, disturbed>> /\ merge.pc = "checked"
    BY <1>3 DEF ReadForMerge
  <2>2. CASE merge' = NoMerge
    <3>1. NoMerge \in Merges /\ NoMerge.pc = "idle" /\ NoMerge.todo = {}
      BY DEF NoMerge, Merges
    <3> QED BY <2>1, <2>2, <3>1 DEF MergeOK
  <2>3. CASE merge' = [merge EXCEPT !.pc = "writing", !.todo = AllWrites(merge.from, merge.to)]
    <3> DEFINE W == AllWrites(merge.from, merge.to)
    <3>1. \A w \in W : w \in Writes /\ w.employee \in Employees
      BY <2>1, ReadPlans
    <3> HIDE DEF W
    <3>2. W \subseteq Writes
      BY <3>1
    <3>3. merge' = [merge EXCEPT !.pc = "writing", !.todo = W]
      BY <2>3 DEF W
    <3>4. merge' \in Merges /\ merge'.pc = "writing" /\ merge'.todo = W
          /\ merge'.from = merge.from /\ merge'.to = merge.to
      BY <3>2, <3>3 DEF MergeOK, Merges
    <3> QED BY <1>1, <2>1, <3>1, <3>4 DEF MergeOK
  <2> QED BY <1>3, <2>2, <2>3 DEF ReadForMerge
<1>4. CASE AuditMerge \/ MergeDies \/ RepeatMerge
  <2>1. UNCHANGED <<before, disturbed>> /\ merge' \in Merges /\ merge.pc # "idle"
        /\ merge'.from = merge.from /\ merge'.to = merge.to /\ merge'.todo = {}
    BY <1>4 DEF AuditMerge, MergeDies, RepeatMerge, MergeOK, Merges
  <2> QED BY <2>1 DEF MergeOK
<1> QED BY <1>2, <1>3, <1>4 DEF MergeMoves

LEMMA BindingsStep ==
  ASSUME OrganizationOK, [TenancyNext]_tenancyVars
  PROVE  BindingsOK'
<1>1. PeopleOK /\ BindingsOK /\ MergeOK /\ PeopleOK' /\ Employees \subseteq Employees'
  BY PeopleStep DEF OrganizationOK
<1>2. CASE UNCHANGED bindings
  BY <1>1, <1>2 DEF bindings, BindingsOK
<1> QED BY <1>1, <1>2, BindingsChange, CreatePuts, MapPuts, QueuePuts, EndPuts, PunchPuts, RemovePuts, BatchTyped

LEMMA MergeStep ==
  ASSUME OrganizationOK, [TenancyNext]_tenancyVars
  PROVE  MergeOK'
<1>1. PeopleOK /\ BindingsOK /\ MergeOK /\ Employees \subseteq Employees'
  BY PeopleStep DEF OrganizationOK
<1>2. CASE UNCHANGED merging
  BY <1>1, <1>2 DEF merging, MergeOK
<1>3. ASSUME NEW d \in Devices, WritesTo(d) PROVE MergeOK'
  <2>1. UNCHANGED <<merge, before>> /\ disturbed' \in BOOLEAN
    BY <1>3 DEF WritesTo, Touches
  <2> QED BY <1>1, <2>1 DEF MergeOK
<1> QED BY <1>1, <1>2, <1>3, TenancySteps, MergeTyped, BatchTyped

LEMMA InitTenancy == TenancyInit => OrganizationOK
<1> SUFFICES ASSUME TenancyInit PROVE OrganizationOK
  OBVIOUS
<1>1. PlacesOK
  BY DEF TenancyInit, PlacesOK
<1>2. PeopleOK
  BY DEF TenancyInit, PeopleOK, EmployeeRecords, NotEmployed, Employees
<1>3. DevicesOK
  BY DEF TenancyInit, DevicesOK, RegistryRecords, DocumentRecords, DeviceStates, NotRegistered, NoDocument
<1>4. identity \in Identities /\ enrollment \in Enrollments
  BY DEF TenancyInit, Identities, Enrollments, NoEnrollment, EnrollmentRecords, States
<1>5. BindingsOK
  BY <1>4 DEF TenancyInit, BindingsOK, NoEnrollment
<1>6. MergeOK
  BY <1>4 DEF TenancyInit, MergeOK, Merges, NoMerge
<1>7. PlanOK
  BY SizesAssumption DEF TenancyInit, PlanOK
<1> QED BY <1>1, <1>2, <1>3, <1>5, <1>6, <1>7 DEF OrganizationOK

LEMMA NextTenancy == OrganizationOK /\ [TenancyNext]_tenancyVars => OrganizationOK'
BY PlacesStep, PeopleStep, DevicesStep, BindingsStep, MergeStep, PlanStep DEF OrganizationOK

(* The organization's documents keep their types; what refers to a branch  *)
(* or an employee refers to one that was created, and no employee is ever  *)
(* lost, for any branches, devices, numbers and plans.                     *)
THEOREM TenancyTypes == TenancySpec => []TenancyTypeOK
<1>1. TenancySpec => []OrganizationOK
  BY InitTenancy, NextTenancy, PTL DEF TenancySpec
<1> QED BY <1>1, OrganizationIsTyped, PTL

-----------------------------------------------------------------------------
(* Staff and plan.                                                         *)

(* Where people work, after a step. *)
LEMMA StaffMoves ==
  ASSUME PeopleOK, [TenancyNext]_tenancyVars
  PROVE  \/ Employees' = Employees /\ \A n \in Numbers : employee'[n].branch = employee[n].branch
         \/ \E n \in Numbers, b \in Branches : CreateEmployee(n, b)
<1>1. CASE UNCHANGED people
  BY <1>1 DEF people, Employees
<1>2. ASSUME NEW t \in Departments, CreateDepartment(t)
      PROVE  Employees' = Employees /\ \A n \in Numbers : employee'[n].branch = employee[n].branch
  BY <1>2 DEF CreateDepartment, Employees
<1> QED BY <1>1, <1>2, PeopleChange, DepartmentUpdated

LEMMA NextStaff ==
  OrganizationOK /\ StaffInActiveBranches /\ [TenancyNext]_tenancyVars => StaffInActiveBranches'
<1> SUFFICES ASSUME OrganizationOK, StaffInActiveBranches, [TenancyNext]_tenancyVars
             PROVE  StaffInActiveBranches'
  OBVIOUS
<1>1. PeopleOK /\ PlacesOK /\ Employees \subseteq Numbers
  BY DEF OrganizationOK, Employees
<1>2. ASSUME NEW b \in Branches, DeleteBranch(b) PROVE StaffInActiveBranches'
  <2>1. UNCHANGED <<employee, primary>> /\ Employees' = Employees
        /\ branch' = [branch EXCEPT ![b] = "inactive"]
    BY <1>2 DEF DeleteBranch, people, Employees
  <2>2. b # primary /\ \A n \in Employees : employee[n].branch # b
    BY <1>2 DEF DeleteBranch, Unused
  <2>3. \A c \in Branches : c # b => branch'[c] = branch[c]
    BY <1>1, <2>1 DEF PlacesOK
  <2> QED BY <1>1, <2>1, <2>2, <2>3 DEF StaffInActiveBranches, PeopleOK, PlacesOK
<1>3. ASSUME NEW b \in Branches, CreateBranch(b) \/ \E u \in Users : Bootstrap(u, b)
      PROVE  StaffInActiveBranches'
  <2>1. UNCHANGED employee /\ Employees' = Employees /\ branch' = [branch EXCEPT ![b] = "active"]
        /\ (primary' = primary \/ primary' = b)
    BY <1>3 DEF CreateBranch, Bootstrap, people, Employees
  <2>2. branch'[b] = "active" /\ \A c \in Branches : c # b => branch'[c] = branch[c]
    BY <1>1, <2>1 DEF PlacesOK
  <2> QED BY <1>1, <2>1, <2>2 DEF StaffInActiveBranches, PeopleOK, PlacesOK
<1>4. ASSUME NEW n \in Numbers, NEW b \in Branches, CreateEmployee(n, b) PROVE StaffInActiveBranches'
  <2>1. UNCHANGED <<branch, primary>> /\ branch[b] = "active"
    BY <1>4 DEF CreateEmployee, places, BranchIsActive
  <2>2. /\ Employees' = Employees \union {n} /\ employee'[n].branch = b
        /\ \A m \in Numbers : m # n => employee'[m] = employee[m]
    BY <1>1, <1>4, EmployeeCreated
  <2> QED BY <1>1, <2>1, <2>2 DEF StaffInActiveBranches
<1>5. CASE UNCHANGED places
  <2>1. CASE Employees' = Employees /\ \A n \in Numbers : employee'[n].branch = employee[n].branch
    BY <1>1, <1>5, <2>1 DEF StaffInActiveBranches, places
  <2> QED BY <1>1, <1>4, <2>1, StaffMoves
<1> QED BY <1>2, <1>3, <1>5, PlacesChange

(* Everybody works at an active branch, however creations and deletions of *)
(* branches and employees interleave, and the primary branch is never      *)
(* deleted (createEmployee, deleteBranch).                                 *)
THEOREM StaffAlwaysInActiveBranches == TenancySpec => []StaffInActiveBranches
<1>1. TenancySpec => []OrganizationOK
  BY InitTenancy, NextTenancy, PTL DEF TenancySpec
<1>2. TenancyInit => StaffInActiveBranches
  BY DEF TenancyInit, StaffInActiveBranches, Employees
<1> QED BY <1>1, <1>2, NextStaff, PTL DEF TenancySpec

(* What is counted against the plan is finite. *)
CountedInv == IsFiniteSet(Employees) /\ IsFiniteSet(ActiveBranches)

LEMMA BranchesCounted ==
  ASSUME PlacesOK, [TenancyNext]_tenancyVars
  PROVE  \/ ActiveBranches' = ActiveBranches
         \/ \E b \in ActiveBranches : ActiveBranches' = ActiveBranches \ {b}
         \/ \E b \in Branches : /\ ActiveBranches' = ActiveBranches \union {b}
                                /\ \/ primary = None
                                   \/ CreateBranch(b) /\ b \notin ActiveBranches
<1>1. CASE UNCHANGED places
  BY <1>1 DEF places, ActiveBranches
<1>2. ASSUME NEW b \in Branches, NEW u \in Users, Bootstrap(u, b)
      PROVE  primary = None /\ ActiveBranches' = ActiveBranches \union {b}
  BY <1>2 DEF Bootstrap, ActiveBranches, PlacesOK
<1>3. ASSUME NEW b \in Branches, CreateBranch(b)
      PROVE  b \notin ActiveBranches /\ ActiveBranches' = ActiveBranches \union {b}
  BY <1>3 DEF CreateBranch, ActiveBranches, PlacesOK
<1>4. ASSUME NEW b \in Branches, DeleteBranch(b)
      PROVE  b \in ActiveBranches /\ ActiveBranches' = ActiveBranches \ {b}
  BY <1>4 DEF DeleteBranch, ActiveBranches, PlacesOK
<1> QED BY <1>1, <1>2, <1>3, <1>4, PlacesChange

LEMMA NextCounted ==
  OrganizationOK /\ CountedInv /\ [TenancyNext]_tenancyVars => CountedInv'
<1> SUFFICES ASSUME OrganizationOK, CountedInv, [TenancyNext]_tenancyVars PROVE CountedInv'
  OBVIOUS
<1>1. IsFiniteSet(Employees')
  BY StaffMoves, EmployeeCreated, FS_AddElement DEF OrganizationOK, CountedInv
<1>2. IsFiniteSet(ActiveBranches')
  BY BranchesCounted, FS_AddElement, FS_RemoveElement DEF OrganizationOK, CountedInv
<1> QED BY <1>1, <1>2 DEF CountedInv

LEMMA OneMore ==
  ASSUME NEW S, IsFiniteSet(S), NEW x, x \notin S, NEW limit \in Limits, WithinLimit(S, limit)
  PROVE  Allows(limit, Cardinality(S \union {x}))
<1>1. Cardinality(S) \in Nat /\ Cardinality(S \union {x}) = Cardinality(S) + 1
  BY FS_AddElement, FS_CardinalityType
<1> QED BY <1>1, SizesAssumption DEF WithinLimit, Limits, Allows

LEMMA PlanKept ==
  ASSUME OrganizationOK, CountedInv, [TenancyNext]_tenancyVars
  PROVE  /\ Cardinality(Employees') > Cardinality(Employees) =>
              plan # None /\ Allows(plan.employees, Cardinality(Employees'))
         /\ Cardinality(ActiveBranches') > Cardinality(ActiveBranches) /\ primary # None =>
              plan # None /\ Allows(plan.branches, Cardinality(ActiveBranches'))
<1>1. /\ PeopleOK /\ PlacesOK /\ plan \in Plans \union {None}
      /\ IsFiniteSet(Employees) /\ IsFiniteSet(ActiveBranches)
      /\ Cardinality(Employees) \in Nat /\ Cardinality(ActiveBranches) \in Nat
  BY FS_CardinalityType DEF OrganizationOK, PlanOK, CountedInv
<1>2. plan # None => plan.employees \in Limits /\ plan.branches \in Limits
  BY <1>1, SizesAssumption DEF Limits
<1>3. ASSUME Cardinality(Employees') > Cardinality(Employees)
      PROVE  plan # None /\ Allows(plan.employees, Cardinality(Employees'))
  <2>1. PICK n \in Numbers, b \in Branches : CreateEmployee(n, b)
    BY <1>1, <1>3, StaffMoves
  <2>2. plan # None /\ WithinLimit(Employees, plan.employees)
    BY <2>1 DEF CreateEmployee
  <2>3. n \notin Employees /\ Employees' = Employees \union {n}
    BY <1>1, <2>1, EmployeeCreated
  <2> QED BY <1>1, <1>2, <2>2, <2>3, OneMore
<1>4. ASSUME Cardinality(ActiveBranches') > Cardinality(ActiveBranches), primary # None
      PROVE  plan # None /\ Allows(plan.branches, Cardinality(ActiveBranches'))
  <2>1. ASSUME NEW b \in ActiveBranches, ActiveBranches' = ActiveBranches \ {b} PROVE FALSE
    <3>1. Cardinality(ActiveBranches \ {b}) = Cardinality(ActiveBranches) - 1
      BY <1>1, FS_RemoveElement
    <3> QED BY <1>1, <1>4, <2>1, <3>1
  <2>2. PICK b \in Branches : /\ ActiveBranches' = ActiveBranches \union {b}
                              /\ CreateBranch(b) /\ b \notin ActiveBranches
    BY <1>1, <1>4, <2>1, BranchesCounted
  <2>3. plan # None /\ WithinLimit(ActiveBranches, plan.branches)
    BY <2>2 DEF CreateBranch
  <2> QED BY <1>1, <1>2, <2>2, <2>3, OneMore
<1> QED BY <1>3, <1>4

(* No step creates an employee or a branch beyond the plan in force, for   *)
(* any plans and any changes of plan; the founding's branch is free        *)
(* (assertCreationWithinLimit in the transaction that creates).            *)
THEOREM AlwaysWithinPlan == TenancySpec => WithinPlan
<1>1. TenancySpec => []OrganizationOK
  BY InitTenancy, NextTenancy, PTL DEF TenancySpec
<1>2. TenancyInit => CountedInv
  <2> SUFFICES ASSUME TenancyInit PROVE CountedInv
    OBVIOUS
  <2>1. Employees = {} /\ ActiveBranches = {}
    BY DEF TenancyInit, Employees, ActiveBranches
  <2> QED BY <2>1, FS_EmptySet DEF CountedInv
<1>3. TenancySpec => []CountedInv
  BY <1>1, <1>2, NextCounted, PTL DEF TenancySpec
<1>4. OrganizationOK /\ CountedInv /\ [TenancyNext]_tenancyVars =>
        [/\ Cardinality(Employees') > Cardinality(Employees) =>
              plan # None /\ Allows(plan.employees, Cardinality(Employees'))
         /\ Cardinality(ActiveBranches') > Cardinality(ActiveBranches) /\ primary # None =>
              plan # None /\ Allows(plan.branches, Cardinality(ActiveBranches'))]_tenancyVars
  BY PlanKept
<1> QED BY <1>1, <1>3, <1>4, PTL DEF TenancySpec, WithinPlan

-----------------------------------------------------------------------------
(* The merge.  Between its batches the target has, number by number, what  *)
(* it had before or what the merge gives it, and what it is not given yet  *)
(* is still planned; so the reads of a repeated merge, which find a mix of *)
(* both, plan the same writes again.                                       *)

SourceOwners(n) ==
  {before.identity[<<merge.from, n>>], before.enrollment[<<merge.from, n>>].employee} \ {None}

StateMerged(n) ==
  IF "enrolled" \in {before.enrollment[<<merge.from, n>>].state, before.enrollment[<<merge.to, n>>].state}
    THEN "enrolled" ELSE "synced"

IdentityMerged(n) ==
  /\ identity[<<merge.to, n>>] \in SourceOwners(n)
  /\ before.identity[<<merge.to, n>>] \in {None, identity[<<merge.to, n>>]}

EnrollmentMerged(n) ==
  /\ enrollment[<<merge.to, n>>].employee \in SourceOwners(n)
  /\ enrollment[<<merge.to, n>>].state = StateMerged(n)

SourceKept == \A n \in Numbers :
  /\ identity[<<merge.from, n>>] = before.identity[<<merge.from, n>>]
  /\ enrollment[<<merge.from, n>>] = before.enrollment[<<merge.from, n>>]

TargetMidway == \A n \in Numbers :
  /\ identity[<<merge.to, n>>] = before.identity[<<merge.to, n>>] \/ IdentityMerged(n)
  /\ enrollment[<<merge.to, n>>] = before.enrollment[<<merge.to, n>>] \/ EnrollmentMerged(n)

RightWrite(w) ==
  /\ w.employee \in SourceOwners(w.n) /\ w.state = StateMerged(w.n)
  /\ before.identity[<<merge.to, w.n>>] \in {None, w.employee}

Planned(kind, n) == \E w \in merge.todo : w.kind = kind /\ w.n = n

RestIsPlanned ==
  /\ \A w \in merge.todo : RightWrite(w)
  /\ \A n \in Numbers : SourceOwners(n) # {} =>
       /\ \A e, f \in SourceOwners(n) : e = f
       /\ IdentityMerged(n) \/ Planned("identity", n)
       /\ EnrollmentMerged(n) \/ Planned("enrollment", n)

MergeInv == merge.pc # "idle" /\ ~disturbed =>
  SourceKept /\ TargetMidway /\ (merge.pc \in {"writing", "done"} => RestIsPlanned)

LEMMA CompleteWhenDone == OrganizationOK /\ MergeInv => MergeIsComplete
<1> SUFFICES ASSUME OrganizationOK, MergeInv, merge.pc = "done", ~disturbed, NEW n \in Numbers
             PROVE  LET s == <<merge.from, n>>
                        t == <<merge.to, n>>
                        bound == {before.identity[s], before.enrollment[s].employee} \ {None}
                        states == {before.enrollment[s].state, before.enrollment[t].state}
                    IN /\ identity[s] = before.identity[s] /\ enrollment[s] = before.enrollment[s]
                       /\ IF bound = {}
                            THEN identity[t] = before.identity[t] /\ enrollment[t] = before.enrollment[t]
                            ELSE /\ identity[t] \in bound /\ enrollment[t].employee = identity[t]
                                 /\ before.identity[t] \in {None, identity[t]}
                                 /\ enrollment[t].state = "enrolled" <=> "enrolled" \in states
  BY DEF MergeIsComplete
<1>1. SourceKept /\ TargetMidway /\ RestIsPlanned
  BY DEF MergeInv
<1>2. merge.todo = {}
  BY DEF OrganizationOK, MergeOK
<1>3. CASE SourceOwners(n) = {}
  <2>1. identity[<<merge.to, n>>] = before.identity[<<merge.to, n>>]
        /\ enrollment[<<merge.to, n>>] = before.enrollment[<<merge.to, n>>]
    BY <1>1, <1>3 DEF TargetMidway, IdentityMerged, EnrollmentMerged
  <2> QED BY <1>1, <1>3, <2>1 DEF SourceKept, SourceOwners
<1>4. CASE SourceOwners(n) # {}
  <2>1. IdentityMerged(n) /\ EnrollmentMerged(n) /\ \A e, f \in SourceOwners(n) : e = f
    BY <1>1, <1>2, <1>4 DEF RestIsPlanned, Planned
  <2>2. enrollment[<<merge.to, n>>].employee = identity[<<merge.to, n>>]
    BY <2>1 DEF IdentityMerged, EnrollmentMerged
  <2>3. enrollment[<<merge.to, n>>].state = "enrolled" <=>
          "enrolled" \in {before.enrollment[<<merge.from, n>>].state, before.enrollment[<<merge.to, n>>].state}
    BY <2>1 DEF EnrollmentMerged, StateMerged
  <2> QED BY <1>1, <1>4, <2>1, <2>2, <2>3 DEF SourceKept, SourceOwners, IdentityMerged
<1> QED BY <1>3, <1>4

(* The invariant reads the two devices, and nothing else of the bindings. *)
LEMMA MergeInvKept ==
  ASSUME MergeInv, UNCHANGED <<merge, before>>, ~disturbed' => ~disturbed,
         ~disturbed' /\ merge.pc # "idle" =>
           \A n \in Numbers : /\ identity'[<<merge.from, n>>] = identity[<<merge.from, n>>]
                              /\ identity'[<<merge.to, n>>] = identity[<<merge.to, n>>]
                              /\ enrollment'[<<merge.from, n>>] = enrollment[<<merge.from, n>>]
                              /\ enrollment'[<<merge.to, n>>] = enrollment[<<merge.to, n>>]
  PROVE  MergeInv'
<1> SUFFICES ASSUME merge.pc # "idle", ~disturbed'
             PROVE  (SourceKept /\ TargetMidway /\ (merge.pc \in {"writing", "done"} => RestIsPlanned))'
  BY DEF MergeInv
<1>1. SourceKept /\ TargetMidway /\ (merge.pc \in {"writing", "done"} => RestIsPlanned)
  BY DEF MergeInv
<1>2. \A n \in Numbers : SourceOwners(n)' = SourceOwners(n) /\ StateMerged(n)' = StateMerged(n)
  BY DEF SourceOwners, StateMerged
<1>3. \A n \in Numbers : (IdentityMerged(n) => IdentityMerged(n)') /\ (EnrollmentMerged(n) => EnrollmentMerged(n)')
  BY <1>2 DEF IdentityMerged, EnrollmentMerged
<1>4. SourceKept'
  BY <1>1 DEF SourceKept
<1>5. TargetMidway'
  BY <1>1, <1>3 DEF TargetMidway
<1>6. ASSUME RestIsPlanned PROVE RestIsPlanned'
  <2>1. \A w : RightWrite(w) => RightWrite(w)'
    BY DEF RightWrite, SourceOwners, StateMerged
  <2>2. \A n, kind : Planned(kind, n) => Planned(kind, n)'
    BY DEF Planned
  <2> QED BY <1>2, <1>3, <1>6, <2>1, <2>2 DEF RestIsPlanned
<1> QED BY <1>1, <1>4, <1>5, <1>6

(* Two employees of one number are two, and a conflict. *)
LEMMA OneOwner ==
  ASSUME NEW a, NEW b, NEW S, S \subseteq {a, b}, ~(Cardinality(S) > 1)
  PROVE  \A e, f \in S : e = f
<1> SUFFICES ASSUME NEW e \in S, NEW f \in S, e # f PROVE FALSE
  OBVIOUS
<1>1. S = {e} \union {f}
  OBVIOUS
<1>2. IsFiniteSet({e}) /\ Cardinality({e}) = 1
  BY FS_Singleton
<1>3. Cardinality({e} \union {f}) = 1 + 1
  BY <1>2, FS_AddElement
<1> QED BY <1>1, <1>3

(* A merge that has just been checked has changed nothing. *)
LEMMA CheckedMidway ==
  ASSUME NEW s \in Devices, NEW t \in Devices, CheckMerge(s, t)
  PROVE  MergeInv'
<1>1. /\ UNCHANGED <<identity, enrollment>>
      /\ before' = [identity |-> identity, enrollment |-> enrollment]
      /\ merge' = [pc |-> "checked", from |-> s, to |-> t, todo |-> {}]
  BY DEF CheckMerge, bindings
<1>2. before'.identity = identity' /\ before'.enrollment = enrollment' /\ merge'.pc = "checked"
  BY <1>1
<1> QED BY <1>2 DEF MergeInv, SourceKept, TargetMidway

(* What the reads find when they are no conflict: the owner before, and    *)
(* the state that both had before, even when half of it is written.        *)
LEMMA ReadsAsBefore ==
  ASSUME MergeOK, SourceKept, TargetMidway, merge.pc = "checked",
         ~Conflict(merge.from, merge.to), NEW n \in Numbers
  PROVE  /\ OwnersOf(merge.from, n) = SourceOwners(n)
         /\ MergedState(merge.from, merge.to, n) = StateMerged(n)
         /\ SourceOwners(n) # {} =>
              /\ \A e, f \in SourceOwners(n) : e = f
              /\ \A e \in SourceOwners(n) : before.identity[<<merge.to, n>>] \in {None, e}
<1>1. OwnersOf(merge.from, n) = SourceOwners(n)
  BY DEF SourceKept, OwnersOf, SourceOwners
<1>2. MergedState(merge.from, merge.to, n) = StateMerged(n)
  BY DEF SourceKept, TargetMidway, EnrollmentMerged, MergedState, StateMerged
<1>3. ASSUME SourceOwners(n) # {}
      PROVE  /\ \A e, f \in SourceOwners(n) : e = f
             /\ \A e \in SourceOwners(n) : before.identity[<<merge.to, n>>] \in {None, e}
  <2>1. n \in Bound(merge.from)
    BY <1>1, <1>3 DEF Bound
  <2>2. ~(Cardinality(OwnersOf(merge.from, n)) > 1)
    BY <2>1 DEF Conflict
  <2>3. \A e, f \in SourceOwners(n) : e = f
    BY <1>1, <2>2, OneOwner DEF OwnersOf
  <2>4. n \in Bound(merge.to) => OwnersOf(merge.to, n) = SourceOwners(n)
    BY <1>1, <2>1 DEF Conflict
  <2>5. identity[<<merge.to, n>>] \in SourceOwners(n) \union {None}
    BY <2>4 DEF Bound, OwnersOf
  <2>6. before.identity[<<merge.to, n>>] \in SourceOwners(n) \union {None}
    BY <2>5 DEF TargetMidway, IdentityMerged
  <2> QED BY <2>3, <2>6
<1> QED BY <1>1, <1>2, <1>3

LEMMA ReadPlansTheRest ==
  ASSUME OrganizationOK, MergeInv, ReadForMerge
  PROVE  MergeInv'
<1>1. merge.pc = "checked" /\ UNCHANGED <<identity, enrollment, before, disturbed>>
      /\ MergeOK /\ BindingsOK
  BY DEF ReadForMerge, bindings, OrganizationOK
<1>2. CASE merge' = NoMerge
  BY <1>2 DEF NoMerge, MergeInv
<1>3. ASSUME ~Conflict(merge.from, merge.to), ~disturbed,
             merge' = [merge EXCEPT !.pc = "writing", !.todo = AllWrites(merge.from, merge.to)]
      PROVE  MergeInv'
  <2> DEFINE W == AllWrites(merge.from, merge.to)
  <2>1. merge'.pc = "writing" /\ merge'.from = merge.from /\ merge'.to = merge.to /\ merge'.todo = W
    BY <1>3 DEF MergeOK, Merges
  <2>2. SourceKept /\ TargetMidway
    BY <1>1, <1>3 DEF MergeInv
  <2>3. \A n \in Numbers : SourceOwners(n)' = SourceOwners(n) /\ StateMerged(n)' = StateMerged(n)
    BY <1>1, <2>1 DEF SourceOwners, StateMerged
  <2>4. SourceKept' /\ TargetMidway'
    BY <1>1, <2>1, <2>2, <2>3 DEF SourceKept, TargetMidway, IdentityMerged, EnrollmentMerged
  <2>5. ASSUME NEW w \in W PROVE RightWrite(w)'
    <3>1. w \in Writes /\ w.employee \in OwnersOf(merge.from, w.n)
          /\ w.state = MergedState(merge.from, merge.to, w.n)
      BY <1>1, ReadPlans
    <3>2. w.n \in Numbers
      BY <3>1 DEF Writes
    <3>3. w.employee \in SourceOwners(w.n) /\ w.state = StateMerged(w.n)
          /\ before.identity[<<merge.to, w.n>>] \in {None, w.employee}
      BY <1>1, <1>3, <2>2, <3>1, <3>2, ReadsAsBefore
    <3> QED BY <1>1, <2>1, <2>3, <3>2, <3>3 DEF RightWrite
  <2>6. ASSUME NEW n \in Numbers, SourceOwners(n) # {}
        PROVE  /\ \A e, f \in SourceOwners(n) : e = f
               /\ \E w \in W : w.kind = "identity" /\ w.n = n
               /\ \E w \in W : w.kind = "enrollment" /\ w.n = n
    <3>1. OwnersOf(merge.from, n) = SourceOwners(n) /\ \A e, f \in SourceOwners(n) : e = f
      BY <1>1, <1>3, <2>2, <2>6, ReadsAsBefore
    <3>2. n \in Bound(merge.from)
      BY <2>6, <3>1 DEF Bound
    <3> QED BY <3>1, <3>2, PlansCover
  <2> HIDE DEF W
  <2>7. RestIsPlanned'
    BY <2>1, <2>3, <2>5, <2>6 DEF RestIsPlanned, Planned
  <2> QED BY <2>4, <2>7 DEF MergeInv
<1> QED BY <1>1, <1>2, <1>3 DEF ReadForMerge, MergeInv

LEMMA BatchMerges ==
  ASSUME OrganizationOK, MergeInv, CommitBatch
  PROVE  MergeInv'
<1> SUFFICES ASSUME ~disturbed' PROVE MergeInv'
  BY DEF MergeInv
<1>1. merge.pc = "writing" /\ UNCHANGED <<before, disturbed>> /\ MergeOK /\ BindingsOK
  BY DEF CommitBatch, OrganizationOK
<1>2. SourceKept /\ TargetMidway /\ RestIsPlanned /\ merge.from # merge.to
      /\ merge.from \in Devices /\ merge.to \in Devices
  BY <1>1 DEF MergeInv, MergeOK
<1>3. PICK batch \in SUBSET merge.todo :
        /\ merge' = [merge EXCEPT !.todo = @ \ batch]
        /\ \A k \in Keys :
             /\ \/ identity'[k] = identity[k] /\ \A w \in batch : w.kind = "identity" => k # <<merge.to, w.n>>
                \/ \E w \in batch : w.kind = "identity" /\ k = <<merge.to, w.n>> /\ identity'[k] = w.employee
             /\ \/ /\ enrollment'[k] = enrollment[k]
                   /\ \A w \in batch : w.kind = "enrollment" => k # <<merge.to, w.n>>
                \/ \E w \in batch : /\ w.kind = "enrollment" /\ k = <<merge.to, w.n>>
                                    /\ enrollment'[k] = [employee |-> w.employee, state |-> w.state]
  BY <1>1, BatchWrites
<1>4. merge'.pc = "writing" /\ merge'.from = merge.from /\ merge'.to = merge.to
      /\ merge'.todo = merge.todo \ batch
  BY <1>1, <1>3 DEF MergeOK, Merges
<1>5. \A n \in Numbers : SourceOwners(n)' = SourceOwners(n) /\ StateMerged(n)' = StateMerged(n)
  BY <1>1, <1>4 DEF SourceOwners, StateMerged
<1>6. \A w \in batch : RightWrite(w) /\ w \in merge.todo
  BY <1>2, <1>3 DEF RestIsPlanned
<1>7. SourceKept'
  <2>1. ASSUME NEW n \in Numbers
        PROVE  /\ identity'[<<merge.from, n>>] = identity[<<merge.from, n>>]
               /\ enrollment'[<<merge.from, n>>] = enrollment[<<merge.from, n>>]
    <3>1. <<merge.from, n>> \in Keys /\ \A w : <<merge.from, n>> # <<merge.to, w.n>>
      BY <1>2, KeysOfDevices
    <3> QED BY <1>3, <3>1
  <2> QED BY <1>1, <1>2, <1>4, <2>1 DEF SourceKept
<1>8. ASSUME NEW n \in Numbers
      PROVE  /\ \/ identity'[<<merge.to, n>>] = identity[<<merge.to, n>>]
                   /\ \A w \in batch : w.kind = "identity" => w.n # n
                \/ IdentityMerged(n)'
             /\ \/ enrollment'[<<merge.to, n>>] = enrollment[<<merge.to, n>>]
                   /\ \A w \in batch : w.kind = "enrollment" => w.n # n
                \/ EnrollmentMerged(n)'
  <2>1. <<merge.to, n>> \in Keys
    BY <1>2, KeysOfDevices
  <2>2. ASSUME NEW w \in batch, <<merge.to, n>> = <<merge.to, w.n>>, identity'[<<merge.to, n>>] = w.employee
        PROVE  IdentityMerged(n)'
    <3>1. RightWrite(w) /\ w.n = n
      BY <1>6, <2>2
    <3> QED BY <1>1, <1>4, <1>5, <2>2, <3>1 DEF IdentityMerged, RightWrite
  <2>3. ASSUME NEW w \in batch, <<merge.to, n>> = <<merge.to, w.n>>,
               enrollment'[<<merge.to, n>>] = [employee |-> w.employee, state |-> w.state]
        PROVE  EnrollmentMerged(n)'
    <3>1. RightWrite(w) /\ w.n = n
      BY <1>6, <2>3
    <3> QED BY <1>1, <1>4, <1>5, <2>3, <3>1 DEF EnrollmentMerged, RightWrite
  <2> QED BY <1>3, <2>1, <2>2, <2>3
<1>9. \A n \in Numbers : (IdentityMerged(n) => IdentityMerged(n)') /\ (EnrollmentMerged(n) => EnrollmentMerged(n)')
  BY <1>1, <1>4, <1>5, <1>8 DEF IdentityMerged, EnrollmentMerged
<1>10. TargetMidway'
  BY <1>1, <1>2, <1>4, <1>8, <1>9 DEF TargetMidway
<1>11. RestIsPlanned'
  <2>1. \A w \in merge'.todo : RightWrite(w)'
    BY <1>1, <1>2, <1>4, <1>5 DEF RestIsPlanned, RightWrite, SourceOwners, StateMerged
  <2>2. ASSUME NEW n \in Numbers, SourceOwners(n) # {}
        PROVE  /\ \A e, f \in SourceOwners(n) : e = f
               /\ IdentityMerged(n)' \/ Planned("identity", n)'
               /\ EnrollmentMerged(n)' \/ Planned("enrollment", n)'
    <3>1. /\ \A e, f \in SourceOwners(n) : e = f
          /\ IdentityMerged(n) \/ Planned("identity", n)
          /\ EnrollmentMerged(n) \/ Planned("enrollment", n)
      BY <1>2, <2>2 DEF RestIsPlanned
    <3>2. Planned("identity", n) => IdentityMerged(n)' \/ Planned("identity", n)'
      BY <1>4, <1>8 DEF Planned
    <3>3. Planned("enrollment", n) => EnrollmentMerged(n)' \/ Planned("enrollment", n)'
      BY <1>4, <1>8 DEF Planned
    <3> QED BY <1>9, <3>1, <3>2, <3>3
  <2> QED BY <1>5, <2>1, <2>2 DEF RestIsPlanned
<1> QED BY <1>7, <1>10, <1>11 DEF MergeInv

LEMMA NextMerge ==
  OrganizationOK /\ MergeInv /\ [TenancyNext]_tenancyVars => MergeInv'
<1> SUFFICES ASSUME OrganizationOK, MergeInv, [TenancyNext]_tenancyVars PROVE MergeInv'
  OBVIOUS
<1>1. CASE UNCHANGED <<identity, enrollment, merging>>
  BY <1>1, MergeInvKept DEF merging
<1>2. ASSUME NEW d \in Devices, WritesTo(d) PROVE MergeInv'
  <2>1. UNCHANGED <<merge, before>> /\ disturbed' = (disturbed \/ (merge.pc # "idle" /\ d \in {merge.from, merge.to}))
    BY <1>2 DEF WritesTo, Touches
  <2>2. ASSUME ~disturbed', merge.pc # "idle", NEW n \in Numbers, NEW c \in {merge.from, merge.to}
        PROVE  identity'[<<c, n>>] = identity[<<c, n>>] /\ enrollment'[<<c, n>>] = enrollment[<<c, n>>]
    <3>1. d # c /\ <<c, n>> \in Keys
      BY <2>1, <2>2, KeysOfDevices DEF OrganizationOK, MergeOK
    <3>2. \A k \in Keys : k[1] # d => identity'[k] = identity[k] /\ enrollment'[k] = enrollment[k]
      BY <1>2 DEF WritesTo
    <3> QED BY <3>1, <3>2
  <2> QED BY <2>1, <2>2, MergeInvKept
<1>3. CASE AuditMerge
  <2>1. /\ UNCHANGED <<identity, enrollment, before, disturbed>> /\ merge.pc = "writing"
        /\ merge'.from = merge.from /\ merge'.to = merge.to /\ merge'.todo = merge.todo
    BY <1>3 DEF AuditMerge, bindings, OrganizationOK, MergeOK, Merges
  <2>2. \A n \in Numbers : SourceOwners(n)' = SourceOwners(n) /\ StateMerged(n)' = StateMerged(n)
    BY <2>1 DEF SourceOwners, StateMerged
  <2>3. \A n \in Numbers : (IdentityMerged(n) <=> IdentityMerged(n)') /\ (EnrollmentMerged(n) <=> EnrollmentMerged(n)')
    BY <2>1, <2>2 DEF IdentityMerged, EnrollmentMerged
  <2>4. (SourceKept => SourceKept') /\ (TargetMidway => TargetMidway')
    BY <2>1, <2>3 DEF SourceKept, TargetMidway
  <2>5. (\A w : RightWrite(w) => RightWrite(w)') /\ \A n, kind : Planned(kind, n) => Planned(kind, n)'
    BY <2>1 DEF RightWrite, Planned, SourceOwners, StateMerged
  <2>6. RestIsPlanned => RestIsPlanned'
    BY <2>1, <2>2, <2>3, <2>5 DEF RestIsPlanned
  <2> QED BY <2>1, <2>4, <2>6 DEF MergeInv
<1>4. CASE MergeDies \/ RepeatMerge
  <2>1. /\ UNCHANGED <<identity, enrollment, before, disturbed>> /\ merge.pc # "idle"
        /\ merge'.from = merge.from /\ merge'.to = merge.to /\ merge'.pc \in {"dead", "checked"}
    BY <1>4 DEF MergeDies, RepeatMerge, bindings, OrganizationOK, MergeOK, Merges
  <2> QED BY <2>1 DEF MergeInv, SourceKept, TargetMidway,
         IdentityMerged, EnrollmentMerged, SourceOwners, StateMerged
<1>5. PeopleOK /\ BindingsOK
  BY DEF OrganizationOK
<1> QED BY <1>1, <1>2, <1>3, <1>4, <1>5, TenancySteps, CheckedMidway, ReadPlansTheRest, BatchMerges
       DEF MergeMoves

(* However a merge is cut into batches, whatever dies between two of them, *)
(* and when it is repeated over what it had half written: an audited merge *)
(* has moved everything, as long as nobody else wrote to the two devices   *)
(* (mergeDeviceEnrollmentData), for any devices, numbers and batch size.   *)
THEOREM MergeAlwaysComplete == TenancySpec => []MergeIsComplete
<1>1. TenancySpec => []OrganizationOK
  BY InitTenancy, NextTenancy, PTL DEF TenancySpec
<1>2. TenancyInit => MergeInv
  BY DEF TenancyInit, MergeInv, NoMerge
<1>3. TenancySpec => []MergeInv
  BY <1>1, <1>2, NextMerge, PTL DEF TenancySpec
<1> QED BY <1>1, <1>3, CompleteWhenDone, PTL
=============================================================================
