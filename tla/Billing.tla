------------------------------- MODULE Billing -------------------------------
(***************************************************************************)
(* The subscription of one organization (cloud/functions/src/billing/):    *)
(* checkout and its lock (functions.ts), the payment provider's webhooks   *)
(* (webhook.ts), the acts of a platform administrator (setSubscription-    *)
(* Status, platform.ts) and what follows from them (entitlements.ts,       *)
(* access.ts).                                                             *)
(*                                                                         *)
(* saasSubscriptions/{org} and organizations/{org}/subscription/current    *)
(* are always written together and with the same fields, and stand here    *)
(* as one record, in which access is active exactly when the status is.    *)
(* The provider is the environment: it sends an event for every change of  *)
(* a subscription, numbered by its clock, and each arrives at some time,   *)
(* in any order, perhaps more than once.                                   *)
(***************************************************************************)
EXTENDS Integers, Sequences, FiniteSets, SequencesExt

CONSTANTS
  Visits,           \* createSubscriptionCheckout calls in service at once
  Admins,           \* acts of platform administrators in service at once
  LockTime,         \* life of a checkout lock (2 minutes)
  UrlTime,          \* how long a checkout URL is given out again (15 minutes)
  RequestTime,      \* the functions' timeout (30 seconds)
  Terms,            \* lengths of manual terms
  Forever,          \* no end
  MaxTime, MaxOffers, MaxChanges, MaxActs, MaxFaults     \* bounds

ASSUME TimesAssumption ==
  /\ LockTime \in Nat /\ UrlTime \in Nat /\ RequestTime \in Nat
  /\ RequestTime < LockTime
  /\ Terms \subseteq Nat \union {Forever} /\ Forever \notin Nat
  /\ MaxTime \in Nat /\ MaxOffers \in Nat /\ MaxChanges \in Nat
  /\ MaxActs \in Nat /\ MaxFaults \in Nat

VARIABLES
  now,
  record,           \* the subscription documents
  trialConsumed,    \* billingAccounts/{org}.trialConsumedAt is set
  available,        \* billingPlanConfig: the package can be bought
  lock,             \* billingCheckoutSessions/{org}
  visit,            \* checkouts in service
  act,              \* administrator's acts in service
  offers,           \* checkout URLs given out: with a trial or not, when made
  provider,         \* the provider's subscriptions, one for each paid offer
  sent,             \* its events; the number of an event is its timestamp
  seen,             \* billingWebhookEvents: events received
  acts, faults,
  \* observations
  crossed,          \* an act overtook or was overtaken
  late              \* offers paid, or first heard of, when the lock had let go of them

vars == <<now, record, trialConsumed, available, lock, visit, act, offers, provider,
          sent, seen, acts, faults, crossed, late>>

-----------------------------------------------------------------------------
Live == {"pending", "active", "on_hold", "paused"}
Statuses == Live \union {"cancelled"}

NoRecord == [source |-> "none", status |-> "none", sub |-> 0, at |-> 0, ends |-> Forever]
NoLock == [state |-> "none", url |-> 0, expires |-> 0]
NoVisit == [pc |-> "idle", trial |-> FALSE, since |-> 0]
NoAct == [pc |-> "idle", source |-> "none", sub |-> 0, status |-> "none"]

Init ==
  /\ now = 0
  /\ record = NoRecord
  /\ trialConsumed = FALSE
  /\ available = TRUE
  /\ lock = NoLock
  /\ visit = [v \in Visits |-> NoVisit]
  /\ act = [a \in Admins |-> NoAct]
  /\ offers = <<>> /\ provider = <<>> /\ sent = <<>>
  /\ seen = {}
  /\ acts = 0 /\ faults = 0
  /\ crossed = FALSE /\ late = {}

(* entitlementFromData, and getCurrentSubscription for the browser. *)
Entitled == record.status = "active" /\ (record.ends = Forever \/ now < record.ends)

EndOf(term) == IF term = Forever THEN Forever ELSE now + term

LiveSubscriptions == {s \in DOMAIN provider : provider[s] \in Live}
Undelivered == DOMAIN sent \ seen

(* At time t the URL of an offer is not given out any more; an event of    *)
(* the subscription has been received.                                     *)
LetGo(s, t) == offers[s].made + UrlTime <= t
HeardOf(s) == \E i \in seen : sent[i].sub = s

-----------------------------------------------------------------------------
(* Checkout.                                                               *)

(* Mutant: a cancelled subscription blocks like a live one. *)
MayCheckoutUnlessCancelled == record.status # "active" /\ record.source # "dodo"

(* The stored access is not compared with the end of the term. *)
MayCheckout ==
  /\ record.status # "active"
  /\ ~(record.source = "dodo" /\ record.status \in Live)

(* Mutant: a lock that is being prepared is ignored. *)
LockFreeWhenCreating == lock.url = 0 \/ lock.expires <= now

(* A URL that has not expired is given out again (which changes nothing);  *)
(* a lock that is being prepared makes the call fail.                      *)
LockIsFree ==
  ~((lock.url # 0 \/ lock.state = "creating") /\ lock.expires > now)

(* The first transaction: take the lock and decide about the trial. *)
Acquire(v) ==
  /\ visit[v].pc = "idle"
  /\ MayCheckout /\ LockIsFree /\ available
  /\ Len(offers) < MaxOffers
  /\ lock' = [state |-> "creating", url |-> 0, expires |-> now + LockTime]
  /\ visit' = [visit EXCEPT ![v] = [pc |-> "provider", trial |-> ~trialConsumed, since |-> now]]
  /\ UNCHANGED <<now, record, trialConsumed, available, act, offers, provider, sent, seen,
                 acts, faults, crossed, late>>

(* The provider has made a session: its URL is stored and given out. *)
Publish(v) ==
  /\ visit[v].pc = "provider"
  /\ offers' = Append(offers, [trial |-> visit[v].trial, made |-> now])
  /\ provider' = Append(provider, "none")
  /\ lock' = [state |-> "ready", url |-> Len(offers) + 1, expires |-> now + UrlTime]
  /\ visit' = [visit EXCEPT ![v] = NoVisit]
  /\ UNCHANGED <<now, record, trialConsumed, available, act, sent, seen, acts, faults,
                 crossed, late>>

(* The catch: the lock is released at once, what else it holds stays. *)
CheckoutFails(v) ==
  /\ visit[v].pc = "provider"
  /\ faults < MaxFaults
  /\ faults' = faults + 1
  /\ lock' = [lock EXCEPT !.state = "failed", !.expires = now]
  /\ visit' = [visit EXCEPT ![v] = NoVisit]
  /\ UNCHANGED <<now, record, trialConsumed, available, act, offers, provider, sent, seen,
                 acts, crossed, late>>

(* The function dies and leaves the lock as it is. *)
CheckoutDies(v) ==
  /\ visit[v].pc = "provider"
  /\ faults < MaxFaults
  /\ faults' = faults + 1
  /\ visit' = [visit EXCEPT ![v] = NoVisit]
  /\ UNCHANGED <<now, record, trialConsumed, available, lock, act, offers, provider, sent,
                 seen, acts, crossed, late>>

-----------------------------------------------------------------------------
(* The provider (external).                                                *)

Changes(s, status) ==
  /\ Len(sent) < MaxChanges
  /\ provider' = [provider EXCEPT ![s] = status]
  /\ sent' = Append(sent, [sub |-> s, status |-> status, trial |-> offers[s].trial])

(* The owner pays at a URL, once, also long after it was made: the session *)
(* of the provider is given no end.                                        *)
Pay == \E s \in DOMAIN offers, status \in {"pending", "active"} :
  /\ provider[s] = "none"
  /\ Changes(s, status)
  /\ late' = IF LetGo(s, now) THEN late \union {s} ELSE late
  /\ UNCHANGED <<now, record, trialConsumed, available, lock, visit, act, offers, seen,
                 acts, faults, crossed>>

(* Payments succeed, fail and are resumed; the customer pauses or cancels; *)
(* a cancelled subscription is not revived.                                *)
ProviderChanges == \E s \in LiveSubscriptions, status \in Statuses \ {"pending"} :
  /\ status # provider[s]
  /\ Changes(s, status)
  /\ UNCHANGED <<now, record, trialConsumed, available, lock, visit, act, offers, seen,
                 acts, faults, crossed, late>>

-----------------------------------------------------------------------------
(* dodoPaymentsWebhook.                                                    *)

(* Mutant: events are applied as they come. *)
NeverStale(i) == FALSE

Stale(i) == record.at > i

(* An event that was received before changes nothing; a stale one is only  *)
(* recorded; any other replaces the projection, and the beginning of a     *)
(* trial is remembered in the billing account.                             *)
Deliver(i) ==
  /\ i \in DOMAIN sent
  /\ seen' = seen \union {i}
  /\ IF i \in seen \/ Stale(i)
       THEN UNCHANGED <<record, trialConsumed>>
       ELSE /\ \E term \in Terms :
                record' = [source |-> "dodo", status |-> sent[i].status, sub |-> sent[i].sub,
                           at |-> i, ends |-> EndOf(term)]
            /\ trialConsumed' = (trialConsumed \/ (sent[i].trial /\ sent[i].status = "active"))
  /\ UNCHANGED <<now, available, lock, visit, act, offers, provider, sent, acts, faults,
                 crossed, late>>

-----------------------------------------------------------------------------
(* Platform administrators.                                                *)

Begins(a, work) ==
  /\ act[a].pc = "idle" /\ acts < MaxActs
  /\ acts' = acts + 1
  /\ act' = [act EXCEPT ![a] = work]

(* setSubscriptionStatus reads the record, ... *)
StartSetStatus(a) == \E status \in {"paused", "active", "cancelled"} :
  /\ record.source # "none"
  /\ Begins(a, [pc |-> IF record.source = "dodo" THEN "update" ELSE "write",
                source |-> record.source, sub |-> record.sub, status |-> status])
  /\ UNCHANGED <<now, record, trialConsumed, available, lock, visit, offers, provider, sent,
                 seen, faults, crossed, late>>

(* ... has the provider change a Dodo subscription, which refuses what it  *)
(* cannot do, ...                                                          *)
UpdateProvider(a) ==
  /\ act[a].pc = "update"
  /\ IF provider[act[a].sub] \in Live
       THEN /\ IF provider[act[a].sub] = act[a].status THEN UNCHANGED <<provider, sent>>
               ELSE Changes(act[a].sub, act[a].status)
            /\ act' = [act EXCEPT ![a].pc = "write"]
       ELSE act' = [act EXCEPT ![a] = NoAct] /\ UNCHANGED <<provider, sent>>
  /\ UNCHANGED <<now, record, trialConsumed, available, lock, visit, offers, seen, acts,
                 faults, crossed, late>>

(* ... and merges the status into the documents as they are by then.       *)
WriteStatus(a) ==
  /\ act[a].pc = "write"
  /\ record' = [record EXCEPT !.status = act[a].status]
  /\ act' = [act EXCEPT ![a] = NoAct]
  /\ crossed' = (crossed \/ record.source # act[a].source \/ record.sub # act[a].sub
                  \/ (record.source = "dodo" /\ provider[record.sub] # act[a].status))
  /\ UNCHANGED <<now, trialConsumed, available, lock, visit, offers, provider, sent, seen,
                 acts, faults, late>>

(* activateManualSubscription: refused while a Dodo subscription is live   *)
(* in the record it reads; the batch then replaces both documents.         *)
StartManual(a) ==
  /\ ~(record.source = "dodo" /\ record.status \in Live)
  /\ Begins(a, [NoAct EXCEPT !.pc = "replace"])
  /\ UNCHANGED <<now, record, trialConsumed, available, lock, visit, offers, provider, sent,
                 seen, faults, crossed, late>>

WriteManual(a) == \E term \in Terms :
  /\ act[a].pc = "replace"
  /\ record' = [source |-> "manual", status |-> "active", sub |-> 0, at |-> 0,
                ends |-> EndOf(term)]
  /\ act' = [act EXCEPT ![a] = NoAct]
  /\ crossed' = (crossed \/ LiveSubscriptions # {} \/ Undelivered # {})
  /\ UNCHANGED <<now, trialConsumed, available, lock, visit, offers, provider, sent, seen,
                 acts, faults, late>>

(* The function dies, or its call to the provider fails, before it writes. *)
ActDies(a) ==
  /\ act[a].pc # "idle"
  /\ faults < MaxFaults
  /\ faults' = faults + 1
  /\ act' = [act EXCEPT ![a] = NoAct]
  /\ UNCHANGED <<now, record, trialConsumed, available, lock, visit, offers, provider, sent,
                 seen, acts, crossed, late>>

(* configureBillingProduct enables or disables the package for checkout.   *)
ConfigureProduct ==
  /\ acts < MaxActs
  /\ acts' = acts + 1
  /\ available' = ~available
  /\ UNCHANGED <<now, record, trialConsumed, lock, visit, act, offers, provider, sent, seen,
                 faults, crossed, late>>

-----------------------------------------------------------------------------
(* Time.  A function ends within RequestTime; events take as long as they  *)
(* like.                                                                   *)
Tick ==
  /\ now < MaxTime
  /\ \A v \in Visits : visit[v].pc # "idle" => now < visit[v].since + RequestTime
  /\ now' = now + 1
  /\ late' = late \union
       {s \in DOMAIN offers : provider[s] # "none" /\ ~HeardOf(s) /\ LetGo(s, now + 1)}
  /\ UNCHANGED <<record, trialConsumed, available, lock, visit, act, offers, provider, sent,
                 seen, acts, faults, crossed>>

Next ==
  \/ Tick \/ Pay \/ ProviderChanges \/ ConfigureProduct
  \/ \E v \in Visits : Acquire(v) \/ Publish(v) \/ CheckoutFails(v) \/ CheckoutDies(v)
  \/ \E i \in 1..MaxChanges : Deliver(i)
  \/ \E a \in Admins : StartSetStatus(a) \/ UpdateProvider(a) \/ WriteStatus(a)
                       \/ StartManual(a) \/ WriteManual(a) \/ ActDies(a)

Spec == Init /\ [][Next]_vars

-----------------------------------------------------------------------------
(* Properties.                                                             *)

(* The documents, offers, provider and events keep their types. *)
TypeOK ==
  /\ now \in 0..MaxTime
  /\ record \in [source : {"none", "dodo", "manual"}, status : Statuses \union {"none"},
                 sub : 0..MaxOffers, at : 0..MaxChanges, ends : Nat \union {Forever}]
  /\ trialConsumed \in BOOLEAN /\ available \in BOOLEAN /\ crossed \in BOOLEAN
  /\ lock \in [state : {"none", "creating", "ready", "failed"}, url : 0..MaxOffers, expires : Nat]
  /\ lock.url # 0 => lock.url \in DOMAIN offers
  /\ visit \in [Visits -> [pc : {"idle", "provider"}, trial : BOOLEAN, since : Nat]]
  /\ act \in [Admins -> [pc : {"idle", "update", "write", "replace"},
                         source : {"none", "dodo", "manual"}, sub : 0..MaxOffers,
                         status : Statuses \union {"none"}]]
  /\ offers \in Seq([trial : BOOLEAN, made : Nat])
  /\ provider \in Seq(Statuses \union {"none"}) /\ Len(provider) = Len(offers)
  /\ sent \in Seq([sub : DOMAIN offers, status : Statuses, trial : BOOLEAN])
  /\ seen \subseteq DOMAIN sent
  /\ acts \in 0..MaxActs /\ faults \in 0..MaxFaults /\ late \subseteq DOMAIN offers

(* Once all events have arrived, in whatever order and however often, the  *)
(* record is the provider's newest change, also when an administrator's    *)
(* act died between the provider and the record.                           *)
SettledRecordFollowsProvider ==
  Undelivered = {} /\ ~crossed /\ record.source = "dodo" =>
    record.sub = Last(sent).sub /\ record.status = Last(sent).status

(* An organization is not charged twice through two checkouts at once, a   *)
(* crashed one or a lock that expired.  It takes a payment that was made,  *)
(* or became known, only when the lock had let go of its URL: of two live  *)
(* subscriptions the older is such a one, or comes after such a one.       *)
OneLiveSubscription ==
  ~crossed => \A s, t \in LiveSubscriptions : s < t => \E u \in late : u <= s

(* An organization that has no access, no live subscription and nothing    *)
(* left to arrive is not refused a new checkout, and the lock of one that  *)
(* died gives out a URL or ends soon.  (A manual term that has ended is    *)
(* left out: its stored access stays active, and it is refused.)           *)
NotLockedOut ==
  ~crossed /\ Undelivered = {} /\ LiveSubscriptions = {} /\ ~Entitled =>
    /\ MayCheckout \/ (record.source = "manual" /\ record.ends # Forever)
    /\ LockIsFree \/ lock.url # 0 \/ lock.expires <= now + LockTime

(* An organization never has two live subscriptions, whenever it pays.     *)
(* This does not hold of the code; see the README.                         *)
NeverTwoLive == Cardinality(LiveSubscriptions) <= 1

(* The trial is granted once: no two subscriptions become active in one.   *)
(* This does not hold of the code; see the README.                         *)
TrialOnce ==
  Cardinality({sent[i].sub : i \in {j \in DOMAIN sent : sent[j].trial /\ sent[j].status = "active"}}) <= 1
=============================================================================
