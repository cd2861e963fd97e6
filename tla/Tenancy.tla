------------------------------- MODULE Tenancy -------------------------------
(***************************************************************************)
(* What one organization has, and the callables that change it: the        *)
(* founding (onboarding/bootstrap.ts), branches (branches/management.ts),  *)
(* departments (departments/management.ts), employees and their numbers at *)
(* the terminals (employees/management.ts, employees/mapping.ts), devices  *)
(* (devices/provisioning.ts), the merge of two registrations of one        *)
(* terminal (devices/migration.ts), and the limits of the plan             *)
(* (billing/entitlements.ts).                                              *)
(*                                                                         *)
(* A Firestore transaction or batch is one action.  Who may call what (the *)
(* role, and a subscription that was active when the call began) is        *)
(* checked before them and left out.  A provisioning has two of them with  *)
(* Secret Manager in between, a removal two, and a merge reads twice and   *)
(* then commits batch by batch; DeviceRegistry has the steps of the first  *)
(* two in full.  An employee is known by the employee code, which          *)
(* employeeCodeRegistry keeps for one employee for ever.                   *)
(*                                                                         *)
(* OrganizationProofs extends Billing as well: names both would have carry *)
(* the module's own (TenancyInit, ...).                                    *)
(***************************************************************************)
EXTENDS Integers, FiniteSets

CONSTANTS
  Users,            \* who may found the organization
  Branches, Departments, Devices,
  Numbers,          \* employee codes, and employee numbers at a terminal
  Plans,            \* subscriptions: the limits on employees, devices, branches
  Chunk,            \* writes in a batch of a merge (400)
  Unlimited,        \* a limit that is null
  None,             \* nobody, no branch, no department, no device
  MaxCalls, MaxFailures     \* bounds

(* Only the limit on branches may be missing. *)
Limits == Nat \union {Unlimited}

ASSUME SizesAssumption ==
  /\ Numbers \subseteq Nat /\ Unlimited \notin Nat
  /\ Plans \subseteq [employees : Nat, devices : Nat, branches : Limits]
  /\ Chunk \in Nat \ {0}
  /\ MaxCalls \in Nat /\ MaxFailures \in Nat
ASSUME NoneAssumption ==
  /\ None \notin Users /\ None \notin Branches /\ None \notin Departments
  /\ None \notin Devices /\ None \notin Numbers /\ None \notin Plans

VARIABLES
  primary,          \* the organization's primary branch; None before the founding
  owner,            \* its only member, who has access to the primary branch
  branch,           \* status of each branch
  departments,      \* departments created
  employee,         \* employees: where each works
  registry,         \* bridgeDeviceRegistry
  document,         \* devices: the organization's device documents
  identity,         \* deviceIdentities: the employee of a number at a device
  enrollment,       \* deviceEnrollments, likewise
  unmapped,         \* unmappedIdentities: numbers seen without an employee
  plan,             \* subscription/current; None when there is no access
  merge,            \* the merge in service
  before,           \* identities and enrollments when it began (observation)
  disturbed,        \* and another writer has changed them since (observation)
  calls, failures

people == <<employee, departments>>
places == <<primary, owner, branch>>
devices == <<registry, document>>
bindings == <<identity, enrollment, unmapped>>
merging == <<merge, before, disturbed>>
tenancyVars == <<people, places, devices, bindings, plan, merging, calls, failures>>

-----------------------------------------------------------------------------
Keys == Devices \X Numbers

NotEmployed == [branch |-> None, department |-> None]
NoEnrollment == [employee |-> None, state |-> "none"]
NotRegistered == [state |-> "none", branch |-> None, enabled |-> FALSE]
NoDocument == [exists |-> FALSE, branch |-> None, enabled |-> FALSE]
NoMerge == [pc |-> "idle", from |-> None, to |-> None, todo |-> {}]

TenancyInit ==
  /\ primary = None /\ owner = None
  /\ branch = [b \in Branches |-> "none"]
  /\ departments = {}
  /\ employee = [n \in Numbers |-> NotEmployed]
  /\ registry = [d \in Devices |-> NotRegistered]
  /\ document = [d \in Devices |-> NoDocument]
  /\ identity = [k \in Keys |-> None]
  /\ enrollment = [k \in Keys |-> NoEnrollment]
  /\ unmapped = [k \in Keys |-> "none"]
  /\ plan = None
  /\ merge = NoMerge
  /\ before = [identity |-> identity, enrollment |-> enrollment]
  /\ disturbed = FALSE
  /\ calls = 0 /\ failures = 0

-----------------------------------------------------------------------------
(* Limits.                                                                 *)

ActiveBranches == {b \in Branches : branch[b] = "active"}
Employees == {n \in Numbers : employee[n] # NotEmployed}
EnabledDevices == {d \in Devices : document[d].enabled}

(* Mutant: one more than the plan allows. *)
WithinLimitOrAt(have, limit) == limit # Unlimited => Cardinality(have) <= limit

(* assertCreationWithinLimit, read in the transaction that creates. *)
WithinLimit(have, limit) == limit # Unlimited => Cardinality(have) < limit

Called ==
  /\ calls < MaxCalls
  /\ calls' = calls + 1

(* A write of another callable to what a merge is working on. *)
Touches(d) == disturbed' = (disturbed \/ (merge.pc # "idle" /\ d \in {merge.from, merge.to}))

-----------------------------------------------------------------------------
(* The founding: bootstrapOrganization creates the organization, its       *)
(* owner, the primary branch and the default shift, once.                  *)
Bootstrap(u, b) ==
  /\ primary = None
  /\ primary' = b /\ owner' = u
  /\ branch' = [branch EXCEPT ![b] = "active"]
  /\ UNCHANGED <<people, devices, bindings, plan, merging, calls, failures>>

(* Billing gives, changes or withdraws the plan. *)
ChangePlan == \E p \in Plans \union {None} :
  /\ primary # None /\ p # plan
  /\ Called
  /\ plan' = p
  /\ UNCHANGED <<people, places, devices, bindings, merging, failures>>

(* createBranch: the identifier of a deleted branch is not free again. *)
CreateBranch(b) ==
  /\ primary # None /\ plan # None
  /\ WithinLimit(ActiveBranches, plan.branches)
  /\ branch[b] = "none"
  /\ Called
  /\ branch' = [branch EXCEPT ![b] = "active"]
  /\ UNCHANGED <<primary, owner, people, devices, bindings, plan, merging, failures>>

(* Mutant: only the primary branch is protected. *)
UnusedUnlessPrimary(b) == b # primary

Unused(b) ==
  /\ b # primary                            \* which is also the owner's branch
  /\ \A n \in Employees : employee[n].branch # b
  /\ \A d \in Devices : document[d].branch # b

(* deleteBranch, whose transaction does not ask for a subscription. *)
DeleteBranch(b) ==
  /\ branch[b] = "active" /\ Unused(b)
  /\ Called
  /\ branch' = [branch EXCEPT ![b] = "inactive"]
  /\ UNCHANGED <<primary, owner, people, devices, bindings, plan, merging, failures>>

CreateDepartment(t) ==
  /\ primary # None /\ t \notin departments
  /\ Called
  /\ departments' = departments \union {t}
  /\ UNCHANGED <<employee, places, devices, bindings, plan, merging, failures>>

-----------------------------------------------------------------------------
(* Employees and their numbers at the terminals.                           *)

(* Mutant: any branch that ever existed will do. *)
BranchEverExisted(b) == branch[b] # "none"

BranchIsActive(b) == branch[b] = "active"

(* createEmployee, for a terminal or for none.  At a terminal, the         *)
(* number's identity and enrollment become the new employee's, whoever had *)
(* them.                                                                   *)
CreateEmployee(n, b) == \E t \in departments \union {None}, d \in Devices \union {None} :
  /\ plan # None
  /\ WithinLimit(Employees, plan.employees)
  /\ employee[n] = NotEmployed
  /\ BranchIsActive(b)
  /\ d # None => registry[d] = [state |-> "active", branch |-> b, enabled |-> TRUE]
  /\ Called
  /\ employee' = [employee EXCEPT ![n] = [branch |-> b, department |-> t]]
  /\ IF d = None THEN UNCHANGED <<identity, enrollment, disturbed>>
     ELSE /\ identity' = [identity EXCEPT ![<<d, n>>] = n]
          /\ enrollment' = [enrollment EXCEPT ![<<d, n>>] = [employee |-> n, state |-> "pending"]]
          /\ Touches(d)
  /\ UNCHANGED <<departments, places, devices, unmapped, plan, merge, before, failures>>

UpdateEmployeeDepartment(n) == \E t \in departments \union {None} :
  /\ employee[n] # NotEmployed /\ employee[n].department # t
  /\ Called
  /\ employee' = [employee EXCEPT ![n].department = t]
  /\ UNCHANGED <<departments, places, devices, bindings, plan, merging, failures>>

(* Mutant: it is not checked that the employee exists. *)
AnyNumber == Numbers

MayBeMapped == Employees

(* mapDeviceIdentity: any employee, any device of the organization. *)
MapDeviceIdentity(d, n) == \E e \in MayBeMapped :
  /\ registry[d].state # "none"
  /\ Called
  /\ identity' = [identity EXCEPT ![<<d, n>>] = e]
  /\ unmapped' = [unmapped EXCEPT ![<<d, n>>] = "resolved"]
  /\ Touches(d)
  /\ UNCHANGED <<people, places, devices, enrollment, plan, merge, before, failures>>

(* A punch (writeEvents) opens the number again that nobody has. *)
Punch(d, n) ==
  /\ registry[d].state = "active" /\ registry[d].enabled
  /\ identity[<<d, n>>] = None /\ unmapped[<<d, n>>] # "unmapped"
  /\ unmapped' = [unmapped EXCEPT ![<<d, n>>] = "unmapped"]
  /\ UNCHANGED <<people, places, devices, identity, enrollment, plan, merging, calls, failures>>

(* queueFingerprintEnrollment at a terminal of the employee's branch: the  *)
(* number there becomes the employee's.  (The lock is in CommandExchange.) *)
QueueFingerprint(d, n) ==
  /\ employee[n] # NotEmployed
  /\ registry[d] = [state |-> "active", branch |-> employee[n].branch, enabled |-> TRUE]
  /\ enrollment[<<d, n>>].state # "queued"
  /\ Called
  /\ identity' = [identity EXCEPT ![<<d, n>>] = n]
  /\ enrollment' = [enrollment EXCEPT ![<<d, n>>] = [employee |-> n, state |-> "queued"]]
  /\ Touches(d)
  /\ UNCHANGED <<people, places, devices, unmapped, plan, merge, before, failures>>

(* The terminal's result (CommandExchange) ends an enrollment. *)
EnrollmentEnds(d, n) == \E ends \in {"synced", "enrolled", "failed"} :
  /\ \/ enrollment[<<d, n>>].state = "pending" /\ ends # "enrolled"
     \/ enrollment[<<d, n>>].state = "queued" /\ ends # "synced"
  /\ registry[d].state = "active" /\ registry[d].enabled
  /\ enrollment' = [enrollment EXCEPT ![<<d, n>>].state = ends]
  /\ Touches(d)
  /\ UNCHANGED <<people, places, devices, identity, unmapped, plan, merge, before, calls, failures>>

-----------------------------------------------------------------------------
(* Devices.                                                                *)

(* provision, its first transaction: the branch must exist, the number of  *)
(* enabled devices is compared with the plan. *)
ReserveDevice(d, b) ==
  /\ plan # None
  /\ WithinLimit(EnabledDevices, plan.devices)
  /\ branch[b] # "none"
  /\ registry[d].state \in {"none", "failed"}
  /\ Called
  /\ registry' = [registry EXCEPT ![d] = [state |-> "provisioning", branch |-> b, enabled |-> FALSE]]
  /\ UNCHANGED <<people, places, document, bindings, plan, merging, failures>>

(* Its second, when the secret has been stored, ... *)
ActivateDevice(d) ==
  /\ registry[d].state = "provisioning"
  /\ registry' = [registry EXCEPT ![d].state = "active", ![d].enabled = TRUE]
  /\ document' = [document EXCEPT ![d] = [exists |-> TRUE, branch |-> registry[d].branch,
                                          enabled |-> TRUE]]
  /\ UNCHANGED <<people, places, bindings, plan, merging, calls, failures>>

(* ... or its catch. *)
ProvisioningFails(d) ==
  /\ registry[d].state = "provisioning"
  /\ failures < MaxFailures
  /\ failures' = failures + 1
  /\ registry' = [registry EXCEPT ![d].state = "failed", ![d].enabled = FALSE]
  /\ UNCHANGED <<people, places, document, bindings, plan, merging, calls>>

(* setEnabled does not look at the limit, nor at the state. *)
SetDeviceEnabled(d) == \E on \in BOOLEAN :
  /\ registry[d].state # "none" /\ registry[d].enabled # on
  /\ Called
  /\ registry' = [registry EXCEPT ![d].enabled = on]
  /\ document' = [document EXCEPT ![d].exists = TRUE, ![d].enabled = on]
  /\ UNCHANGED <<people, places, bindings, plan, merging, failures>>

(* remove revokes the device in one transaction, ... (That it may meet a   *)
(* provisioning of the same device is in DeviceRegistry, not here.)        *)
StartRemove(d) ==
  /\ registry[d].state \in {"active", "failed"}
  /\ Called
  /\ registry' = [registry EXCEPT ![d].state = "deleting", ![d].enabled = FALSE]
  /\ document' = [document EXCEPT ![d].enabled = FALSE]
  /\ UNCHANGED <<people, places, bindings, plan, merging, failures>>

(* ... and then deletes what belongs to it. *)
FinishRemove(d) ==
  /\ registry[d].state = "deleting"
  /\ identity' = [k \in Keys |-> IF k[1] = d THEN None ELSE identity[k]]
  /\ enrollment' = [k \in Keys |-> IF k[1] = d THEN NoEnrollment ELSE enrollment[k]]
  /\ unmapped' = [k \in Keys |-> IF k[1] = d THEN "none" ELSE unmapped[k]]
  /\ document' = [document EXCEPT ![d] = NoDocument]
  /\ registry' = [registry EXCEPT ![d] = NotRegistered]
  /\ Touches(d)
  /\ UNCHANGED <<people, places, plan, merge, before, calls, failures>>

-----------------------------------------------------------------------------
(* mergeDeviceEnrollmentData: from the registration that will be given up  *)
(* to the one that is kept.                                                *)

(* Owners of number n at device d; a number with two is a conflict. *)
OwnersOf(d, n) == {identity[<<d, n>>], enrollment[<<d, n>>].employee} \ {None}

Bound(d) == {n \in Numbers : OwnersOf(d, n) # {}}

Conflict(s, t) ==
  \/ \E d \in {s, t} : \E n \in Bound(d) : Cardinality(OwnersOf(d, n)) > 1
  \/ \E n \in Bound(s) \intersect Bound(t) : OwnersOf(s, n) # OwnersOf(t, n)

(* Mutant: what the target knows of the enrollment is overwritten. *)
MergedStateOfSource(s, t, n) ==
  IF enrollment[<<s, n>>].state = "enrolled" THEN "enrolled" ELSE "synced"

MergedState(s, t, n) ==
  IF "enrolled" \in {enrollment[<<s, n>>].state, enrollment[<<t, n>>].state}
    THEN "enrolled" ELSE "synced"

(* The writes for one number: identity, enrollment and, when the target    *)
(* has met it without an employee, the unmapped aggregate.                 *)
WritesFor(s, t, n) ==
  LET write(kind) == [kind |-> kind, n |-> n, employee |-> CHOOSE e \in OwnersOf(s, n) : TRUE,
                      state |-> MergedState(s, t, n)]
  IN {write("identity"), write("enrollment")}
       \union IF unmapped[<<t, n>>] = "none" THEN {} ELSE {write("unmapped")}

AllWrites(s, t) == UNION {WritesFor(s, t, n) : n \in Bound(s)}

(* Both registrations are active, at one branch and, as far as it is known *)
(* (data here), of one terminal.  (Bound: one merge is carried through in  *)
(* a behaviour, and repeated when it dies.)                                *)
CheckMerge(s, t) ==
  /\ merge.pc = "idle" /\ s # t
  /\ registry[s].state = "active" /\ registry[t].state = "active"
  /\ registry[s].branch = registry[t].branch
  /\ merge' = [pc |-> "checked", from |-> s, to |-> t, todo |-> {}]
  /\ disturbed' = FALSE
  /\ before' = [identity |-> identity, enrollment |-> enrollment]
  /\ UNCHANGED <<people, places, devices, bindings, plan, calls, failures>>

(* Identities and enrollments are read, conflicts refused; everything that *)
(* will be written follows from these reads.                               *)
ReadForMerge ==
  /\ merge.pc = "checked"
  /\ merge' = IF Conflict(merge.from, merge.to) THEN NoMerge
              ELSE [merge EXCEPT !.pc = "writing", !.todo = AllWrites(merge.from, merge.to)]
  /\ UNCHANGED <<people, places, devices, bindings, plan, before, disturbed, calls, failures>>

(* commitWrites: one batch at a time, each full but the last.  The writes  *)
(* are in the order of the documents read, whose names are hashes: any.    *)
IsBatch(batch) == /\ Cardinality(batch) <= Chunk
                  /\ Cardinality(batch) = Chunk \/ batch = merge.todo

CommitBatch == \E batch \in SUBSET merge.todo :
  LET written(kind, k) == {w \in batch : w.kind = kind /\ k = <<merge.to, w.n>>}
      only(writes) == CHOOSE w \in writes : TRUE
  IN /\ merge.pc = "writing" /\ merge.todo # {} /\ IsBatch(batch)
     /\ identity' = [k \in Keys |-> IF written("identity", k) = {} THEN identity[k]
                                    ELSE only(written("identity", k)).employee]
     /\ enrollment' = [k \in Keys |-> IF written("enrollment", k) = {} THEN enrollment[k]
                                      ELSE [employee |-> only(written("enrollment", k)).employee,
                                            state |-> only(written("enrollment", k)).state]]
     /\ unmapped' = [k \in Keys |-> IF written("unmapped", k) = {} THEN unmapped[k] ELSE "resolved"]
     /\ merge' = [merge EXCEPT !.todo = @ \ batch]
     /\ UNCHANGED <<people, places, devices, plan, before, disturbed, calls, failures>>

(* The audit, and the answer. *)
AuditMerge ==
  /\ merge.pc = "writing" /\ merge.todo = {}
  /\ merge' = [merge EXCEPT !.pc = "done"]
  /\ UNCHANGED <<people, places, devices, bindings, plan, before, disturbed, calls, failures>>

(* The function dies, or a commit fails: the batches before stay. *)
MergeDies ==
  /\ merge.pc \in {"checked", "writing"}
  /\ failures < MaxFailures
  /\ failures' = failures + 1
  /\ merge' = [merge EXCEPT !.pc = "dead", !.todo = {}]
  /\ UNCHANGED <<people, places, devices, bindings, plan, before, disturbed, calls>>

(* The administrator repeats a merge that died; before and disturbed keep  *)
(* speaking of the first attempt.                                          *)
RepeatMerge ==
  /\ merge.pc = "dead"
  /\ \A d \in {merge.from, merge.to} : registry[d].state = "active"
  /\ registry[merge.from].branch = registry[merge.to].branch
  /\ merge' = [merge EXCEPT !.pc = "checked"]
  /\ UNCHANGED <<people, places, devices, bindings, plan, before, disturbed, calls, failures>>

-----------------------------------------------------------------------------
TenancyNext ==
  \/ \E u \in Users, b \in Branches : Bootstrap(u, b)
  \/ ChangePlan
  \/ \E b \in Branches : CreateBranch(b) \/ DeleteBranch(b)
  \/ \E t \in Departments : CreateDepartment(t)
  \/ \E n \in Numbers, b \in Branches : CreateEmployee(n, b)
  \/ \E n \in Numbers : UpdateEmployeeDepartment(n)
  \/ \E d \in Devices, n \in Numbers : MapDeviceIdentity(d, n) \/ Punch(d, n)
                                        \/ QueueFingerprint(d, n) \/ EnrollmentEnds(d, n)
  \/ \E d \in Devices, b \in Branches : ReserveDevice(d, b)
  \/ \E d \in Devices : ActivateDevice(d) \/ ProvisioningFails(d) \/ SetDeviceEnabled(d)
                         \/ StartRemove(d) \/ FinishRemove(d)
  \/ \E s, t \in Devices : CheckMerge(s, t)
  \/ ReadForMerge \/ CommitBatch \/ AuditMerge \/ MergeDies \/ RepeatMerge

TenancySpec == TenancyInit /\ [][TenancyNext]_tenancyVars

-----------------------------------------------------------------------------
(* Properties.                                                             *)

(* The documents keep their types; what refers to a branch refers to one   *)
(* that was created, and to employees that exist.                          *)
TenancyTypeOK ==
  /\ primary \in Branches \union {None} /\ owner \in Users \union {None}
  /\ branch \in [Branches -> {"none", "active", "inactive"}]
  /\ departments \subseteq Departments
  /\ employee \in [Numbers -> [branch : Branches \union {None}, department : departments \union {None}]]
  /\ registry \in [Devices -> [state : {"none", "provisioning", "failed", "active", "deleting"},
                               branch : Branches \union {None}, enabled : BOOLEAN]]
  /\ document \in [Devices -> [exists : BOOLEAN, branch : Branches \union {None}, enabled : BOOLEAN]]
  /\ identity \in [Keys -> Employees \union {None}]
  /\ enrollment \in [Keys -> [employee : Employees \union {None},
                              state : {"none", "pending", "queued", "synced", "enrolled", "failed"}]]
  /\ unmapped \in [Keys -> {"none", "unmapped", "resolved"}]
  /\ plan \in Plans \union {None}
  /\ merge.pc \in {"idle", "checked", "writing", "done", "dead"}
  /\ calls \in 0..MaxCalls /\ failures \in 0..MaxFailures

(* Every employee works at an active branch, whichever of createEmployee,  *)
(* createBranch and deleteBranch come first, and the primary branch stays. *)
StaffInActiveBranches ==
  /\ \A n \in Employees : branch[employee[n].branch] = "active"
  /\ primary # None => branch[primary] = "active"

Allows(limit, count) == limit # Unlimited => count <= limit

(* Creation stops exactly at the limits of the plan in force, however the  *)
(* plan changes.  (Devices are left out: see the README.)                  *)
WithinPlan ==
  [][/\ Cardinality(Employees') > Cardinality(Employees) =>
          plan # None /\ Allows(plan.employees, Cardinality(Employees'))
     /\ Cardinality(ActiveBranches') > Cardinality(ActiveBranches) /\ primary # None =>
          plan # None /\ Allows(plan.branches, Cardinality(ActiveBranches'))]_tenancyVars

(* Whatever batches a merge is committed in, and also when it died between *)
(* two and was repeated: when it is audited, the target has the union of   *)
(* what both devices had before, enrolled if either was, and the source is *)
(* as it was, as long as nobody else has written to the two devices.       *)
MergeIsComplete == merge.pc = "done" /\ ~disturbed =>
  \A n \in Numbers :
    LET s == <<merge.from, n>>
        t == <<merge.to, n>>
        bound == {before.identity[s], before.enrollment[s].employee} \ {None}
        states == {before.enrollment[s].state, before.enrollment[t].state}
    IN /\ identity[s] = before.identity[s] /\ enrollment[s] = before.enrollment[s]
       /\ IF bound = {}
            THEN identity[t] = before.identity[t] /\ enrollment[t] = before.enrollment[t]
            ELSE /\ identity[t] \in bound /\ enrollment[t].employee = identity[t]
                 /\ before.identity[t] \in {None, identity[t]}
                 /\ enrollment[t].state = "enrolled" <=> "enrolled" \in states

(* Creation of devices stops at the limit as well.  This does not hold of  *)
(* the code, which counts devices at the reservation; see the README.      *)
DevicesWithinPlan ==
  [][\A d \in Devices : ActivateDevice(d) /\ plan # None =>
       Allows(plan.devices, Cardinality(EnabledDevices'))]_tenancyVars
=============================================================================
