-------------------------- MODULE RecalculationJobs --------------------------
(***************************************************************************)
(* The jobs that recalculate attendance days after a change of their       *)
(* sources (attendance/recalculation-jobs.ts; created by shifts/           *)
(* management.ts, employees/mapping.ts and source-change-triggers.ts).     *)
(*                                                                         *)
(* A fan-out job (shift_policy, organization_date_range) pages through     *)
(* assignments or employees and writes one leaf job for each; a leaf job   *)
(* (employee_date_range, identity_mapping) pages through the days, or the  *)
(* events on whose days, it has to recalculate.  A cursor in the job       *)
(* document moves after each page.  Members stands for the assignments     *)
(* that overlap the policy's dates: the others have no child.              *)
(*                                                                         *)
(* A scheduled function queries for a few pending jobs and gives each one  *)
(* page, from the snapshot of the query.  It may die or run out of time    *)
(* anywhere, and a second invocation may start before the first has ended  *)
(* (it is started every five minutes, and may take nine), so that writes   *)
(* made from old snapshots meet newer ones.                                *)
(***************************************************************************)
EXTENDS Naturals, FiniteSets

CONSTANTS
  FanOuts,          \* ids of fan-out jobs
  Singles,          \* ids of leaf jobs that no fan-out job has written
  Mappings,         \* those of them that are identity_mapping jobs
  Members,          \* the assignments or employees, in the order of their ids
  LastItem,         \* a leaf job's days are 1 .. LastItem
  Page,             \* members in one page of a fan-out job (100)
  Chunk,            \* days (31) or events (200) in one page of a leaf job
  QueryLimit,       \* jobs of one invocation (5)
  MaxAttempts,      \* five
  Poison,           \* <<leaf job, day>> whose recalculation always fails
  Runs,             \* invocations that may overlap
  MaxFaults         \* bound on failures that pass, and on invocations that die

ASSUME JobsAssumption ==
  /\ FanOuts \subseteq Nat /\ Singles \subseteq Nat /\ FanOuts \intersect Singles = {}
  /\ Mappings \subseteq Singles
  /\ Members \subseteq Nat \ {0} /\ IsFiniteSet(Members)
  /\ LastItem \in Nat \ {0} /\ Page \in Nat \ {0} /\ Chunk \in Nat \ {0}
  /\ QueryLimit \in Nat \ {0} /\ MaxAttempts \in Nat \ {0} /\ MaxFaults \in Nat

Roots == (FanOuts \union Singles) \X {0}
Children == FanOuts \X Members
Jobs == Roots \union Children
Leaves == Singles \X {0} \union Children
Items == 1 .. LastItem
NoJob == <<>>

VARIABLES
  \* the job documents
  state,            \* "none", "pending", "completed" or "failed"
  cursor,           \* the last member paged, or the next day
  attempts,
  \* the invocations
  phase,            \* "idle", "picking", "fan out" or "recalculate"
  todo,             \* the jobs of the query still to be processed
  cur,              \* the job in hand
  at,               \* the next day of the job in hand
  seenCursor,       \* cursors in the snapshot of the query
  seenAttempts,
  \* observation
  covered,          \* <<leaf job, day>> that has been recalculated
  failures,         \* how often processing a job has failed
  faults

docs == <<state, cursor, attempts>>
run == <<phase, todo, cur, at, seenCursor, seenAttempts>>
vars == <<docs, run, covered, failures, faults>>

Start(j) == IF j \in Leaves THEN 1 ELSE 0

Init ==
  /\ state = [j \in Jobs |-> "none"]
  /\ cursor = [j \in Jobs |-> Start(j)]
  /\ attempts = [j \in Jobs |-> 0]
  /\ phase = [r \in Runs |-> "idle"]
  /\ todo = [r \in Runs |-> {}]
  /\ cur = [r \in Runs |-> NoJob]
  /\ at = [r \in Runs |-> 0]
  /\ seenCursor = [r \in Runs |-> [j \in Jobs |-> 0]]
  /\ seenAttempts = [r \in Runs |-> [j \in Jobs |-> 0]]
  /\ covered = {}
  /\ failures = [j \in Jobs |-> 0]
  /\ faults = 0

Fault ==
  /\ faults < MaxFaults
  /\ faults' = faults + 1

(* The order of document names: a child's begins with its parent's. *)
Before(j, k) == j[1] < k[1] \/ (j[1] = k[1] /\ j[2] < k[2])

Pending == {j \in Jobs : state[j] = "pending"}

(* The jobs of a query: the first ones, at most QueryLimit. *)
Queried == {j \in Pending : Cardinality({k \in Pending : Before(k, j)}) < QueryLimit}

-----------------------------------------------------------------------------
(* saveShift, assignEmployeeShift, mapDeviceIdentity, or createJobsIfAbsent *)
(* of a trigger (when that is delivered again, the job exists).             *)
Create(j) ==
  /\ j \in Roots /\ state[j] = "none"
  /\ state' = [state EXCEPT ![j] = "pending"]
  /\ UNCHANGED <<cursor, attempts, run, covered, failures, faults>>

(* processAttendanceRecalculationJobs: the query. *)
StartRun(r) ==
  /\ phase[r] = "idle"
  /\ phase' = [phase EXCEPT ![r] = "picking"]
  /\ todo' = [todo EXCEPT ![r] = Queried]
  /\ seenCursor' = [seenCursor EXCEPT ![r] =
                      [j \in Jobs |-> IF j \in Queried THEN cursor[j] ELSE 0]]
  /\ seenAttempts' = [seenAttempts EXCEPT ![r] =
                        [j \in Jobs |-> IF j \in Queried THEN attempts[j] ELSE 0]]
  /\ UNCHANGED <<docs, cur, at, covered, failures, faults>>

PickJob(r) ==
  /\ phase[r] = "picking"
  /\ \E j \in todo[r] :
       /\ \A k \in todo[r] : ~Before(k, j)
       /\ cur' = [cur EXCEPT ![r] = j]
       /\ todo' = [todo EXCEPT ![r] = @ \ {j}]
       /\ at' = [at EXCEPT ![r] = seenCursor[r][j]]
       /\ phase' = [phase EXCEPT ![r] = IF j \in Leaves THEN "recalculate" ELSE "fan out"]
  /\ UNCHANGED <<docs, seenCursor, seenAttempts, covered, failures, faults>>

(* The invocation forgets the job in hand, or everything. *)
Forget(r, js, p) ==
  /\ phase' = [phase EXCEPT ![r] = p]
  /\ cur' = [cur EXCEPT ![r] = NoJob]
  /\ at' = [at EXCEPT ![r] = 0]
  /\ seenCursor' = [seenCursor EXCEPT ![r] = [j \in Jobs |-> IF j \in js THEN 0 ELSE @[j]]]
  /\ seenAttempts' = [seenAttempts EXCEPT ![r] = [j \in Jobs |-> IF j \in js THEN 0 ELSE @[j]]]

EndRun(r) ==
  /\ phase[r] = "picking" /\ todo[r] = {}
  /\ Forget(r, Jobs, "idle")
  /\ UNCHANGED <<docs, todo, covered, failures, faults>>

(* The members of the next page. *)
PageAfter(c) ==
  LET rest == {m \in Members : m > c}
  IN  {m \in rest : Cardinality({n \in rest : n < m}) < Page}

(* The page of the fan-out job in hand, its jobs, and its last member. *)
NextPage(r) == PageAfter(seenCursor[r][cur[r]])
PageJobs(r) == {<<cur[r][1], m>> : m \in NextPage(r)}
PageIsFull(r) == Cardinality(NextPage(r)) >= Page
LastMember(r) == CHOOSE m \in NextPage(r) : \A n \in NextPage(r) : n <= m

(* processShiftPolicyJob, processOrganizationDateRangeJob: one batch writes *)
(* the jobs of the page, whether or not they exist, and the cursor.         *)
FanOut(r) ==
  /\ phase[r] = "fan out"
  /\ state' = [j \in Jobs |-> IF j \in PageJobs(r) THEN "pending"
                              ELSE IF j # cur[r] THEN state[j]
                              ELSE IF PageIsFull(r) THEN "pending" ELSE "completed"]
  /\ cursor' = [j \in Jobs |-> IF j \in PageJobs(r) THEN 1
                               ELSE IF j = cur[r] /\ PageIsFull(r) THEN LastMember(r)
                               ELSE cursor[j]]
  /\ attempts' = [j \in Jobs |-> IF j \in PageJobs(r) THEN 0 ELSE attempts[j]]
  /\ Forget(r, {cur[r]}, "picking")
  /\ UNCHANGED <<todo, covered, failures, faults>>

(* The page of a leaf job goes on. *)
InPage(r) == at[r] \in Items /\ at[r] < seenCursor[r][cur[r]] + Chunk

(* recalculateAttendance, for the next day. *)
Recalculate(r) ==
  /\ phase[r] = "recalculate" /\ InPage(r) /\ <<cur[r], at[r]>> \notin Poison
  /\ covered' = covered \union {<<cur[r], at[r]>>}
  /\ at' = [at EXCEPT ![r] = @ + 1]
  /\ UNCHANGED <<docs, phase, todo, cur, seenCursor, seenAttempts, failures, faults>>

(* Mutant: the end of the range is compared as if it were exclusive. *)
LastPageExclusive(r) ==
  IF cur[r] \in Mappings \X {0} THEN at[r] < seenCursor[r][cur[r]] + Chunk
                                ELSE at[r] >= LastItem

(* processEmployeeDateRangeJob stops after the last day;                   *)
(* processIdentityMappingJob after a page that is not full.                *)
LastPage(r) ==
  IF cur[r] \in Mappings \X {0} THEN at[r] < seenCursor[r][cur[r]] + Chunk
                                ELSE at[r] > LastItem

(* Mutant: only the last update writes the cursor. *)
CursorOnlyAtEnd(r) == IF LastPage(r) THEN at[r] ELSE cursor[cur[r]]

(* The last update of processIdentityMappingJob leaves the cursor alone. *)
CursorAfter(r) ==
  IF LastPage(r) /\ cur[r] \in Mappings \X {0} THEN cursor[cur[r]] ELSE at[r]

(* processEmployeeDateRangeJob, processIdentityMappingJob: the update.     *)
FinishPage(r) ==
  /\ phase[r] = "recalculate" /\ ~InPage(r)
  /\ state' = [state EXCEPT ![cur[r]] = IF LastPage(r) THEN "completed" ELSE "pending"]
  /\ cursor' = [cursor EXCEPT ![cur[r]] = CursorAfter(r)]
  /\ Forget(r, {cur[r]}, "picking")
  /\ UNCHANGED <<attempts, todo, covered, failures, faults>>

(* The attempts of the job in hand, with one that fails. *)
Attempt(r) == seenAttempts[r][cur[r]] + 1

(* Mutant: the bound is one too small. *)
GivesUpEarly(r) == Attempt(r) >= MaxAttempts - 1

GivesUp(r) == Attempt(r) >= MaxAttempts

(* Processing the job throws; its document counts the attempts. *)
JobFails(r) ==
  LET j == cur[r] IN
  /\ phase[r] \in {"fan out", "recalculate"}
  /\ \/ phase[r] = "recalculate" /\ InPage(r) /\ <<j, at[r]>> \in Poison /\ UNCHANGED faults
     \/ Fault
  /\ attempts' = [attempts EXCEPT ![j] = Attempt(r)]
  /\ state' = [state EXCEPT ![j] = IF GivesUp(r) THEN "failed" ELSE @]
  /\ failures' = [failures EXCEPT ![j] = @ + 1]
  /\ Forget(r, {j}, "picking")
  /\ UNCHANGED <<cursor, todo, covered>>

(* The invocation dies or runs out of its nine minutes. *)
RunDies(r) ==
  /\ phase[r] # "idle" /\ Fault
  /\ todo' = [todo EXCEPT ![r] = {}]
  /\ Forget(r, Jobs, "idle")
  /\ UNCHANGED <<docs, covered, failures>>

RunStep(r) ==
  \/ StartRun(r) \/ PickJob(r) \/ EndRun(r) \/ FanOut(r)
  \/ Recalculate(r) \/ FinishPage(r) \/ JobFails(r)

Next ==
  \/ \E j \in Roots : Create(j)
  \/ \E r \in Runs : RunStep(r) \/ RunDies(r)

Spec == Init /\ [][Next]_vars

(* The schedule starts the function again and again, and it goes on.  A    *)
(* failure that passes is not forced to happen, nor prevented.             *)
FairSpec ==
  /\ Spec
  /\ \A r \in Runs : WF_vars(RunStep(r))

-----------------------------------------------------------------------------
TypeOK ==
  /\ state \in [Jobs -> {"none", "pending", "completed", "failed"}]
  /\ cursor \in [Jobs -> Nat] /\ attempts \in [Jobs -> Nat]
  /\ phase \in [Runs -> {"idle", "picking", "fan out", "recalculate"}]
  /\ todo \in [Runs -> SUBSET Jobs]
  /\ cur \in [Runs -> Jobs \union {NoJob}]
  /\ at \in [Runs -> Nat]
  /\ seenCursor \in [Runs -> [Jobs -> Nat]] /\ seenAttempts \in [Runs -> [Jobs -> Nat]]
  /\ covered \subseteq Leaves \X Items
  /\ failures \in [Jobs -> Nat]
  /\ faults \in Nat

(* A completed job has done all of its work: a leaf job has recalculated   *)
(* every one of its days, a fan-out job has a child for every member,      *)
(* although pages are repeated, invocations die between a page and its     *)
(* cursor, and cursors are written from old snapshots.                     *)
CompletedIsCovered ==
  /\ \A j \in Leaves : state[j] = "completed" => \A d \in Items : <<j, d>> \in covered
  /\ \A p \in FanOuts : state[<<p, 0>>] = "completed" =>
       \A m \in Members : state[<<p, m>>] # "none"

(* A job is given up only after MaxAttempts failures of its own            *)
(* (docs/PRODUCTION_READINESS.md: "Jobs become failed after five           *)
(* unsuccessful processing attempts").                                     *)
FailedHasFailedOften ==
  \A j \in Jobs : state[j] = "failed" => failures[j] >= MaxAttempts

(* No job is pending forever, not even behind one that always fails, or    *)
(* between two invocations that take each other's progress back.           *)
JobsEnd == <>[](Pending = {})
=============================================================================
