# Verification of Infact HikBridge

TLA+ specifications, TLC runs and TLAPS proofs for the attendance bridge of
`src/Infact-HikBridge-v0.1` (called `R` below): a Go service on a Windows PC that
reads attendance events from a Hikvision terminal, keeps them until a Firebase cloud
function has taken them, and carries commands (synchronise a user, enrol a
fingerprint) from the cloud to the terminal.

## 1. The system

| Part | State it keeps | Operations | Talks to |
| --- | --- | --- | --- |
| Event store (`internal/store`, `internal/atomicfile`) | one file per event in `events/pending`, `synced`, `failed`; `checkpoint.txt`; command receipts; user cache | `Open`/`recoverPending`, `PutIfAbsent`, `PrepareBatch`, `Release`, `MarkSynced`, `MarkFailed`, `PreserveParseIssue`, `PruneSynced`, `GetCheckpoint`/`SetCheckpoint`, `PutCommandResult`/`HasCommandResult`/`CommandResults`/`RemoveCommandResults`, `MarkUserProvisioned` | files only; one mutex per process |
| Uploader (`bridge.syncOnce`, `SyncNow`, `internal/syncer`) | none of its own | prepare, send, mark, reject, release | store, ingestion function |
| Poller (`bridge.pollOnce`, `pollLoop`) | none of its own | search a window, persist, move the checkpoint | terminal, store |
| Command execution (`bridge.exchangeCommandsOnce`, `executeCommand`) | receipts and user cache, in the store | report, receive, skip, execute | ingestion function, terminal |
| Command scheduling (`bridge.commandLoop`, `internal/realtime`) | a timer, two channels, the stream | wake, connected / disconnected, exchange | realtime database, command execution |
| Ingestion function (`ingest/`) | raw events, command documents, fingerprint lock, enrollment documents, nonces | `writeEvents`, `exchangeCommands`, `claimReplay`, `recordContact` | Firestore |
| Employees (`employees/`) | employees, commands, lock, enrollments, mappings | `createEmployee`, `requestFingerprintEnrollment`, mapping | Firestore, realtime signals |
| Recalculation (`attendance/recalculation*.ts`, triggers) | daily attendance, inference decisions, jobs | recalculate, infer, page through jobs, retry | Firestore |
| Attendance engine (`attendance/engine.ts`, `shift-inference.ts`) | none | pure functions of punches, shift, adjustments | - |
| Device registry (`devices/`) | the global registration of a device ID, the device document of an organization, the versions of its secret, identities and enrollments of a device | `provision`, `rotate`, `setEnabled`, `remove`, `mergeDeviceEnrollmentData` | Firestore, Secret Manager |
| Billing (`billing/`) | subscription record, billing account, checkout lock, received events | `createSubscriptionCheckout`, `dodoPaymentsWebhook`, `setSubscriptionStatus`, `activateManualSubscription`, `configureBillingProduct`, entitlements | payment provider |
| Tenancy (`branches/`, `departments/`, `onboarding/`, `shifts/`) | organisations, branches, departments, employees and their codes, members | found, create, delete, assign; limits read in the creating transaction | Firestore |
| Configuration, setup page, Windows service, elevation, updater, logging | configuration and log files | installation and status | Windows |
| Web dashboard (`web/`) | per tab: the user, the subscription, the page, the organization shown | listen for tokens, resolve the profile, load the subscription, guard the pages, found the organization | Firebase Authentication, Firestore, billing |
| Rules, scripts, installer | - | access control, deployment | Firestore |

How they interact:

* The **service** is one process with several goroutines: `pollLoop` and `commandLoop`
  (both call `pollOnce`), `syncLoop`, `maintenanceLoop`. They share the store (a mutex
  per operation) and the device (a mutex per request).
* The command **`hikbridge sync-now`** is a second process that opens the same data
  directory with no lock between the two.
* The bridge only ever calls the **cloud functions** over HTTP; a request may be lost,
  its answer may be lost, and the function may still be working on a request its sender
  no longer waits for. Functions run concurrently and meet in Firestore transactions.
* A **device registration** is read by the ingestion function and the realtime session
  function on every request, its key through a cache of five minutes per function instance;
  callables of administrators change it in several transactions with Secret Manager in
  between.
* The **payment provider** and the functions share no transaction: events come in any order,
  perhaps twice, and a platform administrator's act is a read, a call and a write.
* A **browser tab** runs one listener and two effects whose requests overlap; it decides on
  what it shows and where it goes from what they have answered so far.
* Administrators' functions write commands; a **signal** in the realtime database wakes
  the bridge, which then asks for them.

What is hard: the file-by-file crash behaviour of the store and its second process;
the checkpoint against a terminal with its own clock; at-most-once execution of a
command that is reported at least once; the enrollment document, which four code paths
write; the select loop with two channels and a timer; in the cloud, read-compute-write
cycles outside transactions, a secret store between two of them, a cache of keys, locks
that run out and events out of order; and in the browser, answers that come after the
question has changed. `PROJECT.json` lists these as hazards
at their lines, with the properties that cover them.

What makes each part correct:

* store and uploader: durable evidence is never lost; *synced* means the cloud has it;
  nothing stays in the queue forever;
* poller: whatever the next poll will not ask for any more is durable; every event is
  collected;
* commands: executed at most once, always reported, success is true, final stays
  final, one enrollment at a time, the enrollment document tells the truth, every
  command ends;
* scheduling: an offline loop keeps polling; every command is collected;
* recalculation: the stored day is that of the latest sources; completed jobs have done all
  of their work; jobs finish;
* registry: the key handed out last works, documents follow the registration, no key is
  admitted long after it was good;
* billing: the settled record is what the provider last said, checkouts alone never give two
  subscriptions, nobody without access is kept from buying;
* tenancy: staff are at active branches, creation stops at the plan's limits, a merge of two
  registrations loses nothing;
* tab: what it shows was answered for the account it shows; it does not wait for ever nor
  go round in circles.

## 2. Plan

| | Module | Status |
| --- | --- | --- |
| 1 | `EventStore`, abstract `EvidenceDelivery`, `EventStoreProofs` | checked, refinement checked and proved |
| 2 | `DevicePolling`, `BridgeLoopsProofs` | checked, proved |
| 3 | `CommandExchange`, `CommandExchangeProofs` | checked, safety proved |
| 4 | `CommandLoop`, `BridgeLoopsProofs` | checked, safety proved |
| 5 | `DeviceRegistry`, `DeviceRegistryProofs`: provisioning, rotation, enabling, removal against Secret Manager, and the admission of keys | checked, proved |
| 6 | `RecalculationJobs`, `RecalculationJobsProofs`: paged jobs, their retries and overlapping invocations | checked, safety proved |
| 7 | `AttendanceEngine`, `AttendanceDay`, `AttendanceDayProofs`: the calculation of a day, and its overlapping recalculations beside HR's decisions | checked, proved |
| 8 | `Billing`, `OrganizationProofs`: checkout, webhooks, administrators | checked, proved |
| 9 | `Tenancy`, `OrganizationProofs`: branches, employees, identities, limits, the merge of two registrations | checked, proved |
| 10 | `WebSession`, `WebSessionProofs`: one tab's session, subscription and guards | checked, safety proved |
| 11 | nonces of the ingestion function; overlap of shift assignments | to come |

One passing run per module, two where safety with many faults and liveness need different
bounds. Every safety property that a passing run checks is a theorem; what is left to prove is
that of the modules to come.

## 3. The modules

### EvidenceDelivery
What the bridge promises about evidence (`R/docs/ARCHITECTURE.md`, reliability
invariants): events become *held*, may be *delivered* while held, and are let go of only
once delivered.

### EventStore
State: the three directories (`pending`, whose value is the record's sync state;
`synced`; `failed`; `kept`, the quarantined source bytes), per process the operation in
hand with the next file operation, and the cloud's raw events.

| Action | Code |
| --- | --- |
| `Open` | `New` -> `store.Open` -> `recoverPending` begins |
| `BeginSync` | `syncOnce` -> `PrepareBatch` begins |
| `Visit`, `ReadRecord`, `WriteRecord`, `RemoveRecord` | one name, one read, one atomic write, one remove of the loop of the operation in hand |
| `ReadFailsQuarantine`, `ReleaseSkips`, `ReadFailsGiveUp` | the three reactions to an unreadable record |
| `StoreFails` | a write or a remove returns an error: the operation ends with it, and `New` with the recovery |
| `EndOperation` | what `New` and `syncOnce` do next |
| `CloudIngest`, `ReceiveAnswer`, `SendFails`, `LateIngest` | the upload, its answer, its loss, a request that arrives after its sender gave up |
| `SyncNowExpires` | the ten minutes of `sync-now` |
| `PutIfAbsent`, `PruneSynced` | the poll's and the maintenance goroutine's calls, between operations of the service (mutex) |
| `Crash`, `Damage`, `TimeComes` | the process, the disk, the cloud's clock |

Abstractions: a record is its sync state; the age limit of `PruneSynced` is any nonempty
set of synced records; the cloud's verdict is *always invalid* or *too early until its
time comes*; `PutIfAbsent`'s look and write are one step (its process holds the mutex, the
other process only handles records that exist). `PrepareBatch` lines 332-344 handle
records in state synced or failed inside `pending`, which no code path of this version
writes; they are left out. `disturbances` bounds crashes, failed sends, writes and removes,
damage, prunes and starts of sync-now together.

### DevicePolling
Per poller the program counter of `pollOnce` and its window, the clock, the terminal's log
and `checkpoint.txt`. `BeginPoll` reads clock and checkpoint, `SearchPage` is one page of
the search (`deviceMu` is held until the last), `Persist` one `PutIfAbsent` or
`PreserveParseIssue`, `SaveCheckpoint` the write, `PollFails` every error return.
The terminal lists a window by time and goes on recording, so that between two pages events
may come before those already read and move the rest to later positions (`PositionOf`); it
fills every page but the last. A page that brings nothing, or too many, ends the search with
an error, which is `PollFails`; `MaxFailures` bounds its occurrences. A window with more events
than the client's safety limit (`R/internal/hikvision/client.go:936`) fails the same way at
every poll, without end: that is outside the model, and `EventsAreCollected` says nothing of a
terminal that holds so many.
`horizon` is an observation: where the initial windows began. `Lag` and `Ahead` bound how
far a stamp is behind or ahead of the bridge's clock when the event is listed.

### CommandExchange
Firestore's command documents, lock and enrollment documents; per request in service what
the function knows (`handler`); the bridge's receipts, cache and program counter; the
terminal's users and accepted fingerprints.

| Action | Code |
| --- | --- |
| `QueueUpsert`, `QueueEnroll` | `createEmployeeInFirestore`, `queueFingerprintEnrollmentInFirestore` |
| `RequestArrives`, `ApplyResults`, `QueryCandidates`, `Deliver`, `RequestEnds` | `exchangeCommands`: results transaction, query outside a transaction, delivery transaction |
| `SendExchange`, `ReceiveAnswer`, `RemovalStops`, `ExchangeFails`, `SkipCommand`, `WriteReceipt`, `Finish` | `exchangeCommandsOnce` |
| `TooLate`, `Start`, `UpsertUser`, `Capture`, `Assign`, `DeviceFails` | `executeCommand` with the cache and the repair of a missing user |
| `ReplaceDevice` | `remove` of `devices/provisioning.ts`, seen from here: all documents of the device go, and the bridge comes back with its old data directory |
| `Crash`, `RemoveUser`, `Tick` | environment |

Abstractions: the bridge's and the cloud's clocks agree; malformed command documents are
left out (the removal of a device is one step here); an execution is one run of `executeCommand`, the HTTP retries
inside it are not counted; the terminal's answers are success or one failure.
`NoStaleCandidates` (a request delivers no command that has become final since its query) is
what serving one request at a time gives, and what the safety theorems below assume of the
function; deviation 3 is what happens without it. A failed write of the user cache only costs the next command an `UpsertUser` and is left out.

### CommandLoop
`commandLoop`'s variables (`connected`, `startupReconciled`, the timer), the `states`
channel of capacity two and `commandWake` of capacity one with their non-blocking sends,
the stream, and a small picture of the exchange (results out, at most one command in).
All delays are abstracted: an armed timer may fire at any time. What happens to a failed
exchange that the cloud serves late is `CommandExchange`'s subject; commands do not expire
here.

### RecalculationJobs
The job documents (state, cursor, attempts) and, per invocation of the scheduled function,
the snapshot its query took of each job, the jobs still to process and the one in hand.

| Action | Code |
| --- | --- |
| `Create` | `saveShift`, `assignEmployeeShift`, `mapDeviceIdentity`, `createJobsIfAbsent` of the triggers |
| `StartRun`, `PickJob`, `EndRun` | `processAttendanceRecalculationJobs`: the query, the loop |
| `FanOut` | `processShiftPolicyJob`, `processOrganizationDateRangeJob`: one page, one batch |
| `Recalculate`, `FinishPage` | `processEmployeeDateRangeJob`, `processIdentityMappingJob`: one day, the update |
| `JobFails` | the `catch` |
| `RunDies` | the platform |

Abstractions: recalculating a day is one step (its own races are `AttendanceDay`'s
subject); the days of an identity mapping's events are numbered like those of a date range;
assignments and employees do not change while a job pages through them (a change of theirs
has its own job); assignments outside the policy's dates, which get no child, are left out,
as are jobs with malformed fields, which no code writes. `maxInstances: 1` does not keep a
second scheduled call from the running instance, so invocations may overlap. `Poison` are
days that always fail; `MaxFaults` bounds transient failures and dying invocations together.

### AttendanceEngine and AttendanceDay
`AttendanceEngine` has no state: it is `calculateAttendance` and `inferDailyShift` as
operators on sets of punches. `Calculate` goes through `WindowOf`, `Unique` (the duplicate
window), `FirstIn`/`LastOut`, `Adjusted`, the durations, `BaseStatus` and `Exceptions`;
`InferDailyShift` through `Candidates`, `Distance`, `Likeliest` and `Within`. The time zone
is a function from local times to instants, so any offset and any clock change is one.

`AttendanceDay` keeps one employee's sources (`events`, `assigned`, `approved`, `off`), the
documents derived from them (`inference`, `days`), what is still to be recalculated (`due`,
`jobs`) and what each function instance is doing (`work`).

| Action | Code |
| --- | --- |
| `LoadContext`, `InferShift`, `WriteInference`, `LoadSources`, `WriteDay` | `recalculateAttendance`: `loadContext`, the reads and the merge of `inferShift`, the reads issued together with the calculation, the `set` |
| `RecalculateNewEvent` | the trigger of a stored event, for its date and the one before |
| `RecalculateForJob` | one day of a job (`RecalculationJobs` says how jobs go on) |
| `RecalculateAttendanceDay`, `CreateManualAdjustment`, `ResolveShiftInference` | HR's callables: their transaction and the start of the recalculation |
| `Ingest`, `AssignEmployeeShift`, `Excuse` | the sources change, and leave the event's trigger or a job |
| `Fail` | any read or write of a recalculation fails; triggers and jobs are tried again |

Abstractions: reads that the code issues together are one step; identifiers are numbers in
the order of the code's string comparisons; shifts do not change (an edit of a shift is a job
of `RecalculationJobs`); the trigger that turns a leave or a holiday into a job is part of
its entry; all dates lie in the organization's past, so an open assignment reaches all of
them; corrections are made, never withdrawn, as in the code. `touched` is an observation: the
instances whose recalculation a change of a source, or another instance at the same date,
has overlapped.

### DeviceRegistry
One bridge device ID: its registration, the device documents of the organizations, the
versions of its secret, the callables and bridge requests in service, and the cache of one
function instance. Keys are numbered as they are generated.

| Action | Code |
| --- | --- |
| `Reserve`, `CreateSecret`, `AddVersion`, `Activate`, `MarkFailed` | `provision`: two transactions around Secret Manager, and its catch |
| `StartRotate`, `AddVersion`, `PublishRotated` | `rotate`: a read, a new version, an update made from the read |
| `StartSetEnabled`, `SetEnabled` | `setEnabled`: a read, a batch |
| `StartRemove`, `Revoke`, `DeleteSecret`, `DeleteDocuments`, `Unregister` | `remove` |
| `Receive`, `GetSecrets`, `Admit`, `Refuse` | `getDevice`, `getSecrets`, the signature, `recordContact` |
| `ProvisionCallFails`, `Dies`, `Tick` | environment; in the first, a call of `provision` to Secret Manager or its second transaction fails |

Abstractions: a signature is the key it was made with, and the bridge may use any key handed
out before its request was sent; two loads of one version in flight at once share their
result in the code and are separate here; the eviction of the cache's 500th entry only
shortens an entry's life. `crossed` and `vouched` are observations: that a removal has
overlapped another callable, and when each key was last good (its version named by an admitted
registration, newest or within its grace, and in Secret Manager) or handed out. A request is cut off by the
function's timeout (`RequestTime`), callables are not assumed to be.

### Billing
One organization's subscription record (its two documents are always written together and
with the same fields), billing account, lock, and the provider's subscriptions and events.

| Action | Code |
| --- | --- |
| `Acquire`, `Publish`, `CheckoutFails`, `CheckoutDies` | `createSubscriptionCheckout` |
| `Deliver` | `dodoPaymentsWebhook` and its transaction |
| `StartSetStatus`, `UpdateProvider`, `WriteStatus` | `setSubscriptionStatus` |
| `StartManual`, `WriteManual` | `activateManualSubscription` |
| `ConfigureProduct` | `configureBillingProduct` |
| `Pay`, `ProviderChanges`, `Tick` | the owner, the provider, time |

The provider is assumed to number its events in the order of its changes, and to take one
payment for a URL. It takes it at any time, also long after the lock has let go of the URL (the
session is made without an end, `functions.ts:202-223`), and an event is as long on its way as it
likes. `Deliver` always finds its organization: what it is resolved by (`webhook.ts:45-75`) is in
the metadata that the checkout sets and in the configured product, and organizations are never
removed, so the answers `tenant_unresolved` and `organization_missing` (lines 121-136), which
change nothing, are left out. The end of a subscription's access (`expires_at`) is any of `Terms`.

`late` and `crossed` are observations. An offer is late when it is paid after the lock has let go
of its URL (`LetGo`, fifteen minutes after it was made), or when that time comes and no event of
its payment has been received. `crossed` remembers that an administrator's write met a record
other than the one it read; what it says then is the later writer's, and no property speaks of it.
`OneLiveSubscription` holds of the code as far as the lock reaches: whatever dies, fails, expires
or overlaps, of two live subscriptions the older one, or one before it, is late. That a late one
does give two is deviation 7.

### Tenancy
What one organization has. A transaction is one action: `Bootstrap`, `CreateBranch`,
`DeleteBranch`, `CreateDepartment`, `CreateEmployee`, `UpdateEmployeeDepartment`,
`MapDeviceIdentity`, `QueueFingerprint` and `EnrollmentEnds` (of which `CommandExchange` has
the steps), `ReserveDevice`, `ActivateDevice`, `SetDeviceEnabled`, `StartRemove`,
`FinishRemove` (of which `DeviceRegistry` has them); `ChangePlan` is what `Billing` decides.
`CheckMerge`, `ReadForMerge`, `CommitBatch`, `AuditMerge`, `MergeDies` and `RepeatMerge` are
`mergeDeviceEnrollmentDataInFirestore`, which reads twice outside any transaction and then
commits batch by batch; the order of its writes is that of the documents read, whose names are
hashes, so a batch is any `Chunk` of the writes left. `before` and `disturbed` are observations: what both devices had when
the merge began, and that another callable has written to them since.

Abstractions: roles and the check of the subscription before a call; names and addresses; an
employee is known by its code, which the code's registry keeps for one employee for ever; one
merge per behaviour. A limit that is `Unlimited` is the `null` that the code accepts for
branches alone.

### WebSession
One tab: what `AuthProvider`, `SubscriptionProvider` and `DataProvider` keep, the calls and
loads under way, the page. `Listen` is the token listener, `ReadProfile` and `ReadMembership`
the two reads of `resolveProfile`, after which `Ready`, onboarding or `CallFails` is applied
whatever came later; `Found`, `FoundReturns` the onboarding form; `LoadAnswers`, `LoadFails`,
`LoadAgain` the subscription's three attempts; `Fetch` the organization; `Redirect` the guard
of the page (`AppTarget`, `LoginTarget`, ...). A sign-out calls the listener at once and, when it
was begun in the workspace, pushes the login page later (`leaving`, `PushLogin`), wherever the tab
is by then. `Render` is what React does after a change: it
restarts the load when the user *object* changed (objects carry the number of the call that
made them) and mounts or unmounts the workspace.

Abstractions: roles other than the platform's staff, demo mode, the signup page, form
validation; `refreshOrganization` and the tables of the workspace. `missed` and `lost` are
observations, and each is cleared when a call begins: the call that ended last was not the one
that began last; the answer to a founding was lost, and the last call has not ended since.
`QuietSessionIsRight` excludes these two and nothing else: calls that overlap and of which the
last to begin ends last are covered. In the two cases it excludes, the tab shows an earlier
state until the next token comes.

Operators whose comment begins with `Mutant:` are not part of the model: each is a
plausible wrong version of the definition that follows it, and replacing that definition
by it makes the property named in `PROJECT.json` fail. They show that each property can
be violated by the code it is about.

## 4. The runs

| Run | Expect | Shows |
| --- | --- | --- |
| `EventStore_two` | pass | service and sync-now on one directory, an event that is future-dated and may be damaged and one that is malformed, batches of one, any two of: a start of sync-now, a crash, a failed send, damage, retention. Evidence is kept, *synced* is in the cloud, *failed* was refused, every step is a step of `EvidenceDelivery`, and no record is stuck. Two disturbances allow a crash during the recovery from a crash, in either process; larger batches and more events are left to the theorems |
| `DevicePolling` | pass | two events and pages of one (a search of both needs two pages, and the other may be recorded between them), two pollers, three clock values, `Lag + MaxStepBack = Overlap`, the tight case, all of it a clock set back. The safety part for a terminal that is late as well (`Lag = 1`, five clock values) is `DevicePolling_lag.cfg`: it finishes in two minutes and passes, and the theorem covers all values |
| `CommandExchange_one` | pass | `NoStaleCandidates`, which the theorems take as their premise, and the safety properties: two enrollments and a user command for one employee, one request in service, two faults, time for a lease, an expiry and a second enrollment; a request carries one result (`ResultLimit` 1 for the code's 20), so that an orphaned receipt can hold back another |
| `CommandExchange_two` | pass | one enrollment and one user command, two requests in service: every command ends |
| `CommandLoop` | pass | two commands, two disconnections, one fault, signals that may fail: the states channel fills and drops |
| `CommandLoop_lostwake` | violation | deviation 1, with no failure of any kind |
| `RecalculationJobs` | pass | one fan-out job of two members and an identity mapping, pages of one (so every page is full, the last one included, and the fan-out needs a third, empty page), two days, two overlapping invocations, one job per query (the poisoned child stands before the mapping), two attempts for the code's five, one transient failure or death |
| `AttendanceDay` | pass | two instances, two dates, a day and a night shift, three punches in any order: the first two exactly a minute apart (the border of the duplicate window), the first within and the second beyond the inference's high-confidence distance, the third half a minute before the shift's end; two ticks to the minute, so that rounding matters; a local day of twelve minutes keeps the windows small, and the clock goes back a minute inside the night shift. One act of HR or one failure: each meets every state of the recalculations |
| `DeviceRegistry` | pass | two organizations that use one ID, two callables and one request in service, four callables in all, three keys (so that a version name can come back and a rotation meets a rotation), one failure or death, four clock values for a grace and a cache life of one |
| `Billing` | pass | two checkouts, two offers, three changes at the provider, two acts of administrators, one fault, four clock values: a lock can run out, a second checkout begin, the first URL be paid late, and events of both come in any order (three changes are two payments and one more; three offers and four changes, without acts and faults, pass too) |
| `Tenancy` | pass | two branches, two devices, two numbers, a small plan and a larger one that does not limit branches, five calls, one failure, batches of any three of the writes left for the code's 400 (so that a merge of two numbers needs two) |
| `WebSession` | pass | two accounts, one of them platform staff, two organizations, three calls of the listener, which overlap and end in any order, two acts of the user or the cloud, one failed request; three attempts as in the code |

The limits are also the budget of a run: each finishes in less than four minutes on two
cores. The type invariants of `EventStore`, `DevicePolling`, `CommandExchange`, `CommandLoop`,
`RecalculationJobs`, `AttendanceDay`, `Billing` and `WebSession` are theorems and are not checked
again; so are those of `DeviceRegistry`, which is checked because it bounds the versions too, and of
`Tenancy`, which is checked because it says that references are kept.

`CHECK_DEADLOCK FALSE` appears where the system really may rest: a connected command loop with
nothing to do, the recalculations of an employee whose sources no longer change, and the
callables, customers and users of `DeviceRegistry`, `Billing`, `Tenancy` and `WebSession`,
who need not do anything more.

**Fairness.** `EventStore`: the service is restarted by the Windows service manager and its
loop goes round; of `sync-now` only its deadline is assumed (without it the two processes
could undo each other's prepares forever). `DevicePolling`: one of the two goroutines
goes on (both loop forever), device requests have timeouts, the clock advances. `CommandExchange`: the loop comes round
at least every thirty seconds in fallback mode (`legacyCommandLoop` and a disconnected
`commandLoop`; for a connected one see `CommandLoop`), requests are served or die.
`CommandLoop`: Go's select picks uniformly among ready cases, hence strong fairness for the
timer, which is disarmed and armed again by the other cases; leases run out; nothing is
assumed of the network. `RecalculationJobs`: the function is started every five minutes
and goes on; it ends for finitely many transient failures and deaths (a job whose page never
fits into nine minutes would come round forever, since a dying invocation counts no attempt).
`WebSession`: requests end with an answer or an error, and React runs the effects of a render;
users and the cloud owe nothing. The other modules state no liveness.

## 5. Where the code differs from what is said of it

1. `CommandLoop_lostwake` (a run): taking `connected = true` after a wake-up stops the timer
   the wake-up armed (`R/internal/bridge/runner.go:835-843`); the queued command then waits for
   the next signal or reconnection.

The following are not among the listed runs; the configurations named reproduce them.

2. `EventStore_readfault.cfg`, `EvidenceKept` (module `EventStore`): `quarantineCorruptLocked`
   (`R/internal/store/store.go:485`) is called for every read error. When the read itself failed
   it keeps no bytes and still removes the pending file: one transient I/O error loses an intact
   event. `R/docs/ARCHITECTURE.md:37`: recovery "quarantines corrupt source bytes".
3. `CommandExchange_stale.cfg`, `AtMostOneExecution` (module `MCCommandExchange`): the
   delivering transaction (`R/cloud/functions/src/ingest/firestore-repository.ts:287-388`) does
   not check whether a candidate has become final since the query. With two requests in service
   a finished command is dispatched and executed again. (`FinalStays`, `ExecutedIsReported` and
   `LiveEnrollmentHoldsLock` fail in the same way with two handlers, which is why
   `CommandExchange_one` checks them with one.)
4. `AttendanceDay_race.cfg`, `NoPunchForgotten` (module `MCAttendanceDay`): a day is read,
   calculated and replaced without a transaction
   (`R/cloud/functions/src/attendance/recalculation.ts:374-397`). Of two triggers at one day
   the one that read before the other's punch was stored may write last; both have
   succeeded, nothing is left to do, and the day lacks a stored punch until something else
   recalculates it. In the same way `DecisionStands` fails: `inferShift` merges what it
   inferred over a decision that HR has made since it read (line 294).
5. `Billing_trial.cfg`, `TrialOnce` (module `Billing`): the trial is remembered only when the
   event of its start is applied (`R/cloud/functions/src/billing/webhook.ts:182-190`). When a
   newer event of that subscription comes first, the start is stale, `trialConsumedAt` stays
   unset, and a later checkout offers the trial again; `R/docs/SAAS_DEPLOYMENT.md:111` says it is
   offered once per organization.
6. `Tenancy_limit.cfg`, `DevicesWithinPlan` (module `MCTenancy`): the limit on devices is compared
   with the enabled devices at the reservation (`R/cloud/functions/src/devices/provisioning.ts:104`),
   before the new one counts. Two provisionings at once, or a device enabled meanwhile, exceed
   the plan; `R/docs/SAAS_DEPLOYMENT.md:113` says creation stops exactly at the limits.

The last one contradicts no document; it is what the code does not guard against:

7. `Billing_late.cfg`, `NeverTwoLive` (module `Billing`): the fifteen minutes of
   `R/cloud/functions/src/billing/functions.ts:233` say how long the code gives a URL out again;
   the session at the provider has no end. An owner who keeps a URL, lets the lock run out, pays
   at a second one and then at the first has two live subscriptions; so has one whose first
   payment is heard of only after the lock has run out. `R/docs/SAAS_DEPLOYMENT.md:112` promises
   only that a checkout is rejected while access is active.

## 6. What is proved

TLAPS checks, for all values of the constants (any number of events, processes among
service and sync-now, pollers, commands):

* **EventStoreProofs.** `TypeCorrect`, `SyncedIsInCloudAlways`, `RefusedIsRefusedAlways`; and,
  when the read of an intact record does not fail (`ReadFaults = FALSE`), `EvidenceKeptAlways`
  and the refinement `QueueDeliversEvidence`. None of the properties is inductive: whether a
  remove is safe depends on the write before it. The strengthening says of each process, by the
  operation and the file step it is at, what the other directories already hold of the record in
  hand: at "remove" a settled copy exists, at "write" the target matches the operation, the ids
  being marked are in the cloud, the ids being failed were refused. With two processes these
  facts must survive the other process's steps, so they only mention what no step takes back (the
  cloud, the quarantine, the failed records) or what it takes back only after delivery (synced
  records).
* **BridgeLoopsProofs**, about `DevicePolling`: `PollingTypeCorrect`, and
  `CheckpointCoversEvidenceAlways` under `Lag + MaxStepBack <= Overlap`. The inductive invariant
  relates every window in progress to the events: what its search has found is durable or still
  in `found`, what it has not found yet is listed where the next page begins or later (events
  only move to later positions: `PositionGrows`, and the last page ends the list:
  `PositionBelowTotal`), and what lies before its start was covered by a checkpoint it read;
  since the two pollers may save in either order, it speaks of each window on its own.
  About `CommandLoop`: `LoopTypeCorrect`, `OfflineIsPollingAlways` (with the strengthening that
  an exchange in progress has already set `startupReconciled`), `BeliefFollowsStreamAlways`.
* **RecalculationJobsProofs.** `JobTypes`, `GivenUpForGoodReason` and `CompletedDidItsWork`, for
  any jobs, members, page sizes and number of overlapping invocations. The invariant says of
  every cursor, in the document or in a snapshot however old, that what lies behind it is done:
  the days are recalculated, the members have their jobs. It is what makes writing an old cursor
  back harmless. That a page which is not full leaves no member out, and a full one none before
  its last, are lemmas about finite sets of naturals (`ShortPage`, `FullPage`).
* **AttendanceDayProofs.** `TypeCorrect`, `ScheduleAlwaysAccountedFor`, `NeverAFalseCheckout` and
  `QuietRecalculationAlwaysRight`, for any time zone, shifts, punches, corrections (finitely
  many) and number of instances. Most of it is about the calculation: least and greatest elements
  exist (so what `Earliest`, `Likeliest` and the last correction choose does), kept punches are
  more than a minute apart (`KeptPunchesAreApart`), minutes rounded up cover their span and whole
  minutes that cover the parts of a span cover it (`ScheduleCovered`). The invariant adds that
  the day an instance is about to store is good for the date it is at, and that what it was told
  of shifts and suggestions is of the right type. The fourth rests on `QuietInv`: an instance
  that nothing has touched is alone at its date, and what it has read so far is what a reader
  would find now. The instances at other dates do not touch it because a day is calculated from
  its own inference and its own corrections; every change of a source that several dates share
  touches everybody at work.
* **WebSessionProofs.** `TabTypes`, `ShownIsConfirmedAlways` and `QuietSessionAlwaysRight`, for
  any accounts, organizations and numbers of overlapping calls and attempts. The strengthening
  says that, unless the last load failed, the subscription held is that of the organization of
  the user it was loaded for, whoever is shown by now; and that the organization in the header,
  and the one being fetched, are those of a user to whom the workspace is shown.
  `QuietSessionAlwaysRight`: while the last call to begin has ended, and no earlier one after it,
  the session is right although earlier calls may still be under way (`RightInv`); that takes
  that the last call is for the account signed in, that an organization read is still the user's,
  and that the onboarding form has one call under way (`CallsInv`, `OneRefresh`).
* **CommandExchangeProofs.** `ExchangeTypes`; without a premise `SuccessAlwaysTrue` and
  `EnrollmentAlwaysTells`, for any number of requests in service; under `NoStaleCandidates`,
  which `OneRequestNoStale` proves of a single request in service, `FinalAlwaysStays`,
  `OnceAtMost`, `ExecutedAlwaysReported` and `LockAlwaysHeld`. The strengthening follows a
  command through every place that knows of it: whatever a request, a receipt or the bridge knows
  of was queued (`AskedInv`); a success on its way, as a receipt, in a request or in a document,
  has happened at the terminal (`SuccessInv`); the enrollment document is one that the state of
  the command it names allows (`FateInv`); a command in hand past the fail-safe receipt has one,
  and one delivered again keeps the one it has (`ExecInv`). That the premise is needed is what
  `CommandExchange_stale.cfg` shows.
* **OrganizationProofs**, about `Billing`: `BillingTypes`, `RecordFollowsProvider`,
  `SecondSubscriptionIsLate` and `NeverLockedOut`, for any checkouts, offers, changes and
  administrators. That the record is what the provider last said rests on every change of a
  subscription putting an event under way that tells it (`EventInv`) and on an event that is not
  applied being older than the one that was (`FollowsInv`). That a lock which gives
  out no URL ends soon is an invariant of its own (`LockEnds`). That checkouts alone never give a
  second live subscription rests on the lock giving out the newest URL until it lets go of it
  (`LockCovers`), on a payment being known by then or being late (`PaidInv`), and so, as long as
  neither an offer nor an older one is late, on everything being over for it when another
  checkout acquires the lock (`AllOverAtAcquire`, `OneInv`). There is no premise about when
  payments or events come: what is late is part of the property.
  About `Tenancy`: `TenancyTypes`, `StaffAlwaysInActiveBranches`, `AlwaysWithinPlan` and
  `MergeAlwaysComplete`, for any branches, devices, numbers, plans and batch size. The types
  (`OrganizationOK`) include that nobody is ever removed and that a merge's planned writes name
  employees; with them the second is inductive, and the third needs that what is counted is
  finite (`CountedInv`). The fourth rests on `MergeInv`: as long as nobody else writes to the two
  devices, the source is as it was, and every number at the target has what it had or what the
  merge gives it; what is not given yet is still planned. So the reads of a repeated merge, which
  find a mix of both, plan the same identities and enrollments again (`ReadsAsBefore`): the
  merged state of an enrollment does not change when it is merged once more, and a number that
  was no conflict before is none half-way.
* **DeviceRegistryProofs.** `RegistryTypes`; `LastKeyAlwaysWorks` and `DocumentsAlwaysFollow`, as
  long as no removal overlaps another callable (`crossed`); and, whatever overlaps,
  `AdmittedAlwaysRecent`. The first two rest on what a callable between two of its steps may
  count on (`Orders`): a provisioning that its registration is still reserved for it, a removal
  that it is alone and how far it has come. Then a secret that belongs to no known registration
  holds no key that anybody was given (`UnknownInv`), and overlapping rotations may publish in
  either order, since each publishes the version it made (`Published`, `NewestInv`). The third
  relates the four places a key is remembered in: a version a request is about to load, a key it
  has fetched, a cached key and the keys that may sign a request were each good, or handed out,
  recently enough (`RequestInv`, `CacheInv`), and a key in Secret Manager under a version that is
  named again was there before or is new to everybody (`ResolvedBefore`). A key counts from when
  it is handed out because `rotate` hands one out also while the device is disabled.

Only model-checked: every liveness property (TLAPS does not reason about fairness with ENABLED).
The proofs assume exactly the named `ASSUME`s of the modules and the premises named above:
`ReadFaults = FALSE`, `Lag + MaxStepBack <= Overlap` and `NoStaleCandidates`.

## 7. Not modelled, and why

Later in the plan: the nonces of the ingestion function's
replay protection, edits of shifts and remapped identities in `AttendanceDay`, the check of
overlapping shift assignments (which reads at most a hundred). Roles and permissions are left
out everywhere: the modules say what callables do once they are allowed to. What happens when a
removal of a device overlaps another of its callables, and when a webhook overlaps an
administrator's act, is in the models but no property is stated of it (`crossed`).
A terminal whose stamps are behind by more than the overlap is
outside `DevicePolling`'s assumption (`Lag + MaxStepBack <= Overlap`): the checkpoint then
passes its events. Not planned: the setup
page, the Windows service wrapper, elevation, updater and log rotation (operating-system
calls without protocol state), digest authentication and encodings (wire format), the
dashboard's tables, forms and reports (presentation), security rules and scripts (deployment).
