---------------------------- MODULE AttendanceDay ----------------------------
(***************************************************************************)
(* The stored attendance days of one employee (attendance/recalculation.ts *)
(* and what calls it: the trigger of a new event, the jobs after a change  *)
(* of assignments, leave or holidays, corrections, reviews of an inferred  *)
(* shift, HR).                                                             *)
(*                                                                         *)
(* A recalculation reads its sources and replaces the day's document       *)
(* without a transaction: other sources may be written, and other          *)
(* recalculations of the same day may run, between any two of its steps.   *)
(* Reads that the code issues together are one step.  What a job does      *)
(* around a recalculation is RecalculationJobs; here a job is a date that  *)
(* is still to be recalculated.  Every date of Dates is in the past of the *)
(* organization, so that an open-ended assignment reaches all of them.     *)
(***************************************************************************)
EXTENDS AttendanceEngine, Sequences

CONSTANTS
  Dates,            \* the dates whose days are observed
  Punches,          \* the evidence that may arrive, in any order
  Shifts,           \* the active shifts
  Assignments,      \* <<shift, from, to>> that may be requested
  Corrections,      \* adjustments that may be requested
  Excuses,          \* <<date, "leave" or "holiday">> that may be entered
  Margin,           \* minutes before and after the local day whose punches hint at a shift
  Workers,          \* function instances
  MaxExtras         \* bound on acts of HR and failures

ASSUME DayAssumption ==
  /\ Dates \subseteq Int
  /\ \A d \in Dates : {d, d + 1, d + 2} \subseteq Calendar
  /\ Punches \subseteq [id : Nat, at : Nat, direction : {"in", "out", "unknown"}]
  /\ \A p, q \in Punches : p.id = q.id => p = q
  /\ \A p \in Punches : LocalDate(p.at) \in Dates \/ LocalDate(p.at) - 1 \in Dates
  /\ Shifts \subseteq [id : Nat \ {0}, start : Times, end : Times, dates : SUBSET Dates,
                       grace : Nat, lateMode : {"from_shift_start", "after_grace"},
                       break : Nat, mode : {"first_last", "explicit_status"},
                       before : Nat, after : Nat, earlyGrace : Nat,
                       overtime : [enabled : BOOLEAN, delay : Nat, minimum : Nat, step : Nat,
                                   mode : {"none", "floor", "nearest", "ceil"}]]
  /\ Assignments \subseteq Shifts \X Dates \X Dates
  /\ IsFiniteSet(Corrections)
  /\ \A a \in Corrections : /\ DOMAIN a = {"id", "date", "order", "field", "value"}
                            /\ a.date \in Dates /\ a.order \in Nat
                            /\ a.field \in {"first_in", "last_out", "status"}
                            /\ a.field # "status" => a.value \in Nat \union {NoInstant}
  /\ Margin \in Nat
  /\ Excuses \subseteq Dates \X {"leave", "holiday"}
  /\ MaxExtras \in Nat

VARIABLES
  \* the sources
  events,           \* the stored punches
  assigned,         \* the assigned shift of a date, or NoShift
  approved,         \* the approved corrections
  off,              \* leave and holidays: a subset of Excuses
  \* the derived documents
  inference,        \* shiftInferences: [state, selected]
  days,             \* attendanceDays: [source, day]
  \* the work
  due,              \* punches whose trigger has not yet succeeded
  jobs,             \* <<date, what changed>> of the jobs not yet done
  work,             \* what each function instance is doing
  \* observation
  touched,          \* instances whose recalculation something has overlapped
  extras            \* how often HR acted or a recalculation failed

sources == <<events, assigned, approved, off>>
derived == <<inference, days>>
vars == <<sources, derived, due, jobs, work, touched, extras>>

NoDay == [source |-> "no day"]
NoInference == [state |-> "absent", selected |-> NoShift]
Idle == [phase |-> "idle"]

Init ==
  /\ events = {} /\ approved = {} /\ off = {}
  /\ assigned = [d \in Dates |-> NoShift]
  /\ inference = [d \in Dates |-> NoInference]
  /\ days = [d \in Dates |-> NoDay]
  /\ due = {} /\ jobs = {}
  /\ work = [w \in Workers |-> Idle]
  /\ touched = {} /\ extras = 0

Busy == {w \in Workers : work[w] # Idle}
Date(w) == Head(work[w].todo)

-----------------------------------------------------------------------------
(* What a recalculation reads.  The range of a query excludes its end. *)

InRange(P, w) == {p \in P : w.earliest <= p.at /\ p.at < w.latest}

PunchesOf(d, s) == InRange(events, WindowOf(d, s))

PunchesForInference(d) ==
  InRange(events, [earliest |-> Instant[<<d, 0>>] - Margin * Minute,
                   latest |-> Instant[<<d + 1, 0>>] + Margin * Minute])

OffOn(d) == {x \in {"leave", "holiday"} : <<d, x>> \in off}
CorrectionsOf(d) == {a \in approved : a.date = d}

CalculatedDay(d, s) == Calculate(d, s, PunchesOf(d, s), OffOn(d), CorrectionsOf(d))

Inferred(guess) ==
  [state |-> CASE guess.confidence = "high" -> "auto_applied"
               [] guess.confidence = "none" -> "no_match"
               [] OTHER -> "review_required",
   selected |-> IF guess.confidence = "high" THEN guess.suggested ELSE NoShift]

-----------------------------------------------------------------------------
(* recalculateAttendance, for the dates of todo one after the other.  Two  *)
(* instances at work on one date overlap; one that begins a date begins    *)
(* untouched unless it meets another there.                                *)

Others(w, d) == {v \in Busy \ {w} : Date(v) = d}

Begin(w, cause, todo) ==
  /\ work' = [work EXCEPT ![w] = [phase |-> "context", cause |-> cause, todo |-> todo]]
  /\ touched' = IF Others(w, Head(todo)) = {} THEN touched \ {w}
                ELSE touched \union Others(w, Head(todo)) \union {w}

Loading(w, s, source) ==
  [phase |-> "load", cause |-> work[w].cause, todo |-> work[w].todo,
   shift |-> s, source |-> source]

(* Mutant: a day without a match is not looked at again. *)
ContextLocksNoMatch(w) ==
  LET d == Date(w)
  IN  /\ work[w].phase = "context"
      /\ work' = [work EXCEPT ![w] =
           IF assigned[d] # NoShift THEN Loading(w, assigned[d], "assigned")
           ELSE IF inference[d].state \in {"confirmed", "rejected", "no_match"}
                THEN Loading(w, inference[d].selected, "confirmed")
           ELSE [phase |-> "infer", cause |-> @.cause, todo |-> @.todo]]
      /\ UNCHANGED <<sources, derived, due, jobs, touched, extras>>

LoadContext(w) ==
  LET d == Date(w)
  IN  /\ work[w].phase = "context"
      /\ work' = [work EXCEPT ![w] =
           IF assigned[d] # NoShift THEN Loading(w, assigned[d], "assigned")
           ELSE IF inference[d].state = "confirmed"
                THEN Loading(w, inference[d].selected, "confirmed")
           ELSE IF inference[d].state = "rejected" THEN Loading(w, NoShift, "none")
           ELSE [phase |-> "infer", cause |-> @.cause, todo |-> @.todo]]
      /\ UNCHANGED <<sources, derived, due, jobs, touched, extras>>

(* inferShift reads the punches around the day, then merges what it infers *)
(* into whatever the inference's document has become.                      *)
InferShift(w) ==
  LET d == Date(w)
  IN  /\ work[w].phase = "infer"
      /\ work' = [work EXCEPT ![w] =
           [phase |-> "suggest", cause |-> @.cause, todo |-> @.todo,
            guess |-> InferDailyShift(PunchesForInference(d), d, Shifts)]]
      /\ UNCHANGED <<sources, derived, due, jobs, touched, extras>>

WriteInference(w) ==
  /\ work[w].phase = "suggest"
  /\ LET result == Inferred(work[w].guess)
     IN  /\ inference' = [inference EXCEPT ![Date(w)] = result]
         /\ work' = [work EXCEPT ![w] =
              Loading(w, result.selected,
                      IF result.selected = NoShift THEN "none" ELSE "automatic")]
  /\ UNCHANGED <<sources, days, due, jobs, touched, extras>>

LoadSources(w) ==
  /\ work[w].phase = "load"
  /\ work' = [work EXCEPT ![w] =
       [phase |-> "write", cause |-> @.cause, todo |-> @.todo, source |-> @.source,
        day |-> CalculatedDay(Date(w), @.shift)]]
  /\ UNCHANGED <<sources, derived, due, jobs, touched, extras>>

(* The day's document is replaced; the caller goes on to its next date or  *)
(* has succeeded.                                                          *)
WriteDay(w) ==
  /\ work[w].phase = "write"
  /\ days' = [days EXCEPT ![Date(w)] = [source |-> work[w].source, day |-> work[w].day]]
  /\ IF Len(work[w].todo) > 1
     THEN /\ Begin(w, work[w].cause, Tail(work[w].todo))
          /\ UNCHANGED <<due, jobs>>
     ELSE /\ work' = [work EXCEPT ![w] = Idle]
          /\ touched' = touched \ {w}
          /\ due' = due \ work[w].cause.events
          /\ jobs' = jobs \ work[w].cause.jobs
  /\ UNCHANGED <<sources, inference, extras>>

Extra == extras < MaxExtras /\ extras' = extras + 1

(* A read or a write fails: triggers and jobs are tried again, a callable  *)
(* has returned an error.                                                  *)
Fail(w) ==
  /\ work[w] # Idle /\ Extra
  /\ work' = [work EXCEPT ![w] = Idle]
  /\ touched' = touched \ {w}
  /\ UNCHANGED <<sources, derived, due, jobs>>

-----------------------------------------------------------------------------
(* The callers. *)

NoCause == [events |-> {}, jobs |-> {}]

(* candidateAttendanceDates: the date before the punch's and the punch's   *)
(* own, as far as they are observed.                                       *)
CandidateDates(p) ==
  LET date == LocalDate(p.at)
  IN  CASE date \notin Dates -> <<date - 1>>
        [] date - 1 \notin Dates -> <<date>>
        [] OTHER -> <<date - 1, date>>

RecalculateNewEvent(w, p) ==
  /\ work[w] = Idle /\ p \in due
  /\ Begin(w, [events |-> {p}, jobs |-> {}], CandidateDates(p))
  /\ UNCHANGED <<sources, derived, due, jobs, extras>>

RecalculateForJob(w, j) ==
  /\ work[w] = Idle /\ j \in jobs
  /\ Begin(w, [events |-> {}, jobs |-> {j}], <<j[1]>>)
  /\ UNCHANGED <<sources, derived, due, jobs, extras>>

RecalculateAttendanceDay(w, d) ==
  /\ work[w] = Idle /\ Extra
  /\ Begin(w, NoCause, <<d>>)
  /\ UNCHANGED <<sources, derived, due, jobs>>

(* createManualAdjustment: the correction is created, unless this request  *)
(* has created it before, and the day recalculated.                        *)
CreateManualAdjustment(w, a) ==
  /\ work[w] = Idle /\ Extra
  /\ approved' = approved \union {a}
  /\ Begin(w, NoCause, <<a.date>>)
  /\ UNCHANGED <<events, assigned, off, derived, due, jobs>>

(* resolveShiftInference: HR confirms a shift or rejects all of them. *)
ResolveShiftInference(w, d, state, s) ==
  /\ work[w] = Idle /\ Extra /\ inference[d].state = "review_required"
  /\ (state = "confirmed") <=> (s # NoShift)
  /\ inference' = [inference EXCEPT ![d] = [state |-> state, selected |-> s]]
  /\ Begin(w, NoCause, <<d>>)
  /\ UNCHANGED <<sources, days, due, jobs>>

-----------------------------------------------------------------------------
(* The sources change under whatever is at work. *)

Ingest(p) ==
  /\ p \notin events
  /\ events' = events \union {p} /\ due' = due \union {p}
  /\ touched' = touched \union Busy
  /\ UNCHANGED <<assigned, approved, off, derived, jobs, work, extras>>

AssignEmployeeShift(s, from, to) ==
  LET range == {d \in Dates : from <= d /\ d <= to}
  IN  /\ Extra /\ \A d \in range : assigned[d] = NoShift
      /\ assigned' = [d \in Dates |-> IF d \in range THEN s ELSE assigned[d]]
      /\ jobs' = jobs \union {<<d, "assignment">> : d \in range}
      /\ touched' = touched \union Busy
      /\ UNCHANGED <<events, approved, off, derived, due, work>>

Excuse(d, x) ==
  /\ Extra /\ <<d, x>> \notin off
  /\ off' = off \union {<<d, x>>}
  /\ jobs' = jobs \union {<<d, x>>}
  /\ touched' = touched \union Busy
  /\ UNCHANGED <<events, assigned, approved, derived, due, work>>

Next ==
  \/ \E w \in Workers :
       \/ LoadContext(w) \/ InferShift(w) \/ WriteInference(w) \/ LoadSources(w)
       \/ WriteDay(w) \/ Fail(w)
       \/ \E p \in Punches : RecalculateNewEvent(w, p)
       \/ \E j \in jobs : RecalculateForJob(w, j)
       \/ \E d \in Dates : RecalculateAttendanceDay(w, d)
       \/ \E a \in Corrections : CreateManualAdjustment(w, a)
       \/ \E d \in Dates, state \in {"confirmed", "rejected"}, s \in Shifts \union {NoShift} :
            ResolveShiftInference(w, d, state, s)
  \/ \E p \in Punches : Ingest(p)
  \/ \E a \in Assignments : AssignEmployeeShift(a[1], a[2], a[3])
  \/ \E e \in Excuses : Excuse(e[1], e[2])

Spec == Init /\ [][Next]_vars
-----------------------------------------------------------------------------
(* Properties *)

States == {"absent", "auto_applied", "no_match", "review_required", "confirmed", "rejected"}
Decided == {"confirmed", "rejected"}

(* Every source, document and instance holds what it should; an inference  *)
(* names a shift exactly when it has been applied or confirmed.            *)
TypeOK ==
  /\ events \subseteq Punches /\ due \subseteq events
  /\ approved \subseteq Corrections /\ off \subseteq Excuses
  /\ assigned \in [Dates -> Shifts \union {NoShift}]
  /\ inference \in [Dates -> [state : States, selected : Shifts \union {NoShift}]]
  /\ \A d \in Dates : (inference[d].selected # NoShift)
                       <=> (inference[d].state \in {"auto_applied", "confirmed"})
  /\ touched \subseteq Workers /\ extras \in 0 .. MaxExtras

(* What the documentation says the day is, from the sources as they are:   *)
(* the assigned shift, else HR's decision, else a clear match.             *)
RightShift(d) ==
  LET guess == InferDailyShift(PunchesForInference(d), d, Shifts)
  IN  IF assigned[d] # NoShift THEN assigned[d]
      ELSE IF inference[d].state \in Decided THEN inference[d].selected
      ELSE IF guess.confidence = "high" THEN guess.suggested ELSE NoShift

(* A recalculation that nothing has overlapped leaves the day that its     *)
(* sources and HR's decision call for, whatever the documents were before: *)
(* recalculating is repeat-safe and needs no history.                      *)
QuietRecalculationIsRight ==
  [][\A w \in Workers \ touched :
       days' # days /\ work[w].phase = "write" /\ work'[w] # work[w] =>
         days'[Date(w)].day = CalculatedDay(Date(w), RightShift(Date(w)))]_vars

(* No scheduled minute vanishes: of a day with a shift and both punches in *)
(* order, what is late, worked, break, early or excused by a grace adds up *)
(* to at least the scheduled time, though each is rounded on its own.      *)
AccountsForSchedule(r, d) ==
  r.shift # NoShift /\ r.firstIn # NoInstant /\ r.lastOut # NoInstant /\ r.firstIn <= r.lastOut =>
    MinutesFloor(ShiftWindow(d, r.shift).start, ShiftWindow(d, r.shift).end)
      <= r.late + r.shift.grace + r.worked + r.shift.break + r.earlyLeave + r.shift.earlyGrace

ScheduledTimeAccountedFor ==
  \A d \in Dates : days[d] # NoDay => AccountsForSchedule(days[d].day, d)

(* A repeated arrival scan never becomes a checkout: unless HR has set a   *)
(* time, a first_last day's two punches are more than a minute apart,      *)
(* however many scans lie between them and in whatever order they came.    *)
KeepsScansApart(r) ==
  /\ r.shift # NoShift => r.shift.mode = "first_last"
  /\ Of(r.adjustments, "first_in") = {} /\ Of(r.adjustments, "last_out") = {}
  /\ r.firstIn # NoInstant /\ r.lastOut # NoInstant
  => r.lastOut - r.firstIn > Minute

NoFalseCheckout == \A d \in Dates : days[d] # NoDay => KeepsScansApart(days[d].day)

(* When nothing is left to do, no stored punch is missing from the days    *)
(* whose window it is in, of the two that its trigger recalculates.        *)
NoPunchForgotten ==
  due = {} /\ jobs = {} /\ Busy = {} =>
    \A p \in events : \A d \in {LocalDate(p.at) - 1, LocalDate(p.at)} \intersect Dates :
      days[d] # NoDay /\ p \in PunchesOf(d, days[d].day.shift) => p \in days[d].day.sources

(* What HR has decided about a day's shift stays decided. *)
DecisionStands ==
  [][\A d \in Dates : inference[d].state \in Decided => inference'[d] = inference[d]]_vars
==============================================================================
