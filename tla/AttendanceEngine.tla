-------------------------- MODULE AttendanceEngine --------------------------
(***************************************************************************)
(* The calculation of one attendance day and the inference of its shift    *)
(* (attendance/engine.ts, attendance/shift-inference.ts): operators on the *)
(* inputs that recalculation.ts has loaded, without state.                 *)
(*                                                                         *)
(* Instants are natural numbers of ticks, Minute of them to the minute, so *)
(* that what happens within a minute can be told apart.  Instant is the    *)
(* time zone: where a local time of a date falls, any offset and any       *)
(* daylight-saving change included.  Weekdays are dates: a shift names the *)
(* dates it works on.  Identifiers are numbers, in the order in which the  *)
(* code's comparisons of strings put them.                                 *)
(***************************************************************************)
EXTENDS Integers, FiniteSets

CONSTANTS
  Minute,           \* ticks in a minute; also the window of duplicate punches
  Instant,          \* [Calendar \X Times -> Nat], minutes of the local day to ticks
  Calendar, Times,
  Policy            \* defaultShiftInferencePolicy, in minutes

ASSUME EngineAssumption ==
  /\ Minute \in Nat \ {0}
  /\ Calendar \subseteq Int /\ Times \subseteq Nat /\ 0 \in Times
  /\ Instant \in [Calendar \X Times -> Nat]
  /\ Policy \in [early : Nat, late : Nat, highDistance : Nat, highMargin : Nat,
                 mediumDistance : Nat, mediumMargin : Nat]

NoInstant == -1
NoShift == [id |-> 0]

(* A punch: [id, at, direction]; direction is "in", "out" or "unknown". *)
Precedes(p, q) == p.at < q.at \/ (p.at = q.at /\ p.id < q.id)

Earliest(S) == CHOOSE t \in {p.at : p \in S} : \A p \in S : t <= p.at
Latest(S) == CHOOSE t \in {p.at : p \in S} : \A p \in S : p.at <= t

-----------------------------------------------------------------------------
(* The window of a day. *)

EndDate(d, s) == IF s.end <= s.start THEN d + 1 ELSE d

ShiftWindow(d, s) ==
  [start |-> Instant[<<d, s.start>>],
   end |-> Instant[<<EndDate(d, s), s.end>>],
   earliest |-> Instant[<<d, s.start>>] - s.before * Minute,
   latest |-> Instant[<<EndDate(d, s), s.end>>] + s.after * Minute]

LocalDayWindow(d) ==
  [start |-> Instant[<<d, 0>>], end |-> Instant[<<d + 1, 0>>],
   earliest |-> Instant[<<d, 0>>], latest |-> Instant[<<d + 1, 0>>]]

WindowOf(d, s) == IF s = NoShift THEN LocalDayWindow(d) ELSE ShiftWindow(d, s)

(* zonedDateTime: the date that it is at an instant. *)
LocalDate(t) == CHOOSE d \in Calendar : Instant[<<d, 0>>] <= t /\ t < Instant[<<d + 1, 0>>]

InWindow(P, w) == {p \in P : w.earliest <= p.at /\ p.at <= w.latest}

-----------------------------------------------------------------------------
(* Punch selection.  The loop of selectPunches compares a punch with the   *)
(* one before it in its group, kept or not; there is one within a minute   *)
(* exactly when there is any punch of the group before it within a minute. *)

Group(p, mode) == IF mode = "explicit_status" THEN p.direction ELSE "first_last"

(* Mutant: scans exactly a minute apart are told apart. *)
DuplicatesBelowAMinute(P, mode) ==
  {p \in P : \E q \in P : /\ Group(q, mode) = Group(p, mode)
                          /\ Precedes(q, p)
                          /\ p.at - q.at < Minute}

Duplicates(P, mode) ==
  {p \in P : \E q \in P : /\ Group(q, mode) = Group(p, mode)
                          /\ Precedes(q, p)
                          /\ p.at - q.at <= Minute}

Unique(P, mode) == P \ Duplicates(P, mode)

Explicit(U, mode) == mode = "explicit_status" /\ \E p \in U : p.direction # "unknown"

Directed(U, dir) == {p \in U : p.direction = dir}

FirstIn(U, mode) ==
  IF Explicit(U, mode)
  THEN IF Directed(U, "in") = {} THEN NoInstant ELSE Earliest(Directed(U, "in"))
  ELSE IF U = {} \/ (\E p \in U : U = {p} /\ p.direction = "out")
       THEN NoInstant ELSE Earliest(U)

LastOut(U, mode) ==
  IF Explicit(U, mode)
  THEN IF Directed(U, "out") = {} THEN NoInstant ELSE Latest(Directed(U, "out"))
  ELSE IF U = {} \/ (\E p \in U : U = {p} /\ p.direction # "out")
       THEN NoInstant ELSE Latest(U)

-----------------------------------------------------------------------------
(* Approved adjustments [id, date, order, field, value]: order is that of  *)
(* approvedAt and id; a clear_ command has value NoInstant.                *)

Of(A, field) == {a \in A : a.field = field}

Adjusted(A, field, calculated) ==
  IF Of(A, field) = {} THEN calculated
  ELSE LET last == CHOOSE a \in Of(A, field) : \A b \in Of(A, field) : b.order <= a.order
       IN  last.value

-----------------------------------------------------------------------------
(* Durations, in minutes. *)

MinutesFloor(from, to) == IF to <= from THEN 0 ELSE (to - from) \div Minute
(* Mutant: started minutes are not counted. *)
MinutesTruncated(from, to) == IF to <= from THEN 0 ELSE (to - from) \div Minute

MinutesCeil(from, to) == IF to <= from THEN 0 ELSE (to - from + Minute - 1) \div Minute

OvertimeMinutes(raw, o) ==
  CASE ~o.enabled \/ raw < o.minimum -> 0
    [] ~(~o.enabled \/ raw < o.minimum) /\ (o.mode = "none" \/ o.step <= 1) -> raw
    [] OTHER -> CASE o.mode = "floor" -> (raw \div o.step) * o.step
                  [] o.mode = "nearest" -> ((2 * raw + o.step) \div (2 * o.step)) * o.step
                  [] OTHER -> ((raw + o.step - 1) \div o.step) * o.step

LateMinutes(in, w, s) ==
  LET threshold == w.start + s.grace * Minute
  IN  IF s = NoShift \/ in = NoInstant \/ in <= threshold THEN 0
      ELSE MinutesCeil(IF s.lateMode = "from_shift_start" THEN w.start ELSE threshold, in)

EarlyLeaveMinutes(out, w, s) ==
  LET threshold == w.end - s.earlyGrace * Minute
  IN  IF s = NoShift \/ out = NoInstant \/ out >= threshold THEN 0
      ELSE MinutesCeil(out, threshold)

WorkedMinutes(in, out, s) ==
  LET break == IF s = NoShift THEN 0 ELSE s.break
      span == MinutesFloor(in, out)
  IN  IF in = NoInstant \/ out = NoInstant \/ span <= break THEN 0 ELSE span - break

Overtime(out, w, s) ==
  IF s = NoShift \/ out = NoInstant THEN 0
  ELSE OvertimeMinutes(MinutesFloor(w.end + s.overtime.delay * Minute, out), s.overtime)

-----------------------------------------------------------------------------
(* calculateAttendance: P, the loaded punches; off, what makes a date      *)
(* without punches no absence: a subset of {"leave", "holiday"}.           *)

BaseStatus(hasPunch, d, s, off) ==
  CASE hasPunch -> "present"
    [] ~hasPunch /\ "leave" \in off -> "leave"
    [] ~hasPunch /\ "leave" \notin off /\ "holiday" \in off -> "holiday"
    [] OTHER -> IF s = NoShift THEN "no_shift"
                ELSE IF d \in s.dates THEN "absent" ELSE "rest_day"

Exceptions(in, out, late, early, extra, dropped, d, w, s, off) ==
  LET present == in # NoInstant \/ out # NoInstant
      raised == [duplicate_punches_ignored |-> extra,
                 outside_shift_window_ignored |-> dropped,
                 missing_check_in |-> in = NoInstant /\ out # NoInstant,
                 missing_check_out |-> in # NoInstant /\ out = NoInstant,
                 invalid_punch_order |-> in # NoInstant /\ out # NoInstant /\ out < in,
                 early_arrival |-> s # NoShift /\ in # NoInstant /\ in < w.start,
                 late_arrival |-> late > 0,
                 early_leave |-> early > 0,
                 worked_on_holiday |-> present /\ "holiday" \in off,
                 worked_on_leave |-> present /\ "leave" \in off,
                 worked_on_rest_day |-> present /\ s # NoShift /\ d \notin s.dates,
                 worked_without_shift |-> present /\ s = NoShift]
  IN  {e \in DOMAIN raised : raised[e]}

Calculate(d, s, P, off, A) ==
  LET w == WindowOf(d, s)
      mode == IF s = NoShift THEN "first_last" ELSE s.mode
      punches == InWindow(P, w)
      unique == Unique(punches, mode)
      in == Adjusted(A, "first_in", FirstIn(unique, mode))
      out == Adjusted(A, "last_out", LastOut(unique, mode))
      late == LateMinutes(in, w, s)
      early == EarlyLeaveMinutes(out, w, s)
  IN  [shift |-> s,
       firstIn |-> in, lastOut |-> out,
       late |-> late, earlyLeave |-> early,
       worked |-> WorkedMinutes(in, out, s),
       overtime |-> Overtime(out, w, s),
       status |-> Adjusted(A, "status",
                    BaseStatus(in # NoInstant \/ out # NoInstant, d, s, off)),
       adjustments |-> A,
       sources |-> punches,
       exceptions |-> Exceptions(in, out, late, early, unique # punches, punches # P,
                                 d, w, s, off)]

-----------------------------------------------------------------------------
(* inferDailyShift: the first punch that is no checkout in a shift's start *)
(* window makes the shift a candidate, at the distance of that punch from  *)
(* the start, rounded to minutes.                                          *)

StartPunches(P, d, s) ==
  {p \in P : /\ p.direction # "out"
             /\ Instant[<<d, s.start>>] - Policy.early * Minute <= p.at
             /\ p.at <= Instant[<<d, s.start>>] + Policy.late * Minute}

Candidates(P, d, S) == {s \in S : d \in s.dates /\ StartPunches(P, d, s) # {}}

Distance(P, d, s) ==
  LET off == Earliest(StartPunches(P, d, s)) - Instant[<<d, s.start>>]
  IN  (2 * (IF off < 0 THEN -off ELSE off) + Minute) \div (2 * Minute)

Likeliest(C, P, d) ==
  CHOOSE s \in C : \A t \in C : \/ Distance(P, d, s) < Distance(P, d, t)
                                \/ /\ Distance(P, d, s) = Distance(P, d, t)
                                   /\ s.id <= t.id

Within(C, P, d, distance, margin) ==
  LET best == Likeliest(C, P, d)
  IN  /\ Distance(P, d, best) <= distance
      /\ \A s \in C \ {best} : Distance(P, d, s) - Distance(P, d, best) >= margin

InferDailyShift(P, d, S) ==
  LET C == Candidates(P, d, S)
  IN  IF C = {} THEN [confidence |-> "none", suggested |-> NoShift]
      ELSE [confidence |->
              CASE Within(C, P, d, Policy.highDistance, Policy.highMargin) -> "high"
                [] OTHER -> IF Within(C, P, d, Policy.mediumDistance, Policy.mediumMargin)
                            THEN "medium" ELSE "low",
            suggested |-> Likeliest(C, P, d)]
==============================================================================
