------------------------- MODULE AttendanceDayProofs -------------------------
(***************************************************************************)
(* Proofs about AttendanceEngine and AttendanceDay, for any time zone,     *)
(* punches, shifts, corrections and number of function instances: what the *)
(* calculation returns keeps repeated scans apart and accounts for the     *)
(* scheduled time, so every stored day does, whatever overlaps with what.  *)
(* Then, that a recalculation which nothing overlaps stores the right day: *)
(* it is alone at its date and has read what is still so (QuietInv).       *)
(***************************************************************************)
EXTENDS AttendanceDay, FiniteSetTheorems, FunctionTheorems, SequenceTheorems,
        WellFoundedInduction, TLAPS

-----------------------------------------------------------------------------
(* Least and greatest elements: what Earliest, Latest, the last correction *)
(* and the likeliest shift choose exists.                                  *)

LEMMA LeastExists ==
  ASSUME NEW S, S \subseteq Nat, S # {}
  PROVE  \E x \in S : \A y \in S : x <= y
<1>1. PICK x \in S : \A y \in S : ~(<<y, x>> \in OpToRel(<, Nat))
  BY NatLessThanWellFounded, WFMin
<1>2. \A y \in S : ~(y < x)
  BY <1>1 DEF OpToRel
<1>3. \A y \in S : x <= y
  BY <1>2
<1> QED BY <1>3

LEMMA GreatestExists ==
  ASSUME NEW S, S \subseteq Nat, S # {}, NEW b \in Int, \A x \in S : x <= b
  PROVE  \E x \in S : \A y \in S : y <= x
<1> DEFINE T == {b - x : x \in S}
<1>1a. \A x \in S : x \in Nat /\ b - x \in Nat
  OBVIOUS
<1>1. T \subseteq Nat /\ T # {}
  BY <1>1a
<1>2. PICK t \in T : \A u \in T : t <= u
  BY <1>1, LeastExists
<1>3. PICK x \in S : t = b - x
  BY <1>2
<1>4. \A y \in S : y <= x
  BY <1>2, <1>3
<1> QED BY <1>4

LEMMA FiniteIsBounded ==
  ASSUME NEW S, IsFiniteSet(S), S \subseteq Nat
  PROVE  \E b \in Nat : \A x \in S : x <= b
<1> DEFINE Unbounded == {U \in SUBSET S : ~(\E b \in Nat : \A x \in U : x <= b)}
<1>1. SUFFICES ASSUME Unbounded # {} PROVE FALSE
  OBVIOUS
<1>2. PICK U \in Unbounded : \A V \in Unbounded : ~(<<V, U>> \in StrictSubsetOrdering(S))
  <2>1. IsWellFoundedOn(StrictSubsetOrdering(S), FiniteSubsetsOf(S))
    BY FS_StrictSubsetOrderingWellFounded
  <2>2. Unbounded \subseteq FiniteSubsetsOf(S)
    BY FS_Subset DEF FiniteSubsetsOf
  <2> QED BY <1>1, <2>1, <2>2, WFMin
<1>3. PICK x \in U : TRUE
  BY <1>2
<1>4. U \ {x} \notin Unbounded
  BY <1>2, <1>3 DEF StrictSubsetOrdering
<1>5. PICK b \in Nat : \A y \in U \ {x} : y <= b
  BY <1>4
<1>6. \A y \in U : y <= b + x
  BY <1>5, <1>3
<1> QED BY <1>6, <1>2, <1>3

-----------------------------------------------------------------------------
(* Minutes. *)

LEMMA Division ==
  ASSUME NEW a \in Nat, NEW m \in Nat \ {0}
  PROVE  /\ a \div m \in Nat
         /\ m * (a \div m) <= a
         /\ a < m * (a \div m) + m
OBVIOUS

LEMMA FloorOfSpan ==
  ASSUME NEW from \in Int, NEW to \in Int
  PROVE  /\ MinutesFloor(from, to) \in Nat
         /\ from < to => Minute * MinutesFloor(from, to) <= to - from
         /\ to - from < Minute * MinutesFloor(from, to) + Minute
<1>1. Minute \in Nat \ {0}
  BY EngineAssumption
<1>2. CASE to <= from
  BY <1>1, <1>2 DEF MinutesFloor
<1>3. CASE from < to
  <2>1. to - from \in Nat /\ MinutesFloor(from, to) = (to - from) \div Minute
    BY <1>3 DEF MinutesFloor
  <2> QED BY <1>1, <1>3, <2>1, Division
<1> QED BY <1>2, <1>3

LEMMA CeilOfSpan ==
  ASSUME NEW from \in Int, NEW to \in Int
  PROVE  /\ MinutesCeil(from, to) \in Nat
         /\ to - from <= Minute * MinutesCeil(from, to)
<1>1. Minute \in Nat \ {0}
  BY EngineAssumption
<1>2. CASE to <= from
  BY <1>1, <1>2 DEF MinutesCeil
<1>3. CASE from < to
  <2>1. to - from + Minute - 1 \in Nat
    BY <1>1, <1>3
  <2>2. MinutesCeil(from, to) = (to - from + Minute - 1) \div Minute
    BY <1>3 DEF MinutesCeil
  <2>3. /\ MinutesCeil(from, to) \in Nat
        /\ to - from + Minute - 1 < Minute * MinutesCeil(from, to) + Minute
    BY <1>1, <2>1, <2>2, Division
  <2>4. Minute * MinutesCeil(from, to) \in Int
    BY <1>1, <2>3
  <2> QED BY <1>1, <2>3, <2>4
<1> QED BY <1>2, <1>3

(* Whole minutes that cover the rest of a span cover its whole minutes. *)
LEMMA Covering ==
  ASSUME NEW m \in Nat \ {0}, NEW x \in Int, NEW q \in Int, NEW n \in Int,
         m * q <= x, x < m * n + m
  PROVE  q <= n
<1>1. m * q < m * (n + 1)
  OBVIOUS
<1> QED BY <1>1

-----------------------------------------------------------------------------
(* Windows and the selection of punches. *)

ShiftOrNone == Shifts \union {NoShift}

LEMMA ShiftFields ==
  ASSUME NEW s \in Shifts
  PROVE  /\ s # NoShift
         /\ s.start \in Times /\ s.end \in Times /\ s.start \in Nat /\ s.end \in Nat
         /\ s.grace \in Nat /\ s.break \in Nat /\ s.earlyGrace \in Nat
         /\ s.before \in Nat /\ s.after \in Nat
         /\ s.id \in Nat
BY DayAssumption, EngineAssumption DEF NoShift

LEMMA WindowTypes ==
  ASSUME NEW d \in Dates, NEW s \in ShiftOrNone
  PROVE  /\ WindowOf(d, s).start \in Int /\ WindowOf(d, s).end \in Int
         /\ WindowOf(d, s).earliest \in Int /\ WindowOf(d, s).latest \in Int
<1>1. /\ Minute \in Nat /\ 0 \in Times /\ Instant \in [Calendar \X Times -> Nat]
      /\ d \in Calendar /\ d + 1 \in Calendar
  BY DayAssumption, EngineAssumption
<1>2. CASE s = NoShift
  <2>1. Instant[<<d, 0>>] \in Nat /\ Instant[<<d + 1, 0>>] \in Nat
    BY <1>1
  <2> QED BY <1>2, <2>1 DEF WindowOf, LocalDayWindow
<1>3. CASE s \in Shifts
  <2>1. s # NoShift /\ EndDate(d, s) \in Calendar
    BY <1>1, <1>3, ShiftFields DEF EndDate
  <2>2. Instant[<<d, s.start>>] \in Nat /\ Instant[<<EndDate(d, s), s.end>>] \in Nat
    BY <1>1, <1>3, <2>1, ShiftFields
  <2>3. s.before * Minute \in Nat /\ s.after * Minute \in Nat
    BY <1>1, <1>3, ShiftFields
  <2> QED BY <2>1, <2>2, <2>3 DEF WindowOf, ShiftWindow
<1> QED BY <1>2, <1>3 DEF ShiftOrNone

LEMMA PunchFields ==
  ASSUME NEW p \in Punches
  PROVE  p.id \in Nat /\ p.at \in Nat
BY DayAssumption

LEMMA EarliestIsLeast ==
  ASSUME NEW S, S \subseteq Punches, S # {}
  PROVE  /\ Earliest(S) \in Nat
         /\ \A p \in S : Earliest(S) <= p.at
<1> DEFINE T == {p.at : p \in S}
<1>1. T \subseteq Nat /\ T # {}
  BY PunchFields
<1>2. \E t \in T : \A u \in T : t <= u
  <2> HIDE DEF T
  <2> QED BY <1>1, LeastExists
<1>3. \E t \in T : \A p \in S : t <= p.at
  BY <1>2
<1>4. Earliest(S) \in T /\ \A p \in S : Earliest(S) <= p.at
  BY <1>3 DEF Earliest
<1> QED BY <1>1, <1>4

LEMMA LatestIsGreatest ==
  ASSUME NEW S, S \subseteq Punches, S # {}, NEW b \in Int, \A p \in S : p.at <= b
  PROVE  /\ Latest(S) \in Nat
         /\ \A p \in S : p.at <= Latest(S)
<1> DEFINE T == {p.at : p \in S}
<1>1. T \subseteq Nat /\ T # {} /\ \A t \in T : t <= b
  BY PunchFields
<1>2. \E t \in T : \A u \in T : u <= t
  <2> HIDE DEF T
  <2> QED BY <1>1, GreatestExists
<1>3. \E t \in T : \A p \in S : p.at <= t
  BY <1>2
<1>4. Latest(S) \in T /\ \A p \in S : p.at <= Latest(S)
  BY <1>3 DEF Latest
<1> QED BY <1>1, <1>4

(* What the selection yields from punches of a window. *)
LEMMA SelectionTypes ==
  ASSUME NEW U, U \subseteq Punches, NEW b \in Int, \A p \in U : p.at <= b, NEW mode
  PROVE  /\ FirstIn(U, mode) \in Nat \union {NoInstant}
         /\ LastOut(U, mode) \in Nat \union {NoInstant}
<1>1. /\ Directed(U, "in") \subseteq Punches /\ Directed(U, "out") \subseteq Punches
      /\ \A p \in Directed(U, "out") : p.at <= b
  BY DEF Directed
<1>2. FirstIn(U, mode) \in {NoInstant, Earliest(U), Earliest(Directed(U, "in"))}
      /\ (\/ FirstIn(U, mode) = NoInstant
          \/ U # {} /\ FirstIn(U, mode) = Earliest(U)
          \/ Directed(U, "in") # {} /\ FirstIn(U, mode) = Earliest(Directed(U, "in")))
  BY DEF FirstIn
<1>3. LastOut(U, mode) = NoInstant \/ (U # {} /\ LastOut(U, mode) = Latest(U))
          \/ (Directed(U, "out") # {} /\ LastOut(U, mode) = Latest(Directed(U, "out")))
  BY DEF LastOut
<1>4. FirstIn(U, mode) \in Nat \union {NoInstant}
  BY <1>1, <1>2, EarliestIsLeast
<1>5. LastOut(U, mode) \in Nat \union {NoInstant}
  BY <1>1, <1>3, LatestIsGreatest
<1> QED BY <1>4, <1>5

(* Two punches that the selection of a first_last day keeps are more than  *)
(* a minute apart, so its first and its last are.                          *)
LEMMA KeptPunchesAreApart ==
  ASSUME NEW P, P \subseteq Punches, NEW b \in Int, \A p \in P : p.at <= b,
         LET U == Unique(P, "first_last")
         IN  FirstIn(U, "first_last") # NoInstant /\ LastOut(U, "first_last") # NoInstant
  PROVE  LET U == Unique(P, "first_last")
         IN  LastOut(U, "first_last") - FirstIn(U, "first_last") > Minute
<1> DEFINE U == Unique(P, "first_last")
<1>0. Minute \in Nat
  BY EngineAssumption
<1>1. U \subseteq P /\ U \subseteq Punches
  BY DEF Unique
<1>2. ~Explicit(U, "first_last")
  BY DEF Explicit
<1>3. U # {} /\ FirstIn(U, "first_last") = Earliest(U) /\ LastOut(U, "first_last") = Latest(U)
      /\ \A p \in U : U # {p}
  BY <1>2 DEF FirstIn, LastOut
<1>4. PICK p \in U, q \in U : p # q
  BY <1>3
<1>5. p.at \in Nat /\ q.at \in Nat /\ p.id \in Nat /\ q.id \in Nat /\ p.id # q.id
  BY <1>1, <1>4, PunchFields, DayAssumption
<1>6. Precedes(p, q) \/ Precedes(q, p)
  BY <1>5 DEF Precedes
<1>7. \A x \in U, y \in U : Precedes(x, y) => ~(y.at - x.at <= Minute)
  BY <1>1 DEF Unique, Duplicates, Group
<1>8. p.at - q.at > Minute \/ q.at - p.at > Minute
  BY <1>0, <1>5, <1>6, <1>7
<1>9. Earliest(U) \in Nat /\ Earliest(U) <= p.at /\ Earliest(U) <= q.at
  BY <1>1, <1>3, <1>4, EarliestIsLeast
<1>10. Latest(U) \in Nat /\ p.at <= Latest(U) /\ q.at <= Latest(U)
  BY <1>1, <1>3, <1>4, LatestIsGreatest
<1> QED BY <1>0, <1>3, <1>5, <1>8, <1>9, <1>10

-----------------------------------------------------------------------------
(* Corrections. *)

LEMMA AdjustedType ==
  ASSUME NEW A, A \subseteq Corrections, NEW field \in {"first_in", "last_out"},
         NEW t \in Nat \union {NoInstant}
  PROVE  Adjusted(A, field, t) \in Nat \union {NoInstant}
<1> DEFINE F == Of(A, field)
           Orders == {a.order : a \in F}
<1>1. CASE F = {}
  BY <1>1 DEF Adjusted
<1>2. CASE F # {}
  <2>1. F \subseteq Corrections /\ IsFiniteSet(F)
    BY DayAssumption, FS_Subset DEF Of
  <2>2. Orders \subseteq Nat /\ Orders # {}
    BY <1>2, <2>1, DayAssumption
  <2>3. IsFiniteSet(Orders)
    <3> DEFINE g == [a \in F |-> a.order]
    <3>1. g \in [F -> Orders] /\ \A o \in Orders : \E a \in F : g[a] = o
      OBVIOUS
    <3> HIDE DEF g, F, Orders
    <3>2. g \in Surjection(F, Orders)
      BY <3>1, Fun_IsSurj
    <3> QED BY <2>1, <3>2, FS_Surjection
  <2>4. PICK o \in Orders : \A n \in Orders : n <= o
    <3> HIDE DEF Orders
    <3>1. PICK b \in Nat : \A n \in Orders : n <= b
      BY <2>2, <2>3, FiniteIsBounded
    <3>2. b \in Int
      OBVIOUS
    <3> QED BY <2>2, <3>1, <3>2, GreatestExists
  <2>5. \E a \in F : \A b \in F : b.order <= a.order
    BY <2>4
  <2>6. \E a \in F : Adjusted(A, field, t) = a.value
    BY <1>2, <2>5 DEF Adjusted
  <2>7. \A a \in F : a.value \in Nat \union {NoInstant}
    BY <2>1, DayAssumption DEF Of
  <2> QED BY <2>6, <2>7
<1> QED BY <1>1, <1>2

-----------------------------------------------------------------------------
(* The scheduled time. *)

LEMMA LatenessCovers ==
  ASSUME NEW s \in Shifts, NEW w, w.start \in Int, NEW in \in Nat
  PROVE  /\ LateMinutes(in, w, s) \in Nat
         /\ in - w.start <= Minute * LateMinutes(in, w, s) + Minute * s.grace
<1> DEFINE late == LateMinutes(in, w, s)
           threshold == w.start + s.grace * Minute
<1>1. /\ Minute \in Nat /\ s.grace \in Nat /\ s # NoShift /\ in # NoInstant
      /\ Minute * s.grace \in Nat /\ s.grace * Minute = Minute * s.grace
  BY EngineAssumption, ShiftFields DEF NoInstant
<1>2. CASE in <= threshold
  <2>1. late = 0
    BY <1>2 DEF LateMinutes
  <2> QED BY <1>1, <1>2, <2>1
<1>3. CASE ~(in <= threshold)
  <2>1. late = MinutesCeil(w.start, in) \/ late = MinutesCeil(threshold, in)
    BY <1>1, <1>3 DEF LateMinutes
  <2>2. threshold \in Int /\ in \in Int
    BY <1>1
  <2> HIDE DEF threshold, late
  <2>3. CASE late = MinutesCeil(w.start, in)
    <3>1. late \in Nat /\ in - w.start <= Minute * late
      BY <2>2, <2>3, CeilOfSpan
    <3> QED BY <1>1, <3>1 DEF late
  <2>4. CASE late = MinutesCeil(threshold, in)
    <3>1. late \in Nat /\ in - threshold <= Minute * late
      BY <2>2, <2>4, CeilOfSpan
    <3>2. Minute * late \in Int
      BY <1>1, <3>1
    <3> QED BY <1>1, <3>1, <3>2 DEF threshold, late
  <2> QED BY <2>1, <2>3, <2>4
<1> QED BY <1>2, <1>3

LEMMA EarlyLeaveCovers ==
  ASSUME NEW s \in Shifts, NEW w, w.end \in Int, NEW out \in Nat
  PROVE  /\ EarlyLeaveMinutes(out, w, s) \in Nat
         /\ w.end - out <= Minute * EarlyLeaveMinutes(out, w, s) + Minute * s.earlyGrace
<1> DEFINE early == EarlyLeaveMinutes(out, w, s)
           threshold == w.end - s.earlyGrace * Minute
<1>1. /\ Minute \in Nat /\ s.earlyGrace \in Nat /\ s # NoShift /\ out # NoInstant
      /\ Minute * s.earlyGrace \in Nat /\ s.earlyGrace * Minute = Minute * s.earlyGrace
  BY EngineAssumption, ShiftFields DEF NoInstant
<1>2. CASE out >= threshold
  <2>1. early = 0
    BY <1>2 DEF EarlyLeaveMinutes
  <2> QED BY <1>1, <1>2, <2>1
<1>3. CASE ~(out >= threshold)
  <2>1. early = MinutesCeil(out, threshold)
    BY <1>1, <1>3 DEF EarlyLeaveMinutes
  <2>2. threshold \in Int /\ out \in Int
    BY <1>1
  <2> HIDE DEF threshold, early
  <2>3. early \in Nat /\ threshold - out <= Minute * early
    BY <2>1, <2>2, CeilOfSpan
  <2>4. Minute * early \in Int
    BY <1>1, <2>3
  <2> QED BY <1>1, <2>3, <2>4 DEF threshold, early
<1> QED BY <1>2, <1>3

LEMMA WorkCovers ==
  ASSUME NEW s \in Shifts, NEW in \in Nat, NEW out \in Nat
  PROVE  /\ WorkedMinutes(in, out, s) \in Nat
         /\ out - in < Minute * WorkedMinutes(in, out, s) + Minute * s.break + Minute
<1> DEFINE span == MinutesFloor(in, out)
           worked == WorkedMinutes(in, out, s)
<1>1. /\ Minute \in Nat /\ s.break \in Nat /\ s # NoShift
      /\ in # NoInstant /\ out # NoInstant
  BY EngineAssumption, ShiftFields DEF NoInstant
<1>2. span \in Nat /\ out - in < Minute * span + Minute
  BY FloorOfSpan
<1>3. worked = IF span <= s.break THEN 0 ELSE span - s.break
  BY <1>1 DEF WorkedMinutes
<1>4. worked \in Nat /\ span <= worked + s.break
  BY <1>1, <1>2, <1>3
<1>5. Minute * span <= Minute * worked + Minute * s.break
  <2> HIDE DEF span, worked
  <2>1. Minute * span <= Minute * (worked + s.break)
    BY <1>1, <1>2, <1>4
  <2> QED BY <1>1, <1>4, <2>1
<1>6. Minute * span \in Int /\ Minute * worked \in Int /\ Minute * s.break \in Int
  BY <1>1, <1>2, <1>4
<1> QED BY <1>1, <1>2, <1>4, <1>5, <1>6

(* Minutes that cover the parts of a span cover it. *)
LEMMA PartsCoverWhole ==
  ASSUME NEW m \in Nat \ {0}, NEW from \in Int, NEW to \in Int, NEW in \in Int, NEW out \in Int,
         NEW late \in Nat, NEW grace \in Nat, NEW worked \in Nat, NEW break \in Nat,
         NEW early \in Nat, NEW leaving \in Nat,
         in - from <= m * late + m * grace,
         out - in < m * worked + m * break + m,
         to - out <= m * early + m * leaving
  PROVE  to - from < m * (late + grace + worked + break + early + leaving) + m
<1>1. m * (late + grace + worked + break + early + leaving)
        = m * late + m * grace + m * worked + m * break + m * early + m * leaving
  OBVIOUS
<1>2. /\ m * late \in Int /\ m * grace \in Int /\ m * worked \in Int
      /\ m * break \in Int /\ m * early \in Int /\ m * leaving \in Int
  OBVIOUS
<1> QED BY <1>1, <1>2

LEMMA ScheduleCovered ==
  ASSUME NEW d \in Dates, NEW s \in Shifts, NEW in \in Nat, NEW out \in Nat
  PROVE  LET w == ShiftWindow(d, s)
         IN  MinutesFloor(w.start, w.end)
               <= LateMinutes(in, w, s) + s.grace + WorkedMinutes(in, out, s) + s.break
                    + EarlyLeaveMinutes(out, w, s) + s.earlyGrace
<1> DEFINE w == ShiftWindow(d, s)
           from == w.start
           to == w.end
           late == LateMinutes(in, w, s)
           worked == WorkedMinutes(in, out, s)
           early == EarlyLeaveMinutes(out, w, s)
           parts == late + s.grace + worked + s.break + early + s.earlyGrace
<1>1. from \in Int /\ to \in Int
  <2>1. s \in ShiftOrNone /\ WindowOf(d, s) = w
    BY ShiftFields DEF ShiftOrNone, WindowOf
  <2> HIDE DEF w
  <2> QED BY <2>1, WindowTypes
<1>2. /\ Minute \in Nat \ {0}
      /\ s.grace \in Nat /\ s.break \in Nat /\ s.earlyGrace \in Nat
  BY EngineAssumption, ShiftFields
<1>3. /\ late \in Nat /\ worked \in Nat /\ early \in Nat
      /\ in - from <= Minute * late + Minute * s.grace
      /\ out - in < Minute * worked + Minute * s.break + Minute
      /\ to - out <= Minute * early + Minute * s.earlyGrace
  <2> HIDE DEF w
  <2> QED BY <1>1, LatenessCovers, EarlyLeaveCovers, WorkCovers
<1> HIDE DEF w, from, to, late, worked, early
<1>4. to - from < Minute * parts + Minute
  BY <1>1, <1>2, <1>3, PartsCoverWhole
<1>5. parts \in Nat
  BY <1>2, <1>3
<1>6. MinutesFloor(from, to) <= parts
  <2>1. CASE to <= from
    <3>1. MinutesFloor(from, to) = 0
      BY <2>1 DEF MinutesFloor
    <3> QED BY <1>5, <3>1
  <2>2. CASE from < to
    <3>1. /\ MinutesFloor(from, to) \in Int
          /\ Minute * MinutesFloor(from, to) <= to - from
      BY <1>1, <2>2, FloorOfSpan
    <3> HIDE DEF parts
    <3> QED BY <1>1, <1>2, <1>4, <1>5, <3>1, Covering
  <2> QED BY <1>1, <2>1, <2>2
<1> QED BY <1>6 DEF w, from, to, late, worked, early

-----------------------------------------------------------------------------
(* What the calculation returns. *)

ModeOf(s) == IF s = NoShift THEN "first_last" ELSE s.mode

LEMMA CalculatedTimes ==
  ASSUME NEW d \in Dates, NEW s \in ShiftOrNone, NEW P, P \subseteq Punches, NEW excused,
         NEW A, A \subseteq Corrections
  PROVE  LET r == Calculate(d, s, P, excused, A)
         IN  r.firstIn \in Nat \union {NoInstant} /\ r.lastOut \in Nat \union {NoInstant}
<1> DEFINE w == WindowOf(d, s)
           U == Unique(InWindow(P, w), ModeOf(s))
           r == Calculate(d, s, P, excused, A)
<1>1. w.latest \in Int
  BY WindowTypes
<1>2. U \subseteq Punches /\ \A p \in U : p.at <= w.latest
  BY DEF Unique, InWindow
<1>3. /\ FirstIn(U, ModeOf(s)) \in Nat \union {NoInstant}
      /\ LastOut(U, ModeOf(s)) \in Nat \union {NoInstant}
  <2> HIDE DEF U, w
  <2> QED BY <1>1, <1>2, SelectionTypes
<1>4. /\ r.firstIn = Adjusted(A, "first_in", FirstIn(U, ModeOf(s)))
      /\ r.lastOut = Adjusted(A, "last_out", LastOut(U, ModeOf(s)))
  BY DEF Calculate, ModeOf
<1> HIDE DEF U, r
<1>5. r.firstIn \in Nat \union {NoInstant} /\ r.lastOut \in Nat \union {NoInstant}
  BY <1>3, <1>4, AdjustedType
<1> QED BY <1>5 DEF r

Good(r, d) == AccountsForSchedule(r, d) /\ KeepsScansApart(r)

LEMMA CalculatedIsGood ==
  ASSUME NEW d \in Dates, NEW s \in ShiftOrNone, NEW P, P \subseteq Punches, NEW excused,
         NEW A, A \subseteq Corrections
  PROVE  Good(Calculate(d, s, P, excused, A), d)
<1> DEFINE w == WindowOf(d, s)
           Q == InWindow(P, w)
           U == Unique(Q, ModeOf(s))
           r == Calculate(d, s, P, excused, A)
<1>1. r.firstIn \in Nat \union {NoInstant} /\ r.lastOut \in Nat \union {NoInstant}
  <2> HIDE DEF r
  <2> QED BY CalculatedTimes DEF r
<1>2. /\ r.shift = s /\ r.adjustments = A
      /\ r.late = LateMinutes(r.firstIn, w, s)
      /\ r.earlyLeave = EarlyLeaveMinutes(r.lastOut, w, s)
      /\ r.worked = WorkedMinutes(r.firstIn, r.lastOut, s)
      /\ r.firstIn = Adjusted(A, "first_in", FirstIn(U, ModeOf(s)))
      /\ r.lastOut = Adjusted(A, "last_out", LastOut(U, ModeOf(s)))
  BY DEF Calculate, ModeOf
<1>3. Q \subseteq Punches /\ w.latest \in Int /\ \A p \in Q : p.at <= w.latest
  BY WindowTypes DEF InWindow
<1> HIDE DEF r, Q
<1>4. AccountsForSchedule(r, d)
  <2> SUFFICES ASSUME s # NoShift, r.firstIn # NoInstant, r.lastOut # NoInstant
               PROVE  MinutesFloor(ShiftWindow(d, s).start, ShiftWindow(d, s).end)
                        <= r.late + s.grace + r.worked + s.break + r.earlyLeave + s.earlyGrace
    BY <1>2 DEF AccountsForSchedule
  <2>1. s \in Shifts /\ r.firstIn \in Nat /\ r.lastOut \in Nat /\ w = ShiftWindow(d, s)
    BY <1>1 DEF ShiftOrNone, WindowOf
  <2> HIDE DEF w
  <2> QED BY <1>2, <2>1, ScheduleCovered
<1>5. KeepsScansApart(r)
  <2> SUFFICES ASSUME s # NoShift => s.mode = "first_last",
                      Of(A, "first_in") = {}, Of(A, "last_out") = {},
                      r.firstIn # NoInstant, r.lastOut # NoInstant
               PROVE  r.lastOut - r.firstIn > Minute
    BY <1>2 DEF KeepsScansApart
  <2>1. ModeOf(s) = "first_last"
    BY DEF ModeOf
  <2>2. r.firstIn = FirstIn(U, "first_last") /\ r.lastOut = LastOut(U, "first_last")
    BY <1>2, <2>1 DEF Adjusted
  <2> HIDE DEF w
  <2> QED BY <1>3, <2>1, <2>2, KeptPunchesAreApart
<1> QED BY <1>4, <1>5 DEF Good, r

-----------------------------------------------------------------------------
(* What the inference suggests. *)

LEMMA DistanceType ==
  ASSUME NEW d \in Dates, NEW P, P \subseteq Punches, NEW s \in Candidates(P, d, Shifts)
  PROVE  Distance(P, d, s) \in Nat
<1> DEFINE start == Instant[<<d, s.start>>]
           first == Earliest(StartPunches(P, d, s))
           span == IF first - start < 0 THEN -(first - start) ELSE first - start
<1>1. Minute \in Nat \ {0} /\ start \in Nat
  BY DayAssumption, EngineAssumption, ShiftFields DEF Candidates
<1>2. first \in Nat
  BY EarliestIsLeast DEF Candidates, StartPunches
<1>3. span \in Nat
  <2> HIDE DEF start, first
  <2> QED BY <1>1, <1>2
<1>4. Distance(P, d, s) = (2 * span + Minute) \div (2 * Minute)
  BY DEF Distance
<1> HIDE DEF span
<1>5. 2 * span + Minute \in Nat /\ 2 * Minute \in Nat \ {0}
  BY <1>1, <1>3
<1> QED BY <1>4, <1>5, Division

LEMMA LikeliestIsCandidate ==
  ASSUME NEW d \in Dates, NEW P, P \subseteq Punches, Candidates(P, d, Shifts) # {}
  PROVE  Likeliest(Candidates(P, d, Shifts), P, d) \in Candidates(P, d, Shifts)
<1> DEFINE C == Candidates(P, d, Shifts)
           Distances == {Distance(P, d, s) : s \in C}
<1>1. Distances \subseteq Nat /\ Distances # {}
  BY DistanceType
<1>2. PICK n \in Distances : \A m \in Distances : n <= m
  <2> HIDE DEF Distances
  <2> QED BY <1>1, LeastExists
<1> DEFINE Closest == {s \in C : Distance(P, d, s) = n}
           Ids == {s.id : s \in Closest}
<1>3. Ids \subseteq Nat /\ Ids # {}
  BY <1>2, ShiftFields DEF Candidates
<1>4. PICK i \in Ids : \A k \in Ids : i <= k
  <2> HIDE DEF Ids
  <2> QED BY <1>3, LeastExists
<1>5. PICK s \in Closest : s.id = i
  BY <1>4
<1>6. \A t \in C : \/ Distance(P, d, s) < Distance(P, d, t)
                   \/ Distance(P, d, s) = Distance(P, d, t) /\ s.id <= t.id
  <2> TAKE t \in C
  <2>1. Distance(P, d, s) = n /\ n \in Nat /\ Distance(P, d, t) \in Nat
        /\ n <= Distance(P, d, t)
    BY <1>1, <1>2, <1>5
  <2>2. CASE Distance(P, d, t) = n
    BY <1>4, <1>5, <2>1, <2>2
  <2>3. CASE Distance(P, d, t) # n
    BY <2>1, <2>3
  <2> QED BY <2>2, <2>3
<1> QED BY <1>5, <1>6 DEF Likeliest

GuessOK(guess) ==
  /\ guess.suggested \in ShiftOrNone
  /\ guess.confidence = "high" => guess.suggested # NoShift

LEMMA SuggestionType ==
  ASSUME NEW d \in Dates, NEW P, P \subseteq Punches
  PROVE  GuessOK(InferDailyShift(P, d, Shifts))
<1>1. CASE Candidates(P, d, Shifts) = {}
  BY <1>1 DEF InferDailyShift, GuessOK, ShiftOrNone
<1>2. CASE Candidates(P, d, Shifts) # {}
  <2>1. InferDailyShift(P, d, Shifts).suggested = Likeliest(Candidates(P, d, Shifts), P, d)
    BY <1>2 DEF InferDailyShift
  <2>2. InferDailyShift(P, d, Shifts).suggested \in Shifts
    BY <1>2, <2>1, LikeliestIsCandidate DEF Candidates
  <2> QED BY <2>2, ShiftFields DEF GuessOK, ShiftOrNone
<1> QED BY <1>1, <1>2

-----------------------------------------------------------------------------
(* The inductive invariant: besides the types, every stored day is good,   *)
(* and so is the one that an instance is about to store.                   *)

InstanceOK(v) ==
  v # Idle =>
    /\ v.todo \in Seq(Dates) /\ v.todo # <<>>
    /\ v.phase = "suggest" => GuessOK(v.guess)
    /\ v.phase = "load" => v.shift \in ShiftOrNone
    /\ v.phase = "write" => Good(v.day, Head(v.todo))

WorkOK ==
  /\ work = [w \in Workers |-> work[w]]
  /\ \A w \in Workers : InstanceOK(work[w])

DaysOK ==
  /\ days = [d \in Dates |-> days[d]]
  /\ \A d \in Dates : days[d] # NoDay => Good(days[d].day, d)

JobsOK == jobs \subseteq Dates \X {"assignment", "leave", "holiday"}

Inv == TypeOK /\ WorkOK /\ DaysOK /\ JobsOK

LEMMA InitInv == Init => Inv
<1> SUFFICES ASSUME Init PROVE Inv
  OBVIOUS
<1>1. MaxExtras \in Nat
  BY DayAssumption
<1>2. TypeOK
  <2>1. /\ NoInference \in [state : States, selected : Shifts \union {NoShift}]
        /\ NoInference.selected = NoShift /\ NoInference.state = "absent"
    BY DEF NoInference, States
  <2>2. /\ inference \in [Dates -> [state : States, selected : Shifts \union {NoShift}]]
        /\ \A d \in Dates : inference[d].selected = NoShift /\ inference[d].state = "absent"
    <3> HIDE DEF NoShift
    <3> QED BY <2>1 DEF Init
  <2>3. assigned \in [Dates -> Shifts \union {NoShift}]
    BY DEF Init
  <2>4. \A d \in Dates : inference[d].selected # NoShift
                           <=> inference[d].state \in {"auto_applied", "confirmed"}
    BY <2>2
  <2>5. extras \in 0 .. MaxExtras
    <3>1. extras = 0
      BY DEF Init
    <3> QED BY <1>1, <3>1
  <2>6. /\ events \subseteq Punches /\ due \subseteq events /\ approved \subseteq Corrections
        /\ off \subseteq Excuses /\ touched \subseteq Workers
    BY DEF Init
  <2> QED BY <2>2, <2>3, <2>4, <2>5, <2>6 DEF TypeOK
<1>3. WorkOK
  BY DEF Init, WorkOK, InstanceOK
<1>4. DaysOK
  BY DEF Init, DaysOK
<1>5. JobsOK
  BY DEF Init, JobsOK
<1> QED BY <1>2, <1>3, <1>4, <1>5 DEF Inv

(* One instance changes. *)
LEMMA InstanceStep ==
  ASSUME WorkOK, NEW w \in Workers, NEW v, InstanceOK(v), work' = [work EXCEPT ![w] = v]
  PROVE  WorkOK'
BY DEF WorkOK

LEMMA BeginStep ==
  ASSUME WorkOK, touched \subseteq Workers, NEW w \in Workers, NEW cause,
         NEW todo \in Seq(Dates), todo # <<>>, Begin(w, cause, todo)
  PROVE  WorkOK' /\ touched' \subseteq Workers
<1> DEFINE v == [phase |-> "context", cause |-> cause, todo |-> todo]
<1>1. InstanceOK(v)
  BY DEF InstanceOK
<1>2. WorkOK'
  <2>1. work' = [work EXCEPT ![w] = v]
    BY DEF Begin
  <2> HIDE DEF v
  <2> QED BY <1>1, <2>1, InstanceStep
<1>3. touched' \subseteq Workers
  BY DEF Begin, Others, Busy
<1> QED BY <1>2, <1>3

(* What an instance at work is doing. *)
LEMMA AtWork ==
  ASSUME WorkOK, NEW w \in Workers, work[w] # Idle
  PROVE  /\ work[w].todo \in Seq(Dates) /\ work[w].todo # <<>> /\ Date(w) \in Dates
         /\ work[w].phase = "suggest" => GuessOK(work[w].guess)
         /\ work[w].phase = "load" => work[w].shift \in ShiftOrNone
         /\ work[w].phase = "write" => Good(work[w].day, Date(w))
BY DEF WorkOK, InstanceOK, Date

LEMMA LoadContextStep ==
  ASSUME Inv, NEW w \in Workers, LoadContext(w)
  PROVE  Inv'
<1> DEFINE d == Date(w)
<1>1. WorkOK /\ work[w].phase = "context" /\ work[w] # Idle
  BY DEF Inv, LoadContext, Idle
<1>2. work[w].todo \in Seq(Dates) /\ work[w].todo # <<>> /\ d \in Dates
  BY <1>1, AtWork
<1>3. \A s \in ShiftOrNone : \A source : InstanceOK(Loading(w, s, source))
  BY <1>2 DEF InstanceOK, Loading
<1>4. InstanceOK([phase |-> "infer", cause |-> work[w].cause, todo |-> work[w].todo])
  BY <1>2 DEF InstanceOK
<1>5. assigned[d] \in ShiftOrNone /\ inference[d].selected \in ShiftOrNone /\ NoShift \in ShiftOrNone
  BY <1>2 DEF Inv, TypeOK, ShiftOrNone
<1>6. PICK v : InstanceOK(v) /\ work' = [work EXCEPT ![w] = v]
  <2>1. \/ work' = [work EXCEPT ![w] = Loading(w, assigned[d], "assigned")]
        \/ work' = [work EXCEPT ![w] = Loading(w, inference[d].selected, "confirmed")]
        \/ work' = [work EXCEPT ![w] = Loading(w, NoShift, "none")]
        \/ work' = [work EXCEPT ![w] =
             [phase |-> "infer", cause |-> work[w].cause, todo |-> work[w].todo]]
    BY DEF LoadContext
  <2> QED BY <1>3, <1>4, <1>5, <2>1
<1>7. WorkOK'
  BY <1>1, <1>6, InstanceStep
<1> QED BY <1>7 DEF Inv, LoadContext, TypeOK, DaysOK, JobsOK, sources, derived

LEMMA PunchesForInferenceStored ==
  ASSUME TypeOK, NEW d
  PROVE  PunchesForInference(d) \subseteq Punches
BY DEF TypeOK, PunchesForInference, InRange

LEMMA InferShiftStep ==
  ASSUME Inv, NEW w \in Workers, InferShift(w)
  PROVE  Inv'
<1> DEFINE d == Date(w)
           guess == InferDailyShift(PunchesForInference(d), d, Shifts)
           v == [phase |-> "suggest", cause |-> work[w].cause, todo |-> work[w].todo,
                 guess |-> guess]
<1>1. WorkOK /\ work[w].phase = "infer" /\ work[w] # Idle /\ TypeOK
  BY DEF Inv, InferShift, Idle
<1>2. work[w].todo \in Seq(Dates) /\ work[w].todo # <<>> /\ d \in Dates
  BY <1>1, AtWork
<1>3. GuessOK(guess)
  BY <1>1, <1>2, PunchesForInferenceStored, SuggestionType
<1>4. work' = [work EXCEPT ![w] = v]
  BY DEF InferShift
<1> HIDE DEF guess
<1>5. InstanceOK(v)
  BY <1>2, <1>3 DEF InstanceOK
<1> HIDE DEF v
<1>6. WorkOK'
  BY <1>1, <1>4, <1>5, InstanceStep
<1> QED BY <1>6 DEF Inv, InferShift, TypeOK, DaysOK, JobsOK, sources, derived

LEMMA WriteInferenceStep ==
  ASSUME Inv, NEW w \in Workers, WriteInference(w)
  PROVE  Inv'
<1> DEFINE result == Inferred(work[w].guess)
           source == IF result.selected = NoShift THEN "none" ELSE "automatic"
           v == Loading(w, result.selected, source)
<1>1. WorkOK /\ work[w].phase = "suggest" /\ work[w] # Idle /\ TypeOK
  BY DEF Inv, WriteInference, Idle
<1>2. /\ work[w].todo \in Seq(Dates) /\ work[w].todo # <<>> /\ Date(w) \in Dates
      /\ GuessOK(work[w].guess)
  BY <1>1, AtWork
<1>3. /\ result \in [state : States, selected : Shifts \union {NoShift}]
      /\ (result.selected # NoShift) <=> (result.state \in {"auto_applied", "confirmed"})
  BY <1>2 DEF GuessOK, Inferred, States, ShiftOrNone
<1>4. /\ inference' = [inference EXCEPT ![Date(w)] = result]
      /\ work' = [work EXCEPT ![w] = v]
      /\ UNCHANGED <<sources, days, due, jobs, touched, extras>>
  BY DEF WriteInference
<1> HIDE DEF result
<1>5. InstanceOK(v)
  BY <1>2, <1>3 DEF InstanceOK, Loading, ShiftOrNone
<1> HIDE DEF v
<1>6. WorkOK'
  BY <1>1, <1>4, <1>5, InstanceStep
<1>7. TypeOK'
  BY <1>1, <1>2, <1>3, <1>4 DEF TypeOK, sources
<1> QED BY <1>4, <1>6, <1>7 DEF Inv, DaysOK, JobsOK

LEMMA LoadSourcesStep ==
  ASSUME Inv, NEW w \in Workers, LoadSources(w)
  PROVE  Inv'
<1> DEFINE day == CalculatedDay(Date(w), work[w].shift)
           v == [phase |-> "write", cause |-> work[w].cause, todo |-> work[w].todo,
                 source |-> work[w].source, day |-> day]
<1>1. WorkOK /\ work[w].phase = "load" /\ work[w] # Idle /\ TypeOK
  BY DEF Inv, LoadSources, Idle
<1>2. /\ work[w].todo \in Seq(Dates) /\ work[w].todo # <<>> /\ Date(w) \in Dates
      /\ work[w].shift \in ShiftOrNone
  BY <1>1, AtWork
<1>3. Good(day, Date(w))
  <2>1. /\ PunchesOf(Date(w), work[w].shift) \subseteq Punches
        /\ CorrectionsOf(Date(w)) \subseteq Corrections
    BY <1>1 DEF TypeOK, PunchesOf, InRange, CorrectionsOf
  <2> QED BY <1>2, <2>1, CalculatedIsGood DEF CalculatedDay
<1>4. work' = [work EXCEPT ![w] = v]
  BY DEF LoadSources
<1> HIDE DEF day
<1>5. InstanceOK(v)
  BY <1>2, <1>3 DEF InstanceOK, Date
<1> HIDE DEF v
<1>6. WorkOK'
  BY <1>1, <1>4, <1>5, InstanceStep
<1> QED BY <1>6 DEF Inv, LoadSources, TypeOK, DaysOK, JobsOK, sources, derived

LEMMA TailRemains ==
  ASSUME NEW S, NEW s \in Seq(S), Len(s) > 1
  PROVE  Tail(s) \in Seq(S) /\ Tail(s) # <<>>
<1>1. s # <<>> /\ Len(s) \in Nat
  OBVIOUS
<1>2. Tail(s) \in Seq(S) /\ Len(Tail(s)) = Len(s) - 1
  BY <1>1
<1>3. Len(<<>>) = 0
  BY EmptySeq, Zenon
<1>4. Tail(s) = <<>> => Len(Tail(s)) = 0
  BY <1>3, Zenon
<1>5. Len(Tail(s)) # 0
  BY <1>1, <1>2
<1> QED BY <1>2, <1>4, <1>5

LEMMA WriteDayStep ==
  ASSUME Inv, NEW w \in Workers, WriteDay(w)
  PROVE  Inv'
<1> DEFINE todo == work[w].todo
<1>1. WorkOK /\ DaysOK /\ work[w].phase = "write" /\ work[w] # Idle /\ TypeOK /\ JobsOK
  BY DEF Inv, WriteDay, Idle
<1>2. todo \in Seq(Dates) /\ todo # <<>> /\ Date(w) \in Dates /\ Good(work[w].day, Date(w))
  BY <1>1, AtWork
<1>3. DaysOK'
  <2>1. days' = [days EXCEPT ![Date(w)] = [source |-> work[w].source, day |-> work[w].day]]
    BY DEF WriteDay
  <2> QED BY <1>1, <1>2, <2>1 DEF DaysOK
<1>4. /\ WorkOK' /\ touched' \subseteq Workers /\ due' \subseteq due /\ jobs' \subseteq jobs
  <2>1. CASE Len(todo) > 1
    <3>1. Tail(todo) \in Seq(Dates) /\ Tail(todo) # <<>>
      <4> HIDE DEF todo
      <4> QED BY <1>2, <2>1, TailRemains
    <3>2. Begin(w, work[w].cause, Tail(todo)) /\ UNCHANGED <<due, jobs>>
      BY <2>1 DEF WriteDay
    <3> HIDE DEF todo
    <3> QED BY <1>1, <3>1, <3>2, BeginStep DEF TypeOK
  <2>2. CASE ~(Len(todo) > 1)
    <3>1. /\ work' = [work EXCEPT ![w] = Idle] /\ touched' = touched \ {w}
          /\ due' = due \ work[w].cause.events /\ jobs' = jobs \ work[w].cause.jobs
      BY <2>2 DEF WriteDay
    <3>2. InstanceOK(Idle)
      BY DEF InstanceOK
    <3> QED BY <1>1, <3>1, <3>2, InstanceStep DEF TypeOK
  <2> QED BY <2>1, <2>2
<1>5. TypeOK'
  BY <1>1, <1>4 DEF TypeOK, WriteDay, sources
<1> QED BY <1>1, <1>3, <1>4, <1>5 DEF Inv, JobsOK

LEMMA FailStep ==
  ASSUME Inv, NEW w \in Workers, Fail(w)
  PROVE  Inv'
<1>1. InstanceOK(Idle) /\ WorkOK /\ work' = [work EXCEPT ![w] = Idle]
  BY DEF InstanceOK, Inv, Fail
<1>2. WorkOK'
  BY <1>1, InstanceStep
<1>3. extras' \in 0 .. MaxExtras
  BY DayAssumption DEF Inv, TypeOK, Fail, Extra
<1> QED BY <1>2, <1>3 DEF Inv, Fail, TypeOK, DaysOK, JobsOK, sources, derived

(* The callers: each begins with dates that are observed. *)
LEMMA CallerStep ==
  ASSUME Inv, NEW w \in Workers, NEW cause, NEW todo \in Seq(Dates), todo # <<>>,
         Begin(w, cause, todo), UNCHANGED <<events, assigned, off, days, due, jobs>>,
         approved' \subseteq Corrections, extras' \in 0 .. MaxExtras,
         inference' \in [Dates -> [state : States, selected : Shifts \union {NoShift}]],
         \A d \in Dates : (inference'[d].selected # NoShift)
                            <=> (inference'[d].state \in {"auto_applied", "confirmed"})
  PROVE  Inv'
<1>1. WorkOK /\ touched \subseteq Workers
  BY DEF Inv, TypeOK
<1>2. WorkOK' /\ touched' \subseteq Workers
  BY <1>1, BeginStep
<1> QED BY <1>2 DEF Inv, TypeOK, DaysOK, JobsOK

LEMMA CandidatesObserved ==
  ASSUME NEW p \in Punches
  PROVE  CandidateDates(p) \in Seq(Dates) /\ CandidateDates(p) # <<>>
<1>1. LocalDate(p.at) \in Dates \/ LocalDate(p.at) - 1 \in Dates
  BY DayAssumption
<1> DEFINE date == LocalDate(p.at)
<1>2. CandidateDates(p) = CASE date \notin Dates -> <<date - 1>>
                            [] date - 1 \notin Dates -> <<date>>
                            [] OTHER -> <<date - 1, date>>
  BY DEF CandidateDates
<1> HIDE DEF date
<1>3. CASE date \notin Dates
  BY <1>1, <1>2, <1>3 DEF date
<1>4. CASE date \in Dates /\ date - 1 \notin Dates
  BY <1>2, <1>4
<1>5. CASE date \in Dates /\ date - 1 \in Dates
  BY <1>2, <1>5
<1> QED BY <1>3, <1>4, <1>5

LEMMA RecalculateNewEventStep ==
  ASSUME Inv, NEW w \in Workers, NEW p \in Punches, RecalculateNewEvent(w, p)
  PROVE  Inv'
<1>1. CandidateDates(p) \in Seq(Dates) /\ CandidateDates(p) # <<>>
  BY CandidatesObserved
<1>2. /\ Begin(w, [events |-> {p}, jobs |-> {}], CandidateDates(p))
      /\ UNCHANGED <<events, assigned, approved, off, inference, days, due, jobs, extras>>
  BY DEF RecalculateNewEvent, sources, derived
<1> QED BY <1>1, <1>2, CallerStep DEF Inv, TypeOK

LEMMA RecalculateForJobStep ==
  ASSUME Inv, NEW w \in Workers, NEW j \in jobs, RecalculateForJob(w, j)
  PROVE  Inv'
<1>1. <<j[1]>> \in Seq(Dates) /\ <<j[1]>> # <<>>
  BY DEF Inv, JobsOK
<1>2. /\ Begin(w, [events |-> {}, jobs |-> {j}], <<j[1]>>)
      /\ UNCHANGED <<events, assigned, approved, off, inference, days, due, jobs, extras>>
  BY DEF RecalculateForJob, sources, derived
<1> QED BY <1>1, <1>2, CallerStep DEF Inv, TypeOK

LEMMA ExtraStep ==
  ASSUME TypeOK, Extra
  PROVE  extras' \in 0 .. MaxExtras
BY DayAssumption DEF TypeOK, Extra

LEMMA RecalculateAttendanceDayStep ==
  ASSUME Inv, NEW w \in Workers, NEW d \in Dates, RecalculateAttendanceDay(w, d)
  PROVE  Inv'
<1>1. <<d>> \in Seq(Dates) /\ <<d>> # <<>>
  OBVIOUS
<1>2. /\ Begin(w, NoCause, <<d>>) /\ Extra
      /\ UNCHANGED <<events, assigned, approved, off, inference, days, due, jobs>>
  BY DEF RecalculateAttendanceDay, sources, derived
<1> QED BY <1>1, <1>2, CallerStep, ExtraStep DEF Inv, TypeOK

LEMMA CreateManualAdjustmentStep ==
  ASSUME Inv, NEW w \in Workers, NEW a \in Corrections, CreateManualAdjustment(w, a)
  PROVE  Inv'
<1>1. <<a.date>> \in Seq(Dates) /\ <<a.date>> # <<>>
  BY DayAssumption
<1>2. /\ Begin(w, NoCause, <<a.date>>) /\ Extra /\ approved' = approved \union {a}
      /\ UNCHANGED <<events, assigned, off, inference, days, due, jobs>>
  BY DEF CreateManualAdjustment, derived
<1>3. approved' \subseteq Corrections
  BY <1>2 DEF Inv, TypeOK
<1> QED BY <1>1, <1>2, <1>3, CallerStep, ExtraStep DEF Inv, TypeOK

LEMMA ResolveShiftInferenceStep ==
  ASSUME Inv, NEW w \in Workers, NEW d \in Dates, NEW state \in {"confirmed", "rejected"},
         NEW s \in Shifts \union {NoShift}, ResolveShiftInference(w, d, state, s)
  PROVE  Inv'
<1>1. <<d>> \in Seq(Dates) /\ <<d>> # <<>>
  OBVIOUS
<1>2. /\ Begin(w, NoCause, <<d>>) /\ Extra
      /\ inference' = [inference EXCEPT ![d] = [state |-> state, selected |-> s]]
      /\ (state = "confirmed") <=> (s # NoShift)
      /\ UNCHANGED <<events, assigned, approved, off, days, due, jobs>>
  BY DEF ResolveShiftInference, sources
<1>3. /\ inference' \in [Dates -> [state : States, selected : Shifts \union {NoShift}]]
      /\ \A e \in Dates : (inference'[e].selected # NoShift)
                            <=> (inference'[e].state \in {"auto_applied", "confirmed"})
  BY <1>2 DEF Inv, TypeOK, States
<1>4. approved' \subseteq Corrections
  BY <1>2 DEF Inv, TypeOK
<1> QED BY <1>1, <1>2, <1>3, <1>4, CallerStep, ExtraStep DEF Inv

(* The sources change: no instance and no day does. *)
LEMMA IngestStep ==
  ASSUME Inv, NEW p \in Punches, Ingest(p)
  PROVE  Inv'
BY DEF Inv, Ingest, TypeOK, WorkOK, DaysOK, JobsOK, Busy, derived

LEMMA AssignEmployeeShiftStep ==
  ASSUME Inv, NEW s \in Shifts, NEW from \in Dates, NEW to \in Dates,
         AssignEmployeeShift(s, from, to)
  PROVE  Inv'
<1>1. extras' \in 0 .. MaxExtras
  BY ExtraStep DEF Inv, AssignEmployeeShift
<1>2. assigned' \in [Dates -> Shifts \union {NoShift}]
  BY DEF Inv, TypeOK, AssignEmployeeShift
<1>3. JobsOK'
  BY DEF Inv, JobsOK, AssignEmployeeShift
<1> QED BY <1>1, <1>2, <1>3
      DEF Inv, AssignEmployeeShift, TypeOK, WorkOK, DaysOK, Busy, derived

LEMMA ExcuseStep ==
  ASSUME Inv, NEW e \in Excuses, Excuse(e[1], e[2])
  PROVE  Inv'
<1>1. extras' \in 0 .. MaxExtras
  BY ExtraStep DEF Inv, Excuse
<1>2. e = <<e[1], e[2]>> /\ e[1] \in Dates /\ e[2] \in {"leave", "holiday"}
  BY DayAssumption
<1>3. off' \subseteq Excuses
  BY <1>2 DEF Inv, TypeOK, Excuse
<1>4. JobsOK'
  BY <1>2 DEF Inv, JobsOK, Excuse
<1> QED BY <1>1, <1>3, <1>4 DEF Inv, Excuse, TypeOK, WorkOK, DaysOK, Busy, derived

LEMMA NextInv == Inv /\ [Next]_vars => Inv'
<1> SUFFICES ASSUME Inv, [Next]_vars PROVE Inv'
  OBVIOUS
<1>1. ASSUME NEW w \in Workers, LoadContext(w) \/ InferShift(w) \/ WriteInference(w)
                                 \/ LoadSources(w) \/ WriteDay(w) \/ Fail(w)
      PROVE  Inv'
  BY <1>1, LoadContextStep, InferShiftStep, WriteInferenceStep, LoadSourcesStep,
     WriteDayStep, FailStep
<1>2. ASSUME NEW w \in Workers, NEW p \in Punches, RecalculateNewEvent(w, p) PROVE Inv'
  BY <1>2, RecalculateNewEventStep
<1>3. ASSUME NEW w \in Workers, NEW j \in jobs, RecalculateForJob(w, j) PROVE Inv'
  BY <1>3, RecalculateForJobStep
<1>4. ASSUME NEW w \in Workers, NEW d \in Dates, RecalculateAttendanceDay(w, d) PROVE Inv'
  BY <1>4, RecalculateAttendanceDayStep
<1>5. ASSUME NEW w \in Workers, NEW a \in Corrections, CreateManualAdjustment(w, a) PROVE Inv'
  BY <1>5, CreateManualAdjustmentStep
<1>6. ASSUME NEW w \in Workers, NEW d \in Dates, NEW state \in {"confirmed", "rejected"},
             NEW s \in Shifts \union {NoShift}, ResolveShiftInference(w, d, state, s)
      PROVE  Inv'
  BY <1>6, ResolveShiftInferenceStep
<1>7. ASSUME NEW p \in Punches, Ingest(p) PROVE Inv'
  BY <1>7, IngestStep
<1>8. ASSUME NEW a \in Assignments, AssignEmployeeShift(a[1], a[2], a[3]) PROVE Inv'
  <2>1. a[1] \in Shifts /\ a[2] \in Dates /\ a[3] \in Dates
    BY DayAssumption
  <2> QED BY <1>8, <2>1, AssignEmployeeShiftStep
<1>9. ASSUME NEW e \in Excuses, Excuse(e[1], e[2]) PROVE Inv'
  BY <1>9, ExcuseStep
<1>10. CASE UNCHANGED vars
  BY <1>10 DEF vars, sources, derived, Inv, TypeOK, WorkOK, DaysOK, JobsOK
<1> QED BY <1>1, <1>2, <1>3, <1>4, <1>5, <1>6, <1>7, <1>8, <1>9, <1>10 DEF Next

-----------------------------------------------------------------------------
(* Every stored inference names a shift exactly when it was applied or     *)
(* confirmed, and every source is what it should be, in every state.       *)
THEOREM TypeCorrect == Spec => []TypeOK
<1>1. Inv => TypeOK
  BY DEF Inv
<1> QED BY <1>1, InitInv, NextInv, PTL DEF Spec

(* Whatever recalculations overlap, in whatever order the sources change,  *)
(* no stored day loses scheduled minutes, in any time zone, for any shift  *)
(* and any corrections: calculateAttendance rounds on the safe side.       *)
THEOREM ScheduleAlwaysAccountedFor == Spec => []ScheduledTimeAccountedFor
<1>1. Inv => ScheduledTimeAccountedFor
  BY DEF Inv, DaysOK, Good, ScheduledTimeAccountedFor
<1> QED BY <1>1, InitInv, NextInv, PTL DEF Spec

(* No stored first_last day takes a repeated scan for a checkout, for any  *)
(* number of scans: selectPunches.                                         *)
THEOREM NeverAFalseCheckout == Spec => []NoFalseCheckout
<1>1. Inv => NoFalseCheckout
  BY DEF Inv, DaysOK, Good, NoFalseCheckout
<1> QED BY <1>1, InitInv, NextInv, PTL DEF Spec

-----------------------------------------------------------------------------
(* A recalculation that nothing has overlapped: no other instance is at    *)
(* its date, and what it has read so far is still so.                      *)

Alone(w) == \A v \in Busy \ {w} : Date(v) # Date(w)

ReadRight(w) ==
  /\ work[w].phase \in {"infer", "suggest"} =>
       assigned[Date(w)] = NoShift /\ inference[Date(w)].state \notin Decided
  /\ work[w].phase = "suggest" =>
       work[w].guess = InferDailyShift(PunchesForInference(Date(w)), Date(w), Shifts)
  /\ work[w].phase = "load" => work[w].shift = RightShift(Date(w))
  /\ work[w].phase = "write" => work[w].day = CalculatedDay(Date(w), RightShift(Date(w)))

QuietInv == \A w \in Busy \ touched : Alone(w) /\ ReadRight(w)

(* What a recalculation of d reads is as it was. *)
SameSources(d) ==
  /\ UNCHANGED <<events, assigned, off>>
  /\ inference'[d] = inference[d] /\ CorrectionsOf(d)' = CorrectionsOf(d)

LEMMA SameAnswers ==
  ASSUME NEW d, SameSources(d)
  PROVE  /\ PunchesForInference(d)' = PunchesForInference(d) /\ RightShift(d)' = RightShift(d)
         /\ \A s : CalculatedDay(d, s)' = CalculatedDay(d, s)
<1>1. PunchesForInference(d)' = PunchesForInference(d)
  BY DEF SameSources, PunchesForInference
<1>2. RightShift(d)' = RightShift(d)
  BY <1>1 DEF SameSources, RightShift
<1>3. OffOn(d)' = OffOn(d) /\ \A s : PunchesOf(d, s)' = PunchesOf(d, s)
  BY DEF SameSources, OffOn, PunchesOf
<1>4. \A s : CalculatedDay(d, s)' = CalculatedDay(d, s)
  BY <1>3 DEF SameSources, CalculatedDay
<1> QED BY <1>1, <1>2, <1>4

LEMMA StillRight ==
  ASSUME NEW x \in Workers, NEW d, d = Date(x), ReadRight(x), work'[x] = work[x], SameSources(d)
  PROVE  ReadRight(x)'
<1>1. Date(x)' = d
  BY DEF Date
<1>2. /\ PunchesForInference(d)' = PunchesForInference(d) /\ RightShift(d)' = RightShift(d)
      /\ \A s : CalculatedDay(d, s)' = CalculatedDay(d, s)
  BY SameAnswers
<1> QED BY <1>1, <1>2 DEF ReadRight, SameSources

(* Instance w goes on at its date; only its date's inference may change. *)
LEMMA GoesOn ==
  ASSUME Inv, QuietInv, NEW w \in Workers, work[w] # Idle,
         NEW v, v # Idle, v.todo = work[w].todo, work' = [work EXCEPT ![w] = v],
         UNCHANGED <<sources, touched>>,
         \A d \in Dates : d # Date(w) => inference'[d] = inference[d],
         w \notin touched => ReadRight(w)'
  PROVE  QuietInv'
<1>1. work'[w] = v /\ \A x \in Workers \ {w} : work'[x] = work[x]
  BY DEF Inv, WorkOK
<1>2. Busy' = Busy /\ Busy \subseteq Workers
  BY <1>1 DEF Busy
<1>3. \A x \in Workers : Date(x)' = Date(x)
  BY <1>1 DEF Date
<1>4. ASSUME NEW x \in Busy \ touched PROVE Alone(x)' /\ ReadRight(x)'
  <2>1. Alone(x) /\ ReadRight(x) /\ x \in Workers
    BY <1>2, <1>4 DEF QuietInv
  <2>2. Alone(x)'
    BY <1>2, <1>3, <2>1 DEF Alone
  <2>3. CASE x = w
    BY <1>4, <2>2, <2>3
  <2>4. CASE x # w
    <3>1. Date(x) # Date(w) /\ Date(x) \in Dates
      BY <1>2, <1>4, <2>1, <2>4, AtWork DEF Alone, Busy, Inv
    <3>2. PICK d : d = Date(x)
      OBVIOUS
    <3>3. CorrectionsOf(d)' = CorrectionsOf(d)
      BY DEF CorrectionsOf, sources
    <3>4. SameSources(d)
      BY <3>1, <3>2, <3>3 DEF SameSources, sources
    <3> QED BY <1>1, <2>1, <2>2, <2>4, <3>2, <3>4, StillRight
  <2> QED BY <2>3, <2>4
<1> QED BY <1>2, <1>4 DEF QuietInv

(* Instance w begins a date, where only that date's decision and           *)
(* corrections may change.                                                 *)
LEMMA Begins ==
  ASSUME Inv, QuietInv, NEW w \in Workers, NEW cause,
         NEW todo \in Seq(Dates), todo # <<>>, Begin(w, cause, todo),
         UNCHANGED <<events, assigned, off>>,
         \A d \in Dates : d # Head(todo) => inference'[d] = inference[d] /\ CorrectionsOf(d)' = CorrectionsOf(d)
  PROVE  QuietInv'
<1> DEFINE v == [phase |-> "context", cause |-> cause, todo |-> todo]
           h == Head(todo)
<1>1. work'[w] = v /\ \A x \in Workers \ {w} : work'[x] = work[x]
  BY DEF Inv, WorkOK, Begin
<1>2. v # Idle /\ v.phase = "context" /\ v.todo = todo /\ h \in Dates
  BY DEF Idle
<1> HIDE DEF v
<1>3. Busy' = Busy \union {w} /\ Busy \subseteq Workers
  BY <1>1, <1>2 DEF Busy
<1>4. Date(w)' = h /\ \A x \in Workers \ {w} : Date(x)' = Date(x)
  BY <1>1, <1>2 DEF Date
<1>5. ASSUME NEW x \in Busy' \ touched' PROVE Alone(x)' /\ ReadRight(x)'
  <2>1. CASE x = w
    <3>1. Others(w, h) = {}
      BY <1>5, <2>1 DEF Begin
    <3>2. Alone(w)'
      BY <1>3, <1>4, <3>1 DEF Alone, Others
    <3>3. ReadRight(w)'
      BY <1>1, <1>2 DEF ReadRight
    <3> QED BY <2>1, <3>2, <3>3
  <2>2. CASE x # w
    <3>1. x \in Busy /\ x \in Workers /\ x \notin touched /\ x \notin Others(w, h)
      BY <1>3, <1>5, <2>2 DEF Begin
    <3>2. Alone(x) /\ ReadRight(x) /\ Date(x) # h
      BY <2>2, <3>1 DEF QuietInv, Others
    <3>3. Alone(x)'
      BY <1>3, <1>4, <2>2, <3>1, <3>2 DEF Alone
    <3>4. PICK d : d = Date(x)
      OBVIOUS
    <3>5. d \in Dates
      BY <3>1, <3>4, AtWork DEF Busy, Inv
    <3>6. SameSources(d)
      BY <3>2, <3>4, <3>5 DEF SameSources
    <3> QED BY <1>1, <2>2, <3>1, <3>2, <3>3, <3>4, <3>6, StillRight
  <2> QED BY <2>1, <2>2
<1> QED BY <1>5 DEF QuietInv

(* Instance w has ended, and nothing else changed. *)
LEMMA Ends ==
  ASSUME Inv, QuietInv, NEW w \in Workers, work' = [work EXCEPT ![w] = Idle],
         touched' = touched \ {w}, UNCHANGED <<sources, inference>>
  PROVE  QuietInv'
<1>1. work'[w] = Idle /\ \A x \in Workers \ {w} : work'[x] = work[x]
  BY DEF Inv, WorkOK
<1>2. Busy' = Busy \ {w} /\ Busy \subseteq Workers /\ \A x \in Workers \ {w} : Date(x)' = Date(x)
  BY <1>1 DEF Busy, Date
<1>3. ASSUME NEW x \in Busy' \ touched' PROVE Alone(x)' /\ ReadRight(x)'
  <2>1. x \in Busy \ touched /\ x \in Workers /\ x # w /\ Alone(x) /\ ReadRight(x)
    BY <1>2, <1>3 DEF QuietInv
  <2>2. Alone(x)'
    BY <1>2, <2>1 DEF Alone
  <2>3. PICK d : d = Date(x)
    OBVIOUS
  <2>4. CorrectionsOf(d)' = CorrectionsOf(d)
    BY DEF CorrectionsOf, sources
  <2>5. SameSources(d)
    BY <2>4 DEF SameSources, sources
  <2> QED BY <1>1, <2>1, <2>2, <2>3, <2>5, StillRight
<1> QED BY <1>3 DEF QuietInv

(* A source has changed: everybody at work is touched. *)
LEMMA EverybodyTouched ==
  ASSUME QuietInv, UNCHANGED work, touched' = touched \union Busy
  PROVE  QuietInv'
BY DEF QuietInv, Busy

LEMMA LoadContextQuiet ==
  ASSUME Inv, QuietInv, NEW w \in Workers, LoadContext(w)
  PROVE  QuietInv'
<1>1. work[w].phase = "context" /\ work[w] # Idle /\ UNCHANGED <<sources, derived, touched>>
  BY DEF LoadContext, Idle
<1>2. PICK d \in Dates : d = Date(w)
  BY <1>1, AtWork DEF Inv
<1>3. RightShift(d)' = RightShift(d) /\ UNCHANGED <<assigned, inference>>
  BY <1>1 DEF RightShift, PunchesForInference, sources, derived
<1>4. inference[d].state = "rejected" => inference[d].selected = NoShift
  BY DEF Inv, TypeOK
<1>5. PICK v : /\ work' = [work EXCEPT ![w] = v]
               /\ v # Idle /\ v.todo = work[w].todo
               /\ \/ v.phase = "load" /\ v.shift = RightShift(d)
                  \/ v.phase = "infer" /\ assigned[d] = NoShift /\ inference[d].state \notin Decided
  <2>1. \A s, source : /\ Loading(w, s, source) # Idle /\ Loading(w, s, source).phase = "load"
                       /\ Loading(w, s, source).todo = work[w].todo /\ Loading(w, s, source).shift = s
    BY DEF Loading, Idle
  <2>2. CASE assigned[d] # NoShift
    <3> DEFINE v == Loading(w, assigned[d], "assigned")
    <3>1. work' = [work EXCEPT ![w] = v]
      BY <1>2, <2>2 DEF LoadContext
    <3>2. RightShift(d) = assigned[d]
      BY <2>2 DEF RightShift
    <3>3. v # Idle /\ v.phase = "load" /\ v.todo = work[w].todo /\ v.shift = assigned[d]
      BY <2>1
    <3> HIDE DEF v
    <3> QED BY <3>1, <3>2, <3>3
  <2>3. CASE assigned[d] = NoShift /\ inference[d].state = "confirmed"
    <3> DEFINE v == Loading(w, inference[d].selected, "confirmed")
    <3>1. work' = [work EXCEPT ![w] = v]
      BY <1>2, <2>3 DEF LoadContext
    <3>2. RightShift(d) = inference[d].selected
      BY <2>3 DEF RightShift, Decided
    <3>3. v # Idle /\ v.phase = "load" /\ v.todo = work[w].todo /\ v.shift = inference[d].selected
      BY <2>1
    <3> HIDE DEF v
    <3> QED BY <3>1, <3>2, <3>3
  <2>4. CASE assigned[d] = NoShift /\ inference[d].state = "rejected"
    <3> DEFINE v == Loading(w, NoShift, "none")
    <3>1. work' = [work EXCEPT ![w] = v]
      BY <1>2, <2>4 DEF LoadContext
    <3>2. RightShift(d) = NoShift
      BY <1>4, <2>4 DEF RightShift, Decided
    <3>3. v # Idle /\ v.phase = "load" /\ v.todo = work[w].todo /\ v.shift = NoShift
      BY <2>1
    <3> HIDE DEF v
    <3> QED BY <3>1, <3>2, <3>3
  <2>5. CASE assigned[d] = NoShift /\ inference[d].state \notin Decided
    <3> DEFINE v == [phase |-> "infer", cause |-> work[w].cause, todo |-> work[w].todo]
    <3>1. work' = [work EXCEPT ![w] = v]
      BY <1>2, <2>5 DEF LoadContext, Decided
    <3>2. v # Idle /\ v.phase = "infer" /\ v.todo = work[w].todo
      BY DEF Idle
    <3> HIDE DEF v
    <3> QED BY <2>5, <3>1, <3>2
  <2> QED BY <2>2, <2>3, <2>4, <2>5 DEF Decided
<1>6. work'[w] = v /\ Date(w)' = d
  BY <1>2, <1>5 DEF Inv, WorkOK, Date
<1>7. ReadRight(w)'
  BY <1>3, <1>5, <1>6 DEF ReadRight
<1>8. \A e \in Dates : inference'[e] = inference[e]
  BY <1>3
<1> QED BY <1>1, <1>5, <1>7, <1>8, GoesOn

LEMMA InferShiftQuiet ==
  ASSUME Inv, QuietInv, NEW w \in Workers, InferShift(w)
  PROVE  QuietInv'
<1>1. work[w].phase = "infer" /\ work[w] # Idle /\ UNCHANGED <<sources, derived, touched>>
  BY DEF InferShift, Idle
<1>2. PICK d \in Dates : d = Date(w)
  BY <1>1, AtWork DEF Inv
<1> DEFINE guess == InferDailyShift(PunchesForInference(d), d, Shifts)
           v == [phase |-> "suggest", cause |-> work[w].cause, todo |-> work[w].todo, guess |-> guess]
<1>3. guess' = guess /\ UNCHANGED <<assigned, inference>>
  BY <1>1 DEF PunchesForInference, sources, derived
<1>4. work' = [work EXCEPT ![w] = v]
  BY <1>2 DEF InferShift
<1>5. v # Idle /\ v.phase = "suggest" /\ v.todo = work[w].todo /\ v.guess = guess
  BY DEF Idle
<1>6. work'[w] = v
  BY <1>4 DEF Inv, WorkOK
<1> HIDE DEF v
<1>7. Date(w)' = d
  BY <1>2, <1>5, <1>6 DEF Date
<1>8. ASSUME w \notin touched PROVE ReadRight(w)'
  <2>1. assigned[d] = NoShift /\ inference[d].state \notin Decided
    BY <1>1, <1>2, <1>8 DEF QuietInv, ReadRight, Busy
  <2>2. work'[w].guess = guess' /\ work'[w].phase = "suggest"
    BY <1>3, <1>5, <1>6
  <2> QED BY <1>3, <1>7, <2>1, <2>2 DEF ReadRight
<1>9. \A e \in Dates : inference'[e] = inference[e]
  BY <1>3
<1> QED BY <1>1, <1>4, <1>5, <1>8, <1>9, GoesOn

LEMMA WriteInferenceQuiet ==
  ASSUME Inv, QuietInv, NEW w \in Workers, WriteInference(w)
  PROVE  QuietInv'
<1>1. work[w].phase = "suggest" /\ work[w] # Idle /\ UNCHANGED <<sources, days, touched>>
  BY DEF WriteInference, Idle
<1>2. PICK d \in Dates : d = Date(w)
  BY <1>1, AtWork DEF Inv
<1> DEFINE result == Inferred(work[w].guess)
           v == Loading(w, result.selected, IF result.selected = NoShift THEN "none" ELSE "automatic")
<1>3. work' = [work EXCEPT ![w] = v] /\ inference' = [inference EXCEPT ![d] = result]
  BY <1>2 DEF WriteInference
<1>4. v # Idle /\ v.phase = "load" /\ v.todo = work[w].todo /\ v.shift = result.selected
  BY DEF Loading, Idle
<1>5. work'[w] = v
  BY <1>3 DEF Inv, WorkOK
<1>6. inference'[d] = result /\ \A e \in Dates : e # d => inference'[e] = inference[e]
  BY <1>3 DEF Inv, TypeOK
<1>7. result.state \notin Decided
      /\ result.selected = IF work[w].guess.confidence = "high" THEN work[w].guess.suggested ELSE NoShift
  BY DEF Inferred, Decided
<1> HIDE DEF v, result
<1>8. Date(w)' = d
  BY <1>2, <1>4, <1>5 DEF Date
<1>9. ASSUME w \notin touched PROVE ReadRight(w)'
  <2>1. assigned[d] = NoShift /\ work[w].guess = InferDailyShift(PunchesForInference(d), d, Shifts)
    BY <1>1, <1>2, <1>9 DEF QuietInv, ReadRight, Busy
  <2>2. PunchesForInference(d)' = PunchesForInference(d) /\ UNCHANGED assigned
    BY <1>1 DEF PunchesForInference, sources
  <2>3. RightShift(d)' = result.selected
    BY <1>6, <1>7, <2>1, <2>2 DEF RightShift
  <2> QED BY <1>4, <1>5, <1>8, <2>3 DEF ReadRight
<1> QED BY <1>1, <1>2, <1>3, <1>4, <1>6, <1>9, GoesOn

LEMMA LoadSourcesQuiet ==
  ASSUME Inv, QuietInv, NEW w \in Workers, LoadSources(w)
  PROVE  QuietInv'
<1>1. work[w].phase = "load" /\ work[w] # Idle /\ UNCHANGED <<sources, derived, touched>>
  BY DEF LoadSources, Idle
<1>2. PICK d \in Dates : d = Date(w)
  BY <1>1, AtWork DEF Inv
<1> DEFINE v == [phase |-> "write", cause |-> work[w].cause, todo |-> work[w].todo,
                 source |-> work[w].source, day |-> CalculatedDay(d, work[w].shift)]
<1>3. work' = [work EXCEPT ![w] = v]
  BY <1>2 DEF LoadSources
<1>4. v # Idle /\ v.phase = "write" /\ v.todo = work[w].todo /\ v.day = CalculatedDay(d, work[w].shift)
  BY DEF Idle
<1>5. work'[w] = v
  BY <1>3 DEF Inv, WorkOK
<1> HIDE DEF v
<1>6. Date(w)' = d
  BY <1>2, <1>4, <1>5 DEF Date
<1>7. SameSources(d)
  BY <1>1 DEF SameSources, CorrectionsOf, sources, derived
<1>8. RightShift(d)' = RightShift(d) /\ \A s : CalculatedDay(d, s)' = CalculatedDay(d, s)
  BY <1>7, SameAnswers
<1>9. ASSUME w \notin touched PROVE ReadRight(w)'
  <2>1. work[w].shift = RightShift(d)
    BY <1>1, <1>2, <1>9 DEF QuietInv, ReadRight, Busy
  <2>2. work'[w].day = CalculatedDay(d, RightShift(d))'
    BY <1>4, <1>5, <1>8, <2>1
  <2> QED BY <1>4, <1>5, <1>6, <2>2 DEF ReadRight
<1>10. \A e \in Dates : inference'[e] = inference[e]
  BY <1>1 DEF derived
<1> QED BY <1>1, <1>3, <1>4, <1>9, <1>10, GoesOn

LEMMA WriteDayQuiet ==
  ASSUME Inv, QuietInv, NEW w \in Workers, WriteDay(w)
  PROVE  QuietInv'
<1> DEFINE todo == work[w].todo
<1>1. work[w] # Idle /\ UNCHANGED <<sources, inference>>
  BY DEF WriteDay, Idle
<1>2. todo \in Seq(Dates) /\ todo # <<>>
  BY <1>1, AtWork DEF Inv
<1>3. CASE Len(todo) > 1
  <2>1. Tail(todo) \in Seq(Dates) /\ Tail(todo) # <<>>
    <3> HIDE DEF todo
    <3> QED BY <1>2, <1>3, TailRemains
  <2>2. Begin(w, work[w].cause, Tail(todo))
    BY <1>3 DEF WriteDay
  <2>3. \A d \in Dates : inference'[d] = inference[d] /\ CorrectionsOf(d)' = CorrectionsOf(d)
    BY <1>1 DEF CorrectionsOf, sources
  <2> HIDE DEF todo
  <2> QED BY <1>1, <2>1, <2>2, <2>3, Begins DEF sources
<1>4. CASE ~(Len(todo) > 1)
  <2>1. work' = [work EXCEPT ![w] = Idle] /\ touched' = touched \ {w}
    BY <1>4 DEF WriteDay
  <2> QED BY <1>1, <2>1, Ends
<1> QED BY <1>3, <1>4

LEMMA FailQuiet ==
  ASSUME Inv, QuietInv, NEW w \in Workers, Fail(w)
  PROVE  QuietInv'
BY Ends DEF Fail, derived

LEMMA CallersQuiet ==
  ASSUME Inv, QuietInv, NEW w \in Workers
  PROVE  /\ \A p \in Punches : RecalculateNewEvent(w, p) => QuietInv'
         /\ \A j \in jobs : RecalculateForJob(w, j) => QuietInv'
         /\ \A d \in Dates : RecalculateAttendanceDay(w, d) => QuietInv'
<1>1. ASSUME NEW cause, NEW todo \in Seq(Dates), todo # <<>>, Begin(w, cause, todo),
             UNCHANGED <<sources, derived>>
      PROVE  QuietInv'
  <2>1. \A d \in Dates : inference'[d] = inference[d] /\ CorrectionsOf(d)' = CorrectionsOf(d)
    BY <1>1 DEF CorrectionsOf, sources, derived
  <2> QED BY <1>1, <2>1, Begins DEF sources
<1>2. ASSUME NEW p \in Punches, RecalculateNewEvent(w, p) PROVE QuietInv'
  <2>1. Begin(w, [events |-> {p}, jobs |-> {}], CandidateDates(p)) /\ UNCHANGED <<sources, derived>>
    BY <1>2 DEF RecalculateNewEvent
  <2> QED BY <1>1, <2>1, CandidatesObserved
<1>3. ASSUME NEW j \in jobs, RecalculateForJob(w, j) PROVE QuietInv'
  <2>1. Begin(w, [events |-> {}, jobs |-> {j}], <<j[1]>>) /\ UNCHANGED <<sources, derived>>
    BY <1>3 DEF RecalculateForJob
  <2>2. <<j[1]>> \in Seq(Dates) /\ <<j[1]>> # <<>>
    BY DEF Inv, JobsOK
  <2> QED BY <1>1, <2>1, <2>2
<1>4. ASSUME NEW d \in Dates, RecalculateAttendanceDay(w, d) PROVE QuietInv'
  <2>1. Begin(w, NoCause, <<d>>) /\ UNCHANGED <<sources, derived>>
    BY <1>4 DEF RecalculateAttendanceDay
  <2>2. <<d>> \in Seq(Dates) /\ <<d>> # <<>>
    OBVIOUS
  <2> QED BY <1>1, <2>1, <2>2
<1> QED BY <1>2, <1>3, <1>4

LEMMA CreateManualAdjustmentQuiet ==
  ASSUME Inv, QuietInv, NEW w \in Workers, NEW a \in Corrections, CreateManualAdjustment(w, a)
  PROVE  QuietInv'
<1>1. /\ Begin(w, NoCause, <<a.date>>) /\ approved' = approved \union {a}
      /\ UNCHANGED <<events, assigned, off, inference>>
  BY DEF CreateManualAdjustment, derived
<1>2. <<a.date>> \in Seq(Dates) /\ <<a.date>> # <<>> /\ Head(<<a.date>>) = a.date
  BY DayAssumption
<1>3. \A d \in Dates : d # a.date => inference'[d] = inference[d] /\ CorrectionsOf(d)' = CorrectionsOf(d)
  BY <1>1 DEF CorrectionsOf
<1> QED BY <1>1, <1>2, <1>3, Begins

LEMMA ResolveShiftInferenceQuiet ==
  ASSUME Inv, QuietInv, NEW w \in Workers, NEW d \in Dates, NEW state, NEW s,
         ResolveShiftInference(w, d, state, s)
  PROVE  QuietInv'
<1>1. /\ Begin(w, NoCause, <<d>>) /\ UNCHANGED sources
      /\ inference' = [inference EXCEPT ![d] = [state |-> state, selected |-> s]]
  BY DEF ResolveShiftInference
<1>2. <<d>> \in Seq(Dates) /\ <<d>> # <<>> /\ Head(<<d>>) = d
  OBVIOUS
<1>3. \A e \in Dates : e # d => inference'[e] = inference[e] /\ CorrectionsOf(e)' = CorrectionsOf(e)
  BY <1>1 DEF CorrectionsOf, sources, Inv, TypeOK
<1> QED BY <1>1, <1>2, <1>3, Begins DEF sources

LEMMA NextQuiet == Inv /\ QuietInv /\ [Next]_vars => QuietInv'
<1> SUFFICES ASSUME Inv, QuietInv, [Next]_vars PROVE QuietInv'
  OBVIOUS
<1>1. ASSUME NEW w \in Workers, LoadContext(w) \/ InferShift(w) \/ WriteInference(w)
                                 \/ LoadSources(w) \/ WriteDay(w) \/ Fail(w)
      PROVE  QuietInv'
  BY <1>1, LoadContextQuiet, InferShiftQuiet, WriteInferenceQuiet, LoadSourcesQuiet, WriteDayQuiet, FailQuiet
<1>2. ASSUME NEW p \in Punches, Ingest(p) PROVE QuietInv'
  BY <1>2, EverybodyTouched DEF Ingest
<1>3. ASSUME NEW a \in Assignments, AssignEmployeeShift(a[1], a[2], a[3]) PROVE QuietInv'
  BY <1>3, EverybodyTouched DEF AssignEmployeeShift
<1>4. ASSUME NEW e \in Excuses, Excuse(e[1], e[2]) PROVE QuietInv'
  BY <1>4, EverybodyTouched DEF Excuse
<1>5. CASE UNCHANGED vars
  <2>1. UNCHANGED <<events, assigned, off, approved, inference, work, touched>>
    BY <1>5 DEF vars, sources, derived
  <2>2. Busy' = Busy /\ Busy \subseteq Workers /\ \A x \in Workers : Date(x)' = Date(x)
    BY <2>1 DEF Busy, Date
  <2>3. ASSUME NEW x \in Busy \ touched PROVE Alone(x)' /\ ReadRight(x)'
    <3>1. Alone(x) /\ ReadRight(x) /\ x \in Workers
      BY <2>2, <2>3 DEF QuietInv
    <3>2. Alone(x)'
      BY <2>2, <3>1 DEF Alone
    <3>3. PICK d : d = Date(x)
      OBVIOUS
    <3>4. SameSources(d)
      BY <2>1 DEF SameSources, CorrectionsOf
    <3> QED BY <2>1, <3>1, <3>2, <3>3, <3>4, StillRight
  <2> QED BY <2>1, <2>2, <2>3 DEF QuietInv
<1> QED BY <1>1, <1>2, <1>3, <1>4, <1>5, CallersQuiet, CreateManualAdjustmentQuiet,
       ResolveShiftInferenceQuiet DEF Next

(* A day is replaced by the instance that has calculated it, and no other. *)
LEMMA WhoWritesDays ==
  ASSUME [Next]_vars, days' # days
  PROVE  \E w \in Workers : WriteDay(w)
BY DEF Next, vars, derived, LoadContext, InferShift, WriteInference, LoadSources, Fail,
       RecalculateNewEvent, RecalculateForJob, RecalculateAttendanceDay, CreateManualAdjustment,
       ResolveShiftInference, Ingest, AssignEmployeeShift, Excuse

LEMMA QuietStep ==
  ASSUME Inv, QuietInv, [Next]_vars, NEW w \in Workers \ touched,
         days' # days, work[w].phase = "write", work'[w] # work[w]
  PROVE  days'[Date(w)].day = CalculatedDay(Date(w), RightShift(Date(w)))
<1>1. PICK v \in Workers : WriteDay(v)
  BY WhoWritesDays
<1>2. \A x \in Workers \ {v} : work'[x] = work[x]
  BY <1>1 DEF WriteDay, Begin, Inv, WorkOK
<1>3. WriteDay(w) /\ w \in Busy
  BY <1>1, <1>2 DEF Busy, Idle
<1>4. Date(w) \in Dates
  BY <1>3, AtWork DEF Busy, Inv
<1>5. days'[Date(w)].day = work[w].day
  BY <1>3, <1>4 DEF WriteDay, Inv, DaysOK
<1> QED BY <1>3, <1>5 DEF QuietInv, ReadRight

(* Recalculating needs no history: a recalculation that nothing overlaps   *)
(* stores the day that its sources and HR's decision call for, whatever    *)
(* the documents were, in any time zone, for any shifts, punches and       *)
(* corrections and any number of instances busy with other days            *)
(* (recalculateAttendanceDayInFirestore).                                  *)
THEOREM QuietRecalculationAlwaysRight == Spec => QuietRecalculationIsRight
<1>1. Spec => []Inv
  BY InitInv, NextInv, PTL DEF Spec
<1>2. Init => QuietInv
  BY DEF Init, QuietInv, Busy
<1>3. Spec => []QuietInv
  BY <1>1, <1>2, NextQuiet, PTL DEF Spec
<1>4. Inv /\ QuietInv /\ [Next]_vars =>
        [\A w \in Workers \ touched :
           days' # days /\ work[w].phase = "write" /\ work'[w] # work[w] =>
             days'[Date(w)].day = CalculatedDay(Date(w), RightShift(Date(w)))]_vars
  BY QuietStep
<1> QED BY <1>1, <1>3, <1>4, PTL DEF Spec, QuietRecalculationIsRight
==============================================================================
