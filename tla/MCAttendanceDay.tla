-------------------------- MODULE MCAttendanceDay --------------------------
(* Values of the constants of AttendanceDay that a cfg cannot write: a     *)
(* local day of twelve minutes, two ticks to the minute; the clocks go     *)
(* back a minute at the second minute of the second day.                   *)
EXTENDS AttendanceDay, TLC

Zone == [p \in (0 .. 4) \X (0 .. 11) |->
           2 * (12 * p[1] + p[2] + IF p[1] > 2 \/ (p[1] = 2 /\ p[2] > 1) THEN 1 ELSE 0)]
InferencePolicy == [early |-> 2, late |-> 3, highDistance |-> 1, highMargin |-> 2,
                    mediumDistance |-> 2, mediumMargin |-> 1]

DayShift == [id |-> 1, start |-> 4, end |-> 9, dates |-> {1, 2}, grace |-> 1,
             lateMode |-> "after_grace", break |-> 1, mode |-> "explicit_status",
             before |-> 3, after |-> 6, earlyGrace |-> 0,
             overtime |-> [enabled |-> TRUE, delay |-> 0, minimum |-> 1, step |-> 2, mode |-> "nearest"]]
NightShift == [DayShift EXCEPT !.id = 2, !.start = 7, !.end = 3, !.lateMode = "from_shift_start",
               !.mode = "first_last"]
MCShifts == {DayShift, NightShift}
NightsAssigned == {<<NightShift, 1, 1>>}

(* A scan a minute after the night shift starts, another a minute later, a *)
(* checkout in the morning, half a minute before the shift ends.           *)
(* The first is a clear match with the night shift, the second is not.     *)
MCPunches == {[id |-> 1, at |-> 40, direction |-> "unknown"],
              [id |-> 2, at |-> 42, direction |-> "unknown"],
              [id |-> 3, at |-> 55, direction |-> "out"]}

LateCheckout == {[id |-> 1, date |-> 1, order |-> 1, field |-> "last_out", value |-> 60]}
Leave == {<<2, "leave">>}

WorkerSymmetry == Permutations(Workers)
==============================================================================
