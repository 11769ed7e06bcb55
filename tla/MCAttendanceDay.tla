---------------------------- MODULE MCAttendanceDay ----------------------------
(* Values for AttendanceDay: a day of 8 ticks, of which noon is the fourth.     *)
EXTENDS AttendanceDay

DayShift   == [start |-> 1, end |-> 4]
LateShift  == [start |-> 6, end |-> 2]
AnyShift   == {DayShift, LateShift}
OnlyDay    == {DayShift}
OnlyNight  == {LateShift}

MCDates == {1, 2}
MCDay   == {1}

\* A correction to an ordinary day or to an absence.
MCCorrections ==
  {[in |-> 2, out |-> 5, status |-> "present"],
   [in |-> NoTime, out |-> NoTime, status |-> "absent"]}

MCNoCorrection == {}

NoDates == {}

===============================================================================
