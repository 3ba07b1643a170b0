------------------------------ MODULE Calendar -------------------------------
(***************************************************************************)
(* The calendar of the statements feed: providers/statements.go            *)
(* (quarterOrdinal) and the time.Time of a row.                            *)
(*                                                                         *)
(* Days, months and quarters are counted from the first of the calendar.   *)
(***************************************************************************)
EXTENDS Integers

CONSTANT MonthDays    \* days in a month

ASSUME MonthDaysAssumption == MonthDays \in Nat \ {0}

Month(day) == day \div MonthDays
quarterOrdinal(day) == Month(day) \div 3
=============================================================================
