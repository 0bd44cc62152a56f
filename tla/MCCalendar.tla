---------------------------- MODULE MCCalendar ----------------------------
(***************************************************************************)
(* Calendar from the first day of 1372 to the end of 2035: past a year     *)
(* 2000 that is leap, and past 1408, where the civil leap years leave the  *)
(* rule of one in four.                                                    *)
(***************************************************************************)
EXTENDS Calendar

\* 21 March 1993, a Sunday.
MCStart == [date |-> <<1993, 3, 21>>, yday |-> 79, wday |-> 0, civil |-> <<1372, 1, 1>>]
=============================================================================
