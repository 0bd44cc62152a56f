----------------------------- MODULE SheetHeader -----------------------------
(***************************************************************************)
(* What Update finds in cell A1 of a sheet, whose text holds the Persian   *)
(* date and the time of the quotes.  A stamp is the date and time that the *)
(* text stands for and whether its hour is written with two digits.        *)
(***************************************************************************)
EXTENDS Naturals

CONSTANT Blank    \* what date and time are when the regex finds nothing

Stamps == [year : Nat, month : 1..12, day : 1..31,
           hour : 0..23, minute : 0..59, second : 0..59, padded : BOOLEAN]

\* (13)[1-9][1-9]/month/day.  Month and day are brought to two digits.
DateFound(t) ==
    IF /\ t.year \div 100 = 13
       /\ t.year % 10 # 0
       /\ (t.year \div 10) % 10 # 0
    THEN <<t.year, t.month, t.day>>
    ELSE Blank

\* Mutant of TimeFound: the regex ends after the minutes' colon.
HourFound(t) ==
    IF t.hour % 10 # 0 /\ (t.hour >= 10 \/ t.padded) THEN <<t.hour>> ELSE Blank

\* [0-2][1-9]:minute:second.  The second digit of the hour is never a zero.
TimeFound(t) ==
    IF t.hour % 10 # 0 /\ (t.hour >= 10 \/ t.padded)
    THEN <<t.hour, t.minute, t.second>>
    ELSE Blank
=============================================================================
