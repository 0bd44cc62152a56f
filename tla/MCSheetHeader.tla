---------------------------- MODULE MCSheetHeader ----------------------------
(***************************************************************************)
(* QuoteService with the labels that SheetHeader finds in real stamps: two *)
(* sheets of one morning and the first one of the next day.                *)
(***************************************************************************)
EXTENDS QuoteService, TLC

CONSTANTS a, b, c, day9, day12

Header == INSTANCE SheetHeader

At(theDay, theHour, theMinute) ==
    [year |-> 1394, month |-> 2, day |-> theDay, hour |-> theHour,
     minute |-> theMinute, second |-> 0, padded |-> TRUE]

\* Quotes of twenty minutes to ten and ten to ten, then of the next day.
MorningStamps == a :> At(9, 9, 40) @@ b :> At(9, 9, 50) @@ c :> At(12, 9, 40)

\* The same an hour later.
TenOClockStamps == a :> At(9, 10, 40) @@ b :> At(9, 10, 50) @@ c :> At(12, 10, 40)

MCSheets == {a, b, c}

MCRows == [s \in MCSheets |-> <<1, 2, 3>>]

\* Dates are kept as model values.
DateNamed(date) ==
    CASE date = <<1394, 2, 9>>  -> day9
      [] date = <<1394, 2, 12>> -> day12
      [] OTHER                  -> Blank

MorningDates == [s \in MCSheets |-> DateNamed(Header!DateFound(MorningStamps[s]))]

MorningTimes == [s \in MCSheets |-> Header!TimeFound(MorningStamps[s])]

TenOClockDates == [s \in MCSheets |-> DateNamed(Header!DateFound(TenOClockStamps[s]))]

TenOClockTimes == [s \in MCSheets |-> Header!TimeFound(TenOClockStamps[s])]

MCDates == {day9, day12, Blank}

MCRequests == {"home"}
=============================================================================
