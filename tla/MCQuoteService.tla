---------------------------- MODULE MCQuoteService ---------------------------
(***************************************************************************)
(* Small instances of QuoteService. Sheets a, b and c are of two days, a   *)
(* and b of the same one; the others lack a row that xlsx omits when it is *)
(* empty: noHeader the one of the label, noRow3 the first one of quotes.   *)
(***************************************************************************)
EXTENDS QuoteService, TLC

CONSTANTS a, b, c, noHeader, noRow3, day1, day2, early, late

MCDates == {day1, day2, Blank}

WholeSheets == {a, b, c}

OddSheets == {a, b, c, noHeader}

\* A sheet and a later one of the same day without row 3.
GapSheets == {a, noRow3}

MCRows == [s \in Sheets |->
              CASE s = noHeader -> <<2, 3>>
                [] s = noRow3   -> <<1, 2, 4>>
                [] OTHER        -> <<1, 2, 3, 4>>]

MCDateOf == [s \in Sheets |->
                CASE s = c        -> day2
                  [] s = noHeader -> Blank
                  [] OTHER        -> day1]

MCTimeOf == [s \in Sheets |->
                CASE s = noHeader       -> Blank
                  [] s \in {b, noRow3} -> late
                  [] OTHER              -> early]

MCRequests == {"latest", day1}

LatestOnly == {"latest"}
=============================================================================
