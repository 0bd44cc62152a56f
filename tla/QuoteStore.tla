------------------------------ MODULE QuoteStore -----------------------------
(***************************************************************************)
(* What the server promises its readers, apart from how it keeps it: there *)
(* is one latest sheet of quotes and, for every day that ended, one        *)
(* archived sheet; a sheet is published in one step, an archived day never *)
(* changes, and a reader is given a whole sheet or is refused.             *)
(***************************************************************************)
CONSTANTS Readers,      \* the threads that answer requests
          Dates,        \* the dates sheets carry
          Sheets,       \* the sheets the source may publish
          DateOf,       \* the date of a sheet
          Content(_),   \* what a reader of the whole sheet is given
          None          \* no sheet

VARIABLES latest,       \* the sheet that was published last, or None
          past,         \* the archived days and the sheet of each
          answer        \* for every reader, the reply it holds

vars == <<latest, past, answer>>

Refusals == {"none", "asked", "404", "500"}

Reply(status, content) == [status |-> status, content |-> content]

Init ==
    /\ latest = None
    /\ past = [d \in {} |-> None]
    /\ answer = [r \in Readers |-> Reply("none", None)]

\* The first sheet that is closed for a day is the one that is kept.
Closed ==
    IF latest = None \/ DateOf[latest] \in DOMAIN past
    THEN past
    ELSE [d \in DOMAIN past \cup {DateOf[latest]} |->
             IF d = DateOf[latest] THEN latest ELSE past[d]]

Publish(s) ==
    /\ latest' = s
    /\ past' = IF latest # None /\ DateOf[latest] # DateOf[s]
               THEN Closed ELSE past
    /\ UNCHANGED answer

Answer(r, s) ==
    /\ answer' = [answer EXCEPT ![r] = Reply("200", Content(s))]
    /\ UNCHANGED <<latest, past>>

AnswerLatest(r) == latest # None /\ Answer(r, latest)

AnswerPast(r) == \E d \in DOMAIN past : Answer(r, past[d])

\* A request that waits, a missing day, a database that is busy or down.
Refuse(R) ==
    /\ \E status \in Refusals :
          answer' = [r \in Readers |->
                        IF r \in R THEN Reply(status, None) ELSE answer[r]]
    /\ UNCHANGED <<latest, past>>

Next ==
    \/ \E s \in Sheets : Publish(s)
    \/ \E r \in Readers : AnswerLatest(r) \/ AnswerPast(r)
    \/ \E R \in SUBSET Readers : Refuse(R)

Spec == Init /\ [][Next]_vars
=============================================================================
