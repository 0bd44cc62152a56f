-------------------------- MODULE CalendarProofs --------------------------
(***************************************************************************)
(* The conversions are inverse to each other on exactly the dates whose    *)
(* conversion is accepted on the way back; the clock's days are the ones   *)
(* that CDate counts, and none is skipped or repeated; they keep up with   *)
(* the civil calendar, whose leap rule is another. Recursion and the       *)
(* search for the month are unfolded once (DaysOfSteps, FirstIsMonth);     *)
(* everything after them is about the number of a day in its year.         *)
(***************************************************************************)
EXTENDS Calendar, TLAPS

\* The recursion of DaysOf, unfolded: a function that satisfies it exists.
LEMMA DaysOfSteps ==
    ASSUME NEW months, \A i \in 1..11 : months[i] \in Int
    PROVE  /\ DaysOf(months, 0) = 0
           /\ \A i \in 1..11 : DaysOf(months, i) = DaysOf(months, i - 1) + months[i]
<1> DEFINE Body(f) == [i \in 0..11 |-> IF i = 0 THEN 0 ELSE f[i - 1] + months[i]]
           sum == CHOOSE f : f = Body(f)
           D1 == months[1]
           D2 == D1 + months[2]
           D3 == D2 + months[3]
           D4 == D3 + months[4]
           D5 == D4 + months[5]
           D6 == D5 + months[6]
           D7 == D6 + months[7]
           D8 == D7 + months[8]
           D9 == D8 + months[9]
           D10 == D9 + months[10]
           D11 == D10 + months[11]
<1>1. \E w : w = Body(w)
  <2> DEFINE w == [i \in 0..11 |->
             IF i = 0 THEN 0 ELSE IF i = 1 THEN D1 ELSE IF i = 2 THEN D2
             ELSE IF i = 3 THEN D3 ELSE IF i = 4 THEN D4 ELSE IF i = 5 THEN D5
             ELSE IF i = 6 THEN D6 ELSE IF i = 7 THEN D7 ELSE IF i = 8 THEN D8
             ELSE IF i = 9 THEN D9 ELSE IF i = 10 THEN D10 ELSE D11]
  <2>1. /\ D2 = D1 + months[2] /\ D3 = D2 + months[3] /\ D4 = D3 + months[4]
        /\ D5 = D4 + months[5] /\ D6 = D5 + months[6] /\ D7 = D6 + months[7]
        /\ D8 = D7 + months[8] /\ D9 = D8 + months[9] /\ D10 = D9 + months[10]
        /\ D11 = D10 + months[11] /\ D1 = 0 + months[1]
    <3>1. months[1] \in Int OBVIOUS
    <3> QED BY <3>1
  <2> HIDE DEF D1, D2, D3, D4, D5, D6, D7, D8, D9, D10, D11
  <2>2. \A i \in 0..11 : w[i] = IF i = 0 THEN 0 ELSE w[i - 1] + months[i]
    BY <2>1
  <2> HIDE DEF w
  <2>3. w = [i \in 0..11 |-> w[i]]
    BY DEF w
  <2>4. w = Body(w)
    BY <2>2, <2>3
  <2> QED BY <2>4
<1> HIDE DEF Body
<1>2. sum = Body(sum)
  BY <1>1
<1>3. \A i \in 0..11 : DaysOf(months, i) = sum[i]
  BY DEF DaysOf, Body
<1> HIDE DEF sum
<1>4. sum[0] = 0 /\ \A i \in 1..11 : sum[i] = sum[i - 1] + months[i]
  BY <1>2 DEF Body
<1> QED BY <1>3, <1>4

\* The days before each Gregorian month.
LEMMA SumsG ==
    ASSUME NEW y \in Int
    PROVE  LET M == MonthsG(y)
               l == IF IsLeapYearG(y) THEN 1 ELSE 0
           IN  /\ DaysOf(M, 0) = 0        /\ DaysOf(M, 1) = 31       /\ DaysOf(M, 2) = 59 + l
               /\ DaysOf(M, 3) = 90 + l   /\ DaysOf(M, 4) = 120 + l  /\ DaysOf(M, 5) = 151 + l
               /\ DaysOf(M, 6) = 181 + l  /\ DaysOf(M, 7) = 212 + l  /\ DaysOf(M, 8) = 243 + l
               /\ DaysOf(M, 9) = 273 + l  /\ DaysOf(M, 10) = 304 + l /\ DaysOf(M, 11) = 334 + l
<1> DEFINE M == MonthsG(y)
<1>1. /\ M[1] = 31 /\ M[2] = (IF IsLeapYearG(y) THEN 29 ELSE 28) /\ M[3] = 31 /\ M[4] = 30
      /\ M[5] = 31 /\ M[6] = 30 /\ M[7] = 31 /\ M[8] = 31 /\ M[9] = 30 /\ M[10] = 31
      /\ M[11] = 30 /\ M[12] = 31
  BY DEF MonthsG
<1> HIDE DEF M
<1>2. \A i \in 1..11 : M[i] \in Int
  BY <1>1
<1>3. /\ DaysOf(M, 0) = 0
      /\ \A i \in 1..11 : DaysOf(M, i) = DaysOf(M, i - 1) + M[i]
  BY <1>2, DaysOfSteps
<1> QED BY <1>1, <1>3 DEF M

\* The days before each Jalali month, in every year.
LEMMA SumsJ ==
    ASSUME NEW y \in Int
    PROVE  \A k \in 0..11 : DaysOf(MonthsJ(y), k) = IF k < 7 THEN 31 * k ELSE 30 * k + 6
<1> DEFINE M == MonthsJ(y)
<1>1. \A i \in 1..11 : M[i] = IF i < 7 THEN 31 ELSE 30
  BY DEF MonthsJ
<1> HIDE DEF M
<1>2. /\ DaysOf(M, 0) = 0
      /\ \A i \in 1..11 : DaysOf(M, i) = DaysOf(M, i - 1) + M[i]
  BY <1>1, DaysOfSteps
<1>3. /\ DaysOf(M, 0) = 0    /\ DaysOf(M, 1) = 31   /\ DaysOf(M, 2) = 62  /\ DaysOf(M, 3) = 93
      /\ DaysOf(M, 4) = 124  /\ DaysOf(M, 5) = 155  /\ DaysOf(M, 6) = 186 /\ DaysOf(M, 7) = 216
      /\ DaysOf(M, 8) = 246  /\ DaysOf(M, 9) = 276  /\ DaysOf(M, 10) = 306 /\ DaysOf(M, 11) = 336
  BY <1>1, <1>2
<1> QED BY <1>3 DEF M

\* MonthOf is the first interval that covers the day.
LEMMA FirstIsMonth ==
    ASSUME NEW n, NEW match, NEW wraps, NEW i \in 1..12, Covers(n, match, wraps, i),
           \A k \in 1..(i - 1) : ~Covers(n, match, wraps, k)
    PROVE  MonthOf(n, match, wraps) = i
<1> DEFINE S == {k \in 1..12 : Covers(n, match, wraps, k)}
<1>1. i \in S /\ \A k \in S : i <= k
  OBVIOUS
<1>2. \A x \in S : (\A k \in S : x <= k) => x = i
  BY <1>1
<1> QED BY <1>1, <1>2 DEF MonthOf, Min

\* A Jalali year is leap when the Gregorian year that it begins in is.
LEMMA LeapYearsMatch ==
    ASSUME NEW y \in Int
    PROVE  IsLeapYearJ(y) <=> IsLeapYearG(y + 621)
BY DEF IsLeapYearJ, IsLeapYearG, Modulus

\* CalcToJ yields a day of the Jalali calendar, the one with this number in
\* its year.
LEMMA CalcToJDay ==
    ASSUME NEW y \in Int, NEW n \in Int, 1 <= n, n <= 366
    PROVE  LET j == CalcToJ[<<y, n>>]
           IN  /\ j \in Date
               /\ j[1] = IF n > 79 THEN y - 621 ELSE y - 622
               /\ j[2] \in 1..12
               /\ j[3] \in 1..MonthsJ(j[1])[j[2]]
               /\ DayOfYearJ(j) = IF n > 79 THEN n - 79
                                  ELSE IF IsLeapYearG(y - 1) THEN n + 287 ELSE n + 286
<1> DEFINE m == MatchJ(y)
           mo == MonthOf(n, m, 10)
           l == IF IsLeapYearG(y - 1) THEN 1 ELSE 0
           jy == IF n > 79 THEN y - 621 ELSE y - 622
           jd == DayIn(mo, n, m, IF IsLeapYearG(y - 1) THEN 11 ELSE 10)
<1>1. /\ m[1] = 80 /\ m[2] = 111 /\ m[3] = 142 /\ m[4] = 173 /\ m[5] = 204 /\ m[6] = 235
      /\ m[7] = 266 /\ m[8] = 296 /\ m[9] = 326 /\ m[10] = 356 /\ m[11] = 21 - l
      /\ m[12] = 51 - l /\ m[13] = 999
  BY DEF MatchJ, MatchAfter
<1>2. CalcToJ[<<y, n>>] = <<jy, mo, jd>>
  BY DEF CalcToJ
<1>3. DayOfYearJ(<<jy, mo, jd>>) = DaysOf(MonthsJ(jy), mo - 1) + jd
  BY DEF DayOfYearJ
<1>4. n < 80 => (IsLeapYearJ(jy) <=> IsLeapYearG(y - 1))
  BY LeapYearsMatch
<1>5. \A k \in 1..12 : MonthsJ(jy)[k] = IF k < 7 THEN 31 ELSE IF k < 12 THEN 30
                                        ELSE IF IsLeapYearJ(jy) THEN 30 ELSE 29
  BY DEF MonthsJ
<1>6. \A k \in 0..11 : DaysOf(MonthsJ(jy), k) = IF k < 7 THEN 31 * k ELSE 30 * k + 6
  BY SumsJ
<1>7. l \in 0..1
  OBVIOUS
<1> SUFFICES /\ mo \in 1..12 /\ jd \in 1..MonthsJ(jy)[mo]
             /\ DaysOf(MonthsJ(jy), mo - 1) + jd = IF n > 79 THEN n - 79 ELSE n + 286 + l
  BY <1>2, <1>3, <1>5 DEF Date
<1> HIDE DEF m, l
<1>8. ASSUME NEW i \in 1..12,
             \/ i < 10 /\ m[i] <= n /\ n < m[i + 1]
             \/ i = 10 /\ (m[10] <= n \/ n < m[11])
             \/ i = 11 /\ m[11] <= n /\ n < m[12]
             \/ i = 12 /\ m[12] <= n /\ n < 80
      PROVE  mo = i
  <2>1. Covers(n, m, 10, i)
    BY <1>1, <1>7, <1>8 DEF Covers
  <2>2. \A k \in 1..(i - 1) : ~Covers(n, m, 10, k)
    BY <1>1, <1>7, <1>8 DEF Covers
  <2> QED BY <2>1, <2>2, FirstIsMonth
<1> HIDE DEF mo
<1>9. CASE n >= 80
  <2>1. \E i \in 1..10 : m[i] <= n /\ (i < 10 => n < m[i + 1])
    BY <1>1, <1>9
  <2>2. PICK i \in 1..10 : m[i] <= n /\ (i < 10 => n < m[i + 1])
    BY <2>1
  <2>3. mo = i
    BY <1>1, <1>8, <2>2
  <2>4. jd = n - m[i] + 1
    BY <2>2, <2>3 DEF DayIn
  <2> QED BY <1>1, <1>5, <1>6, <1>9, <2>2, <2>3, <2>4
<1>10. CASE n < 80
  <2>1. CASE n < m[11]
    <3>1. mo = 10
      BY <1>8, <2>1
    <3>2. jd = n + 10 + l
      BY <1>1, <1>10, <3>1 DEF DayIn, l
    <3> QED BY <1>1, <1>5, <1>6, <1>7, <1>10, <2>1, <3>1, <3>2
  <2>2. CASE m[11] <= n /\ n < m[12]
    <3>1. mo = 11
      BY <1>8, <2>2
    <3>2. jd = n - m[11] + 1
      BY <2>2, <3>1 DEF DayIn
    <3> QED BY <1>1, <1>5, <1>6, <1>7, <1>10, <2>2, <3>1, <3>2
  <2>3. CASE m[12] <= n
    <3>1. mo = 12
      BY <1>8, <1>10, <2>3
    <3>2. jd = n - m[12] + 1
      BY <2>3, <3>1 DEF DayIn
    <3> QED BY <1>1, <1>4, <1>5, <1>6, <1>7, <1>10, <2>3, <3>1, <3>2 DEF l
  <2> QED BY <1>1, <1>7, <2>1, <2>2, <2>3
<1> QED BY <1>9, <1>10

\* CalcToG yields a day of the Gregorian calendar, likewise.
LEMMA CalcToGDay ==
    ASSUME NEW y \in Int, NEW n \in Int, 1 <= n,
           n <= IF IsLeapYearJ(y) THEN 366 ELSE 365
    PROVE  LET g == CalcToG[<<y, n>>]
               e == IF IsLeapYearJ(y) THEN 287 ELSE 286
           IN  /\ g \in Date
               /\ g[1] = IF n <= e THEN y + 621 ELSE y + 622
               /\ g[2] \in 1..12
               /\ g[3] \in 1..MonthsG(g[1])[g[2]]
               /\ DayOfYearG(g) = IF n <= e THEN n + 79 ELSE n - e
<1> DEFINE m == MatchG(y)
           mo == MonthOf(n, m, 3)
           l == IF IsLeapYearJ(y) THEN 1 ELSE 0
           k == IF IsLeapYearJ(y) \/ IsLeapYearJ(y + 1) THEN 1 ELSE 0
           gy == IF n <= 286 + l THEN y + 621 ELSE y + 622
           z == IF IsLeapYearG(gy) THEN 1 ELSE 0
           gd == DayIn(mo, n, m, IF IsLeapYearJ(y) THEN 19 ELSE 20)
           M == MonthsG(gy)
<1>1. /\ m[1] = 287 + l /\ m[2] = 318 + l /\ m[3] = 346 + k /\ m[4] = 12 + l /\ m[5] = 42 + l
      /\ m[6] = 73 + l /\ m[7] = 103 + l /\ m[8] = 134 + l /\ m[9] = 165 + l
      /\ m[10] = 195 + l /\ m[11] = 226 + l /\ m[12] = 256 + l /\ m[13] = 999
  BY DEF MatchG, March
<1>2. CalcToG[<<y, n>>] = <<gy, mo, gd>>
  BY <1>1 DEF CalcToG
<1>3. DayOfYearG(<<gy, mo, gd>>) = DaysOf(MonthsG(gy), mo - 1) + gd
  BY DEF DayOfYearG
<1>4. /\ n <= 286 + l => z = l
      /\ n > 286 + l /\ l = 1 => z = 0
      /\ n > 286 + l /\ l = 0 => k = z
      /\ l = 1 => k = 1
  <2>1. IsLeapYearJ(y) <=> IsLeapYearG(y + 621)
    BY LeapYearsMatch
  <2>2. IsLeapYearJ(y + 1) <=> IsLeapYearG(y + 622)
    <3>1. y + 1 \in Int /\ (y + 1) + 621 = y + 622
      OBVIOUS
    <3> QED BY <3>1, LeapYearsMatch
  <2>3. ~(IsLeapYearJ(y) /\ IsLeapYearJ(y + 1))
    BY DEF IsLeapYearJ, Modulus
  <2> QED BY <2>1, <2>2, <2>3
<1>5. /\ M[1] = 31 /\ M[2] = 28 + z /\ M[3] = 31 /\ M[4] = 30
      /\ M[5] = 31 /\ M[6] = 30 /\ M[7] = 31 /\ M[8] = 31 /\ M[9] = 30 /\ M[10] = 31
      /\ M[11] = 30 /\ M[12] = 31
  BY DEF MonthsG
<1>6. /\ DaysOf(M, 0) = 0        /\ DaysOf(M, 1) = 31       /\ DaysOf(M, 2) = 59 + z
      /\ DaysOf(M, 3) = 90 + z   /\ DaysOf(M, 4) = 120 + z  /\ DaysOf(M, 5) = 151 + z
      /\ DaysOf(M, 6) = 181 + z  /\ DaysOf(M, 7) = 212 + z  /\ DaysOf(M, 8) = 243 + z
      /\ DaysOf(M, 9) = 273 + z  /\ DaysOf(M, 10) = 304 + z /\ DaysOf(M, 11) = 334 + z
  BY SumsG
<1>7. l \in 0..1 /\ k \in 0..1 /\ z \in 0..1 /\ n \in 1..(365 + l) /\ gy \in Int
  OBVIOUS
<1> SUFFICES /\ mo \in 1..12 /\ gd \in 1..M[mo]
             /\ DaysOf(M, mo - 1) + gd = IF n <= 286 + l THEN n + 79 ELSE n - 286 - l
  BY <1>2, <1>3, <1>5, <1>7 DEF Date
<1>8. ASSUME NEW i \in 1..12,
             \/ i \in 1..2 /\ m[i] <= n /\ n < m[i + 1]
             \/ i = 3 /\ (m[3] <= n \/ n < m[4])
             \/ i \in 4..11 /\ m[i] <= n /\ n < m[i + 1]
             \/ i = 12 /\ m[12] <= n /\ n < m[1]
      PROVE  mo = i
  <2> HIDE DEF m, l, k, z, gy, M
  <2>1. Covers(n, m, 3, i)
    BY <1>1, <1>7, <1>8 DEF Covers
  <2>2. \A h \in 1..(i - 1) : ~Covers(n, m, 3, h)
    BY <1>1, <1>7, <1>8 DEF Covers
  <2> QED BY <2>1, <2>2, FirstIsMonth
<1>9. \E i \in 1..12 :
         \/ i \in 1..2 /\ m[i] <= n /\ n < m[i + 1]
         \/ i = 3 /\ (m[3] <= n \/ n < m[4])
         \/ i \in 4..11 /\ m[i] <= n /\ n < m[i + 1]
         \/ i = 12 /\ m[12] <= n /\ n < m[1]
  <2> HIDE DEF m, l, k, z, gy, M
  <2> QED BY <1>1, <1>7
<1>10. PICK i \in 1..12 :
         \/ i \in 1..2 /\ m[i] <= n /\ n < m[i + 1]
         \/ i = 3 /\ (m[3] <= n \/ n < m[4])
         \/ i \in 4..11 /\ m[i] <= n /\ n < m[i + 1]
         \/ i = 12 /\ m[12] <= n /\ n < m[1]
  BY <1>9
<1>11. mo = i
  BY <1>8, <1>10
<1>12. gd = IF n >= m[i] THEN n - m[i] + 1 ELSE n + 20 - l
  BY <1>11 DEF DayIn
<1> HIDE DEF m, mo, l, k, z, gy, gd, M
<1>13. CASE i \in 1..2
  BY <1>1, <1>4, <1>5, <1>6, <1>7, <1>10, <1>11, <1>12, <1>13
<1>14. CASE i = 3
  BY <1>1, <1>4, <1>5, <1>6, <1>7, <1>10, <1>11, <1>12, <1>14
<1>15. CASE i \in 4..12
  BY <1>1, <1>4, <1>5, <1>6, <1>7, <1>10, <1>11, <1>12, <1>15
<1> QED BY <1>13, <1>14, <1>15

\* A day of a Gregorian year is determined by its number.
LEMMA UniqueG ==
    ASSUME NEW a \in Date, NEW b \in Date, a[1] = b[1],
           a[2] \in 1..12, a[3] \in 1..MonthsG(a[1])[a[2]],
           b[2] \in 1..12, b[3] \in 1..MonthsG(b[1])[b[2]],
           DayOfYearG(a) = DayOfYearG(b)
    PROVE  a = b
<1> DEFINE M == MonthsG(a[1])
           z == IF IsLeapYearG(a[1]) THEN 1 ELSE 0
<1>1. /\ M[1] = 31 /\ M[2] = 28 + z /\ M[3] = 31 /\ M[4] = 30
      /\ M[5] = 31 /\ M[6] = 30 /\ M[7] = 31 /\ M[8] = 31 /\ M[9] = 30 /\ M[10] = 31
      /\ M[11] = 30 /\ M[12] = 31
  BY DEF MonthsG
<1>2. a[1] \in Int /\ a[2] \in Int /\ a[3] \in Int /\ b[3] \in Int
      /\ a = <<a[1], a[2], a[3]>> /\ b = <<b[1], b[2], b[3]>>
  BY DEF Date
<1>3. /\ DaysOf(M, 0) = 0        /\ DaysOf(M, 1) = 31       /\ DaysOf(M, 2) = 59 + z
      /\ DaysOf(M, 3) = 90 + z   /\ DaysOf(M, 4) = 120 + z  /\ DaysOf(M, 5) = 151 + z
      /\ DaysOf(M, 6) = 181 + z  /\ DaysOf(M, 7) = 212 + z  /\ DaysOf(M, 8) = 243 + z
      /\ DaysOf(M, 9) = 273 + z  /\ DaysOf(M, 10) = 304 + z /\ DaysOf(M, 11) = 334 + z
  BY <1>2, SumsG
<1>4. DaysOf(M, a[2] - 1) + a[3] = DaysOf(M, b[2] - 1) + b[3]
  BY DEF DayOfYearG
<1>5. z \in 0..1
  OBVIOUS
<1> HIDE DEF M, z
<1>6. \A i \in 1..12, h \in 1..12 : i < h => DaysOf(M, i - 1) + M[i] <= DaysOf(M, h - 1)
  BY <1>1, <1>3, <1>5
<1>7. \A i \in 1..12 : DaysOf(M, i - 1) \in Int /\ M[i] \in Int
  BY <1>1, <1>3, <1>5
<1>8. a[3] \in 1..M[a[2]] /\ b[3] \in 1..M[b[2]]
  BY DEF M
<1>9. a[2] = b[2]
  BY <1>2, <1>4, <1>6, <1>7, <1>8
<1>10. a[3] = b[3]
  BY <1>2, <1>4, <1>7, <1>9
<1> QED BY <1>2, <1>9, <1>10

\* A day of a Jalali year is determined by its number, in whichever year the
\* last month has 30 days.
LEMMA UniqueInYear ==
    ASSUME NEW a \in Date, NEW b \in Date, a[1] = b[1],
           a[2] \in 1..12, a[3] \in 1..(IF a[2] < 7 THEN 31 ELSE 30),
           b[2] \in 1..12, b[3] \in 1..(IF b[2] < 7 THEN 31 ELSE 30),
           DayOfYearJ(a) = DayOfYearJ(b)
    PROVE  a = b
<1> DEFINE M == MonthsJ(a[1])
<1>1. a[1] \in Int /\ a[2] \in Int /\ a[3] \in Int /\ b[3] \in Int
      /\ a = <<a[1], a[2], a[3]>> /\ b = <<b[1], b[2], b[3]>>
  BY DEF Date
<1>2. \A k \in 0..11 : DaysOf(M, k) = IF k < 7 THEN 31 * k ELSE 30 * k + 6
  BY <1>1, SumsJ
<1>3. DaysOf(M, a[2] - 1) + a[3] = DaysOf(M, b[2] - 1) + b[3]
  BY DEF DayOfYearJ
<1> HIDE DEF M
<1>4. a[2] = b[2]
  BY <1>1, <1>2, <1>3
<1>5. a[3] = b[3]
  BY <1>1, <1>2, <1>3, <1>4
<1> QED BY <1>1, <1>4, <1>5

\* Such a day exists in CDate's calendar.
LEMMA UniqueJ ==
    ASSUME NEW a \in Date, NEW b \in Date, a[1] = b[1],
           a[2] \in 1..12, a[3] \in 1..MonthsJ(a[1])[a[2]],
           b[2] \in 1..12, b[3] \in 1..MonthsJ(b[1])[b[2]],
           DayOfYearJ(a) = DayOfYearJ(b)
    PROVE  a = b
<1>1. \A i \in 1..12 : MonthsJ(a[1])[i] \in 29..31
                      /\ MonthsJ(a[1])[i] <= IF i < 7 THEN 31 ELSE 30
  BY DEF MonthsJ
<1>2. a[3] \in 1..(IF a[2] < 7 THEN 31 ELSE 30) /\ b[3] \in 1..(IF b[2] < 7 THEN 31 ELSE 30)
  BY <1>1
<1> QED BY <1>2, UniqueInYear

\* The numbers of the days that exist.
LEMMA YearDays ==
    ASSUME NEW d \in Date, d[2] \in 1..12
    PROVE  /\ d[3] \in 1..MonthsG(d[1])[d[2]] =>
                DayOfYearG(d) \in 1..(IF IsLeapYearG(d[1]) THEN 366 ELSE 365)
           /\ d[3] \in 1..MonthsJ(d[1])[d[2]] =>
                DayOfYearJ(d) \in 1..(IF IsLeapYearJ(d[1]) THEN 366 ELSE 365)
<1> DEFINE y == d[1]
           z == IF IsLeapYearG(y) THEN 1 ELSE 0
           M == MonthsG(y)
           N == MonthsJ(y)
<1>1. y \in Int /\ d[3] \in Int
  BY DEF Date
<1>2. /\ M[1] = 31 /\ M[2] = 28 + z /\ M[3] = 31 /\ M[4] = 30
      /\ M[5] = 31 /\ M[6] = 30 /\ M[7] = 31 /\ M[8] = 31 /\ M[9] = 30 /\ M[10] = 31
      /\ M[11] = 30 /\ M[12] = 31
  BY DEF MonthsG
<1>3. /\ DaysOf(M, 0) = 0        /\ DaysOf(M, 1) = 31       /\ DaysOf(M, 2) = 59 + z
      /\ DaysOf(M, 3) = 90 + z   /\ DaysOf(M, 4) = 120 + z  /\ DaysOf(M, 5) = 151 + z
      /\ DaysOf(M, 6) = 181 + z  /\ DaysOf(M, 7) = 212 + z  /\ DaysOf(M, 8) = 243 + z
      /\ DaysOf(M, 9) = 273 + z  /\ DaysOf(M, 10) = 304 + z /\ DaysOf(M, 11) = 334 + z
  BY <1>1, SumsG
<1>4. /\ N[12] = IF IsLeapYearJ(y) THEN 30 ELSE 29
      /\ \A i \in 1..11 : N[i] = IF i < 7 THEN 31 ELSE 30
  BY DEF MonthsJ
<1>5. \A k \in 0..11 : DaysOf(N, k) = IF k < 7 THEN 31 * k ELSE 30 * k + 6
  BY <1>1, SumsJ
<1>6. z \in 0..1 /\ (z = 1 <=> IsLeapYearG(y))
  OBVIOUS
<1> HIDE DEF M, N, z
<1>7. d[3] \in 1..M[d[2]] => DaysOf(M, d[2] - 1) + d[3] \in 1..(365 + z)
  BY <1>1, <1>2, <1>3, <1>6
<1>8. d[3] \in 1..N[d[2]] =>
         DaysOf(N, d[2] - 1) + d[3] \in 1..(IF IsLeapYearJ(y) THEN 366 ELSE 365)
  BY <1>1, <1>4, <1>5
<1> QED BY <1>6, <1>7, <1>8 DEF M, N, DayOfYearG, DayOfYearJ

\* ToGregorian undoes ToJalali on a Gregorian date exactly when the Jalali year
\* is above the bound of IsRangeValidJ, that is from March of 522 on; of every
\* earlier date that ToJalali accepts it makes the empty text.
THEOREM GregorianReturns ==
    ASSUME NEW date \in Date, IsRangeValidG(date)
    PROVE  ToGregorian[ToJalali[date]] = IF ToJalali[date][1] > -100 THEN date ELSE <<>>
<1> DEFINE y == date[1]
           n == DayOfYearG(date)
           j == CalcToJ[<<y, n>>]
           g == CalcToG[<<j[1], DayOfYearJ(j)>>]
<1>1. y \in Int /\ y < 10000
      /\ date[2] \in 1..12 /\ date[3] \in 1..MonthsG(y)[date[2]]
  BY DEF Date, IsRangeValidG
<1>2. n \in 1..(IF IsLeapYearG(y) THEN 366 ELSE 365)
  BY <1>1, YearDays
<1>3. /\ j \in Date
      /\ j[1] = IF n > 79 THEN y - 621 ELSE y - 622
      /\ j[2] \in 1..12
      /\ j[3] \in 1..MonthsJ(j[1])[j[2]]
      /\ DayOfYearJ(j) = IF n > 79 THEN n - 79
                         ELSE IF IsLeapYearG(y - 1) THEN n + 287 ELSE n + 286
  <2>1. y \in Int /\ n \in Int /\ 1 <= n /\ n <= 366
    BY <1>1, <1>2
  <2> HIDE DEF n, y
  <2> QED BY <2>1, CalcToJDay
<1>4. IsRangeValidJ(j) <=> j[1] > -100
  BY <1>1, <1>2, <1>3 DEF IsRangeValidJ
<1>5. /\ ToJalali[date] = j
      /\ ToGregorian[ToJalali[date]] = IF j[1] > -100 THEN g ELSE <<>>
  <2>1. ToJalali[date] = j
    BY DEF ToJalali
  <2> HIDE DEF j
  <2> QED BY <1>3, <1>4, <2>1 DEF ToGregorian
<1> HIDE DEF j, n
<1>6. j[1] \in Int /\ DayOfYearJ(j) \in 1..(IF IsLeapYearJ(j[1]) THEN 366 ELSE 365)
  BY <1>3, YearDays DEF Date
<1>7. (IsLeapYearJ(y - 622) <=> IsLeapYearG(y - 1)) /\ (IsLeapYearJ(y - 621) <=> IsLeapYearG(y))
  <2>1. y - 622 \in Int /\ (y - 622) + 621 = y - 1 /\ y - 621 \in Int /\ (y - 621) + 621 = y
    BY <1>1
  <2> QED BY <2>1, LeapYearsMatch
<1>8. /\ g \in Date
      /\ g[1] = y
      /\ g[2] \in 1..12
      /\ g[3] \in 1..MonthsG(g[1])[g[2]]
      /\ DayOfYearG(g) = n
  <2> DEFINE e == IF IsLeapYearJ(j[1]) THEN 287 ELSE 286
             h == DayOfYearJ(j)
  <2>1. h \in Int /\ 1 <= h /\ h <= IF IsLeapYearJ(j[1]) THEN 366 ELSE 365
    BY <1>6
  <2>2. /\ g \in Date
        /\ g[1] = IF h <= e THEN j[1] + 621 ELSE j[1] + 622
        /\ g[2] \in 1..12
        /\ g[3] \in 1..MonthsG(g[1])[g[2]]
        /\ DayOfYearG(g) = IF h <= e THEN h + 79 ELSE h - e
    BY <1>6, <2>1, CalcToGDay
  <2> HIDE DEF g
  <2>3. CASE n > 79
    BY <1>1, <1>2, <1>3, <1>7, <2>2, <2>3
  <2>4. CASE n <= 79
    BY <1>1, <1>2, <1>3, <1>7, <2>2, <2>4
  <2> QED BY <1>2, <2>3, <2>4
<1>9. g = date
  BY <1>1, <1>8, UniqueG DEF n
<1> QED BY <1>5, <1>9

\* ToJalali undoes ToGregorian on a Jalali date exactly when the Gregorian year
\* has four digits, that is up to the winter of 9378; of every later date that
\* ToGregorian accepts it makes the empty text.
THEOREM JalaliReturns ==
    ASSUME NEW date \in Date, IsRangeValidJ(date)
    PROVE  ToJalali[ToGregorian[date]] = IF ToGregorian[date][1] < 10000 THEN date ELSE <<>>
<1> DEFINE y == date[1]
           n == DayOfYearJ(date)
           g == CalcToG[<<y, n>>]
           j == CalcToJ[<<g[1], DayOfYearG(g)>>]
           e == IF IsLeapYearJ(y) THEN 287 ELSE 286
<1>1. y \in Int /\ -100 < y
      /\ date[2] \in 1..12 /\ date[3] \in 1..MonthsJ(y)[date[2]]
  BY DEF Date, IsRangeValidJ
<1>2. n \in 1..(IF IsLeapYearJ(y) THEN 366 ELSE 365)
  BY <1>1, YearDays
<1>3. /\ g \in Date
      /\ g[1] = IF n <= e THEN y + 621 ELSE y + 622
      /\ g[2] \in 1..12
      /\ g[3] \in 1..MonthsG(g[1])[g[2]]
      /\ DayOfYearG(g) = IF n <= e THEN n + 79 ELSE n - e
  <2>1. y \in Int /\ n \in Int /\ 1 <= n /\ n <= IF IsLeapYearJ(y) THEN 366 ELSE 365
    BY <1>1, <1>2
  <2> HIDE DEF n, y
  <2> QED BY <2>1, CalcToGDay
<1>4. IsRangeValidG(g) <=> g[1] < 10000
  BY <1>1, <1>2, <1>3 DEF IsRangeValidG
<1>5. /\ ToGregorian[date] = g
      /\ ToJalali[ToGregorian[date]] = IF g[1] < 10000 THEN j ELSE <<>>
  <2>1. ToGregorian[date] = g
    BY DEF ToGregorian
  <2> HIDE DEF g
  <2> QED BY <1>3, <1>4, <2>1 DEF ToJalali
<1> HIDE DEF g, n
<1>6. g[1] \in Int /\ DayOfYearG(g) \in 1..366
  <2>1. DayOfYearG(g) \in 1..(IF IsLeapYearG(g[1]) THEN 366 ELSE 365)
    BY <1>3, YearDays
  <2>2. \A d \in Date : d[1] \in Int
    BY DEF Date
  <2>3. g \in Date
    BY <1>3
  <2> QED BY <2>1, <2>2, <2>3
<1>7. IsLeapYearJ(y) <=> IsLeapYearG(y + 621)
  BY <1>1, LeapYearsMatch
<1>8. /\ j \in Date
      /\ j[1] = y
      /\ j[2] \in 1..12
      /\ j[3] \in 1..MonthsJ(j[1])[j[2]]
      /\ DayOfYearJ(j) = n
  <2>0. DayOfYearG(g) \in Int /\ 1 <= DayOfYearG(g) /\ DayOfYearG(g) <= 366
    BY <1>6
  <2>1. /\ j \in Date
        /\ j[1] = IF DayOfYearG(g) > 79 THEN g[1] - 621 ELSE g[1] - 622
        /\ j[2] \in 1..12
        /\ j[3] \in 1..MonthsJ(j[1])[j[2]]
        /\ DayOfYearJ(j) = IF DayOfYearG(g) > 79 THEN DayOfYearG(g) - 79
                           ELSE IF IsLeapYearG(g[1] - 1) THEN DayOfYearG(g) + 287
                           ELSE DayOfYearG(g) + 286
    BY <1>6, <2>0, CalcToJDay
  <2> HIDE DEF j
  <2>2. CASE n <= e
    BY <1>1, <1>2, <1>3, <2>1, <2>2
  <2>3. CASE n > e
    <3>1. g[1] - 1 = y + 621 /\ DayOfYearG(g) <= 79
      BY <1>1, <1>2, <1>3, <2>3
    <3> QED BY <1>1, <1>2, <1>3, <1>7, <2>1, <2>3, <3>1
  <2> QED BY <1>2, <2>2, <2>3
<1>9. j = date
  BY <1>1, <1>8, UniqueJ DEF n
<1> QED BY <1>5, <1>9

\* From 1901 to 2099 the day after is the one that CDate's leap rule has.
LEMMA NextDayG ==
    ASSUME NEW d \in Date, d[1] \in 1901..2099, d[2] \in 1..12,
           d[3] \in 1..MonthsG(d[1])[d[2]]
    PROVE  LET e == DayAfter(d, CivilMonthsG(d[1]))
           IN  /\ e \in Date /\ e[2] \in 1..12 /\ e[3] \in 1..MonthsG(e[1])[e[2]]
               /\ \/ e[1] = d[1] /\ DayOfYearG(e) = DayOfYearG(d) + 1
                  \/ /\ e[1] = d[1] + 1 /\ DayOfYearG(e) = 1
                     /\ DayOfYearG(d) = IF IsLeapYearG(d[1]) THEN 366 ELSE 365
<1> DEFINE y == d[1]
           M == MonthsG(y)
           z == IF IsLeapYearG(y) THEN 1 ELSE 0
           e == DayAfter(d, CivilMonthsG(y))
<1>1. y \in Int /\ d[2] \in Int /\ d[3] \in Int /\ d = <<y, d[2], d[3]>>
  BY DEF Date
<1>2. CivilMonthsG(y) = M
  <2>1. CivilLeapG(y) <=> IsLeapYearG(y)
    BY DEF CivilLeapG, IsLeapYearG, Modulus
  <2> QED BY <2>1 DEF CivilMonthsG, MonthsG
<1>3. /\ M[1] = 31 /\ M[2] = 28 + z /\ M[3] = 31 /\ M[4] = 30
      /\ M[5] = 31 /\ M[6] = 30 /\ M[7] = 31 /\ M[8] = 31 /\ M[9] = 30 /\ M[10] = 31
      /\ M[11] = 30 /\ M[12] = 31
  BY DEF MonthsG
<1>4. /\ DaysOf(M, 0) = 0
      /\ \A i \in 1..11 : DaysOf(M, i) = DaysOf(M, i - 1) + M[i]
  <2>1. \A i \in 1..11 : M[i] \in Int
    BY <1>3
  <2> HIDE DEF M
  <2> QED BY <2>1, DaysOfSteps
<1>5. DaysOf(M, 11) = 334 + z
  BY <1>1, SumsG
<1>6. MonthsG(y + 1)[1] = 31 /\ DaysOf(MonthsG(y + 1), 0) = 0
  <2>1. y + 1 \in Int
    BY <1>1
  <2> QED BY <2>1, SumsG DEF MonthsG
<1>7. z \in 0..1 /\ (z = 1 <=> IsLeapYearG(y))
  OBVIOUS
<1>8. \A i \in 1..12 : M[i] \in Int /\ M[i] >= 28 /\ DaysOf(M, i - 1) \in Int
  BY <1>1, <1>3, <1>7, SumsG
<1>9. CASE d[3] < M[d[2]]
  <2>1. e = <<y, d[2], d[3] + 1>>
    BY <1>2, <1>9 DEF DayAfter
  <2> QED BY <1>1, <1>8, <1>9, <2>1 DEF Date, DayOfYearG
<1>10. CASE d[3] = M[d[2]] /\ d[2] < 12
  <2>1. e = <<y, d[2] + 1, 1>>
    BY <1>1, <1>2, <1>10 DEF DayAfter
  <2>2. DaysOf(M, d[2]) = DaysOf(M, d[2] - 1) + M[d[2]]
    BY <1>1, <1>4, <1>10
  <2> HIDE DEF M, e
  <2>3. DayOfYearG(e) = DaysOf(M, d[2]) + 1 /\ DayOfYearG(d) = DaysOf(M, d[2] - 1) + M[d[2]]
    BY <1>1, <1>10, <2>1 DEF DayOfYearG, M
  <2>4. e \in Date /\ e[1] = y /\ e[2] \in 1..12 /\ e[3] \in 1..M[e[2]]
    BY <1>1, <1>8, <1>10, <2>1 DEF Date
  <2> QED BY <1>8, <2>2, <2>3, <2>4 DEF M, e
<1>11. CASE d[3] = M[d[2]] /\ d[2] = 12
  <2>1. e = <<y + 1, 1, 1>>
    BY <1>1, <1>2, <1>11 DEF DayAfter
  <2>2. DayOfYearG(d) = 365 + z
    BY <1>3, <1>5, <1>7, <1>11 DEF DayOfYearG
  <2>3. DayOfYearG(e) = 1
    BY <1>6, <2>1 DEF DayOfYearG
  <2> QED BY <1>1, <1>6, <1>7, <2>1, <2>2, <2>3 DEF Date
<1> QED BY <1>1, <1>8, <1>9, <1>10, <1>11

\* The number of a converted day, in terms of the Gregorian one.
LEMMA NumberOf ==
    ASSUME NEW y \in Int, NEW n \in Int, 1 <= n, n <= 366
    PROVE  DayNumber(CalcToJ[<<y, n>>]) =
             IF n > 79 THEN 365 * (y - 621) + (y - 621) \div 4 + n - 79
             ELSE 365 * (y - 622) + (y - 622) \div 4 + n
                  + IF IsLeapYearG(y - 1) THEN 287 ELSE 286
<1> DEFINE j == CalcToJ[<<y, n>>]
<1>1. /\ j[1] = IF n > 79 THEN y - 621 ELSE y - 622
      /\ DayOfYearJ(j) = IF n > 79 THEN n - 79
                         ELSE IF IsLeapYearG(y - 1) THEN n + 287 ELSE n + 286
  BY CalcToJDay
<1> HIDE DEF j
<1>2. DayNumber(j) = 365 * j[1] + j[1] \div 4 + DayOfYearJ(j)
  BY DEF DayNumber
<1>3. CASE n > 79
  <2>1. j[1] = y - 621 /\ DayOfYearJ(j) = n - 79
    BY <1>1, <1>3
  <2>2. DayNumber(j) = 365 * (y - 621) + (y - 621) \div 4 + (n - 79)
    BY <1>2, <2>1
  <2> QED BY <1>3, <2>2 DEF j
<1>4. CASE n <= 79
  <2>1. j[1] = y - 622 /\ DayOfYearJ(j) = n + (IF IsLeapYearG(y - 1) THEN 287 ELSE 286)
    BY <1>1, <1>4
  <2>2. DayNumber(j) = 365 * (y - 622) + (y - 622) \div 4
                       + (n + (IF IsLeapYearG(y - 1) THEN 287 ELSE 286))
    BY <1>2, <2>1
  <2> QED BY <1>4, <2>2 DEF j
<1> QED BY <1>3, <1>4

\* The day after has the next number.
LEMMA NextNumber ==
    ASSUME NEW y \in Int, NEW n \in Int, 1 <= n, n < 366
    PROVE  DayNumber(CalcToJ[<<y, n + 1>>]) = DayNumber(CalcToJ[<<y, n>>]) + 1
<1>1. IsLeapYearG(y - 1) <=> (y - 1) % 4 = 0
  BY DEF IsLeapYearG, Modulus
<1>2. n + 1 \in Int /\ 1 <= n + 1 /\ n + 1 <= 366 /\ n <= 366
  OBVIOUS
<1> DEFINE N(k) == DayNumber(CalcToJ[<<y, k>>])
<1>3. N(n) = IF n > 79 THEN 365 * (y - 621) + (y - 621) \div 4 + n - 79
             ELSE 365 * (y - 622) + (y - 622) \div 4 + n
                  + IF IsLeapYearG(y - 1) THEN 287 ELSE 286
  BY <1>2, NumberOf
<1>4. N(n + 1) = IF n + 1 > 79 THEN 365 * (y - 621) + (y - 621) \div 4 + (n + 1) - 79
             ELSE 365 * (y - 622) + (y - 622) \div 4 + (n + 1)
                  + IF IsLeapYearG(y - 1) THEN 287 ELSE 286
  BY <1>2, NumberOf
<1> HIDE DEF N
<1>5. N(n + 1) = N(n) + 1
  BY <1>1, <1>3, <1>4
<1> QED BY <1>5 DEF N

\* So has the first day of the next year.
LEMMA NextYearNumber ==
    ASSUME NEW y \in Int, NEW n \in Int, n = IF IsLeapYearG(y) THEN 366 ELSE 365
    PROVE  DayNumber(CalcToJ[<<y + 1, 1>>]) = DayNumber(CalcToJ[<<y, n>>]) + 1
<1>1. y + 1 \in Int /\ n \in {365, 366} /\ (y + 1) - 1 = y /\ (y + 1) - 622 = y - 621
  OBVIOUS
<1>2. DayNumber(CalcToJ[<<y, n>>]) = 365 * (y - 621) + (y - 621) \div 4 + n - 79
  BY <1>1, NumberOf
<1>3. DayNumber(CalcToJ[<<y + 1, 1>>]) = 365 * (y - 621) + (y - 621) \div 4 + 1
                + IF IsLeapYearG(y) THEN 287 ELSE 286
  <2>1. 1 \in Int /\ 1 <= 1 /\ 1 <= 366
    OBVIOUS
  <2> QED BY <1>1, <2>1, NumberOf
<1> QED BY <1>1, <1>2, <1>3

---------------------------------------------------------------------------
(* The clock. *)

\* The Jalali dates of the clock's years are in range.
LEMMA JalaliInRange ==
    ASSUME NEW y \in Int, y \in 1901..2099, NEW n \in Int, 1 <= n, n <= 366
    PROVE  IsRangeValidJ(CalcToJ[<<y, n>>])
<1>1. /\ CalcToJ[<<y, n>>][1] \in (y - 622)..(y - 621)
      /\ CalcToJ[<<y, n>>][2] \in 1..12
      /\ CalcToJ[<<y, n>>][3] \in 1..MonthsJ(CalcToJ[<<y, n>>][1])[CalcToJ[<<y, n>>][2]]
  BY CalcToJDay
<1> QED BY <1>1 DEF IsRangeValidJ

\* The civil calendar stays on its days.
LEMMA NextDayJ ==
    ASSUME NEW d \in Date, d[2] \in 1..12, d[3] \in 1..CivilMonthsJ(d[1])[d[2]]
    PROVE  LET e == DayAfter(d, CivilMonthsJ(d[1]))
           IN  e \in Date /\ e[2] \in 1..12 /\ e[3] \in 1..CivilMonthsJ(e[1])[e[2]]
<1>1. \A y \in Int : \A i \in 1..12 : CivilMonthsJ(y)[i] \in 29..31
  BY DEF CivilMonthsJ
<1>2. d[1] \in Int /\ d[3] \in Int /\ d[1] + 1 \in Int
  BY DEF Date
<1> QED BY <1>1, <1>2 DEF DayAfter, Date

\* What the clock's invariant says of tm, and the weekday.
ClockInv ==
    /\ TypeOK
    /\ (tm.wday + 1) % 7 = DayNumber(ToJalaliNow(Now)) % 7

\* Today in terms of tm, and its conversion.
LEMMA TodayIs ==
    ASSUME TypeOK
    PROVE  /\ Today = <<tm.year + 1900, tm.mon + 1, tm.mday>>
           /\ Today \in Date /\ Today[1] \in 1901..2099 /\ Today[2] \in 1..12
           /\ Today[3] \in 1..MonthsG(Today[1])[Today[2]]
           /\ Now.DayOfYear = tm.yday + 1
           /\ ToJalaliNow(Now) = CalcToJ[<<Today[1], DayOfYearG(Today)>>]
           /\ DayOfYearG(Today) \in 1..(IF IsLeapYearG(Today[1]) THEN 366 ELSE 365)
<1>1. Today = <<tm.year + 1900, tm.mon + 1, tm.mday>>
  BY DEF Today, ToGregorianNow, Now
<1>2. Today \in Date /\ Today[1] \in 1901..2099
  BY <1>1, StartAssumption, YearsAssumption DEF TypeOK, Date
<1>3. Today[2] \in 1..12 /\ Today[3] \in 1..MonthsG(Today[1])[Today[2]]
  BY DEF TypeOK, IsRangeValidG
<1>4. Now.DayOfYear = tm.yday + 1 /\ Now.Year = tm.year + 1900
  BY DEF Now
<1>5. ToJalaliNow(Now) = CalcToJ[<<Today[1], DayOfYearG(Today)>>]
  BY <1>1, <1>4 DEF TypeOK, ToJalaliNow
<1>6. DayOfYearG(Today) \in 1..(IF IsLeapYearG(Today[1]) THEN 366 ELSE 365)
  BY <1>2, <1>3, YearDays
<1> QED BY <1>1, <1>2, <1>3, <1>4, <1>5, <1>6

\* The clock starts right.
LEMMA ClockInit == Init => ClockInv
<1> SUFFICES ASSUME Init PROVE ClockInv
  OBVIOUS
<1> DEFINE d == Start.date
           n == DayOfYearG(d)
<1>1. d \in Date /\ d = <<d[1], d[2], d[3]>> /\ d[1] \in 1901..2099
      /\ d[2] \in 1..12 /\ d[3] \in 1..MonthsG(d[1])[d[2]]
  BY StartAssumption, YearsAssumption DEF Date, IsRangeValidG
<1>2. n \in 1..(IF IsLeapYearG(d[1]) THEN 366 ELSE 365)
  BY <1>1, YearDays
<1>3. \A i \in 1..12 : MonthsG(d[1])[i] \in 28..31
  BY DEF MonthsG
<1>4. Today = d /\ Now.Year = d[1] /\ Now.DayOfYear = n
  <2>1. d[1] \in Int /\ d[2] \in Int /\ d[3] \in Int
    BY <1>1 DEF Date
  <2>2. /\ tm.year = d[1] - 1900 /\ tm.mon = d[2] - 1 /\ tm.mday = d[3]
        /\ tm.yday = Start.yday
    BY DEF Init
  <2>3. tm.year + 1900 = d[1] /\ tm.mon + 1 = d[2] /\ tm.yday + 1 = n
    BY <2>1, <2>2, StartAssumption
  <2>4. Now.Year = d[1] /\ Now.Month = d[2] /\ Now.DayOfMonth = d[3] /\ Now.DayOfYear = n
    BY <2>2, <2>3 DEF Now
  <2> QED BY <1>1, <2>4 DEF Today, ToGregorianNow
<1>5. tm \in [wday : 0..6, yday : 0..365,
              mday : 1..31, mon : 0..11, year : Int]
  <2>1. Start.yday \in 0..365
    BY <1>2, StartAssumption
  <2> QED BY <1>1, <1>3, <2>1, StartAssumption DEF Init, Date
<1>6. ToJalaliNow(Now) = CalcToJ[<<d[1], n>>] /\ ToJalali[d] = CalcToJ[<<d[1], n>>]
  BY <1>4, StartAssumption DEF ToJalaliNow, ToJalali
<1>7. IsRangeValidJ(CalcToJ[<<d[1], n>>])
  <2>1. d[1] \in Int /\ n \in Int /\ 1 <= n /\ n <= 366
    BY <1>1, <1>2
  <2> HIDE DEF n, d
  <2> QED BY <1>1, <2>1, JalaliInRange
<1>8. TypeOK
  BY <1>1, <1>4, <1>5, <1>6, <1>7, StartAssumption DEF TypeOK, Init
<1>9. (tm.wday + 1) % 7 = DayNumber(ToJalaliNow(Now)) % 7
  BY <1>6, StartAssumption DEF Init
<1> QED BY <1>8, <1>9 DEF ClockInv

\* Midnight keeps the invariant, and the converted day moves on by one.
LEMMA ClockMidnight ==
    ASSUME ClockInv, Midnight
    PROVE  /\ ClockInv'
           /\ DayNumber((ToJalaliNow(Now))') = DayNumber(ToJalaliNow(Now)) + 1
<1> DEFINE y == Today[1]
           n == DayOfYearG(Today)
           e == DayAfter(Today, CivilMonthsG(y))
<1>1. TypeOK
  BY DEF ClockInv
<1>2. /\ Today \in Date /\ y \in 1901..2099 /\ Today[2] \in 1..12
      /\ Today[3] \in 1..MonthsG(y)[Today[2]]
      /\ n \in 1..(IF IsLeapYearG(y) THEN 366 ELSE 365)
      /\ n = tm.yday + 1
      /\ ToJalaliNow(Now) = CalcToJ[<<y, n>>]
  BY <1>1, TodayIs DEF TypeOK
<1>3. /\ e \in Date /\ e[2] \in 1..12 /\ e[3] \in 1..MonthsG(e[1])[e[2]]
      /\ \/ e[1] = y /\ DayOfYearG(e) = n + 1
         \/ /\ e[1] = y + 1 /\ DayOfYearG(e) = 1
            /\ n = IF IsLeapYearG(y) THEN 366 ELSE 365
  BY <1>2, NextDayG
<1>4. /\ e[1] <= LastYear
      /\ tm' = [wday |-> (tm.wday + 1) % 7,
                yday |-> IF e[1] = y THEN tm.yday + 1 ELSE 0,
                mday |-> e[3], mon |-> e[2] - 1, year |-> e[1] - 1900]
      /\ civil' = DayAfter(civil, CivilMonthsJ(civil[1]))
  BY DEF Midnight
<1> HIDE DEF y, n, e
<1>5. e[1] \in Int /\ e[3] \in Int /\ e = <<e[1], e[2], e[3]>> /\ y \in Int
  BY <1>2, <1>3 DEF Date
<1>6. DayOfYearG(e) \in 1..(IF IsLeapYearG(e[1]) THEN 366 ELSE 365)
  BY <1>3, YearDays
<1>7. Today' = e /\ Now'.Year = e[1]
  BY <1>3, <1>4, <1>5 DEF Today, ToGregorianNow, Now
<1>8. tm'.yday + 1 = DayOfYearG(e) /\ Now'.DayOfYear = DayOfYearG(e)
  BY <1>2, <1>3, <1>4, <1>5 DEF Now
<1>9. (ToJalaliNow(Now))' = CalcToJ[<<e[1], DayOfYearG(e)>>]
  BY <1>7, <1>8 DEF ToJalaliNow
<1>10. e[1] \in Start.date[1]..LastYear /\ e[1] \in 1901..2099
  BY <1>1, <1>2, <1>3, <1>4, <1>5, StartAssumption, YearsAssumption DEF TypeOK, y
<1>11. IsRangeValidJ(CalcToJ[<<e[1], DayOfYearG(e)>>])
  <2>1. DayOfYearG(e) \in Int /\ 1 <= DayOfYearG(e) /\ DayOfYearG(e) <= 366
    BY <1>6
  <2> QED BY <1>5, <1>10, <2>1, JalaliInRange
<1>12. tm' \in [wday : 0..6, yday : 0..365,
              mday : 1..31, mon : 0..11, year : Int]
  <2>1. \A i \in 1..12 : MonthsG(e[1])[i] \in 28..31
    BY DEF MonthsG
  <2>2. tm.wday \in 0..6
    BY <1>1 DEF TypeOK
  <2>3. tm'.yday \in 0..365
    BY <1>6, <1>8, <1>4, <1>2
  <2>4. e[3] \in 1..31 /\ e[2] - 1 \in 0..11 /\ e[1] - 1900 \in Int /\ (tm.wday + 1) % 7 \in 0..6
    BY <1>3, <1>5, <2>1, <2>2
  <2> QED BY <1>4, <2>3, <2>4
<1>13. IsRangeValidG(e)
  BY <1>3, <1>10 DEF IsRangeValidG
<1>14. civil' \in Date /\ civil'[2] \in 1..12 /\ civil'[3] \in 1..CivilMonthsJ(civil'[1])[civil'[2]]
  BY <1>1, <1>4, NextDayJ DEF TypeOK
<1>15. TypeOK'
  BY <1>7, <1>8, <1>9, <1>10, <1>11, <1>12, <1>13, <1>14 DEF TypeOK
<1>16. DayNumber(CalcToJ[<<e[1], DayOfYearG(e)>>]) = DayNumber(CalcToJ[<<y, n>>]) + 1
  <2>1. n \in Int /\ 1 <= n /\ n <= 366
    BY <1>2
  <2>2. CASE e[1] = y /\ DayOfYearG(e) = n + 1
    <3>1. n < 366
      BY <1>6, <2>1, <2>2
    <3> QED BY <1>5, <2>1, <2>2, <3>1, NextNumber
  <2>3. CASE /\ e[1] = y + 1 /\ DayOfYearG(e) = 1
             /\ n = IF IsLeapYearG(y) THEN 366 ELSE 365
    <3>1. DayNumber(CalcToJ[<<y + 1, 1>>]) = DayNumber(CalcToJ[<<y, n>>]) + 1
      BY <1>5, <2>1, <2>3, NextYearNumber
    <3>2. <<e[1], DayOfYearG(e)>> = <<y + 1, 1>>
      BY <2>3
    <3> QED BY <3>1, <3>2
  <2> QED BY <1>3, <2>2, <2>3
<1>17. DayNumber(CalcToJ[<<y, n>>]) \in Int
  <2>1. n \in Int /\ 1 <= n /\ n <= 366
    BY <1>2
  <2> QED BY <1>5, <2>1, NumberOf
<1>18. (tm'.wday + 1) % 7 = DayNumber((ToJalaliNow(Now))') % 7
  <2>1. tm'.wday = (tm.wday + 1) % 7 /\ tm.wday \in 0..6
    BY <1>1, <1>4 DEF TypeOK
  <2>2. (tm.wday + 1) % 7 = DayNumber(CalcToJ[<<y, n>>]) % 7
    BY <1>2 DEF ClockInv
  <2> QED BY <1>9, <1>16, <1>17, <2>1, <2>2
<1> QED BY <1>2, <1>9, <1>15, <1>16, <1>18 DEF ClockInv

\* So does whatever leaves the date alone.
LEMMA ClockKept ==
    ASSUME ClockInv, civil' = civil,
           tm' \in [wday : 0..6, yday : 0..365,
                   mday : 1..31, mon : 0..11, year : Int],
           tm'.wday = tm.wday, tm'.yday = tm.yday, tm'.mday = tm.mday,
           tm'.mon = tm.mon, tm'.year = tm.year
    PROVE  ClockInv'
<1>1. /\ Now'.Year = Now.Year /\ Now'.Month = Now.Month /\ Now'.DayOfMonth = Now.DayOfMonth
      /\ Now'.DayOfYear = Now.DayOfYear
  BY DEF Now
<1>2. Today' = Today /\ (ToJalaliNow(Now))' = ToJalaliNow(Now)
  BY <1>1 DEF Today, ToGregorianNow, ToJalaliNow
<1> QED BY <1>1, <1>2 DEF ClockInv, TypeOK

\* The invariant holds always.
LEMMA ClockInvariant == Spec => []ClockInv
<1>1. Init => ClockInv
  BY ClockInit
<1>2. ClockInv /\ [Next]_vars => ClockInv'
  <2> SUFFICES ASSUME ClockInv, [Next]_vars PROVE ClockInv'
    OBVIOUS
  <2>1. CASE Midnight
    BY <2>1, ClockMidnight
  <2>3. CASE UNCHANGED vars
    <3>1. tm' = tm /\ civil' = civil
      BY <2>3 DEF vars
    <3>2. tm \in [wday : 0..6, yday : 0..365,
                  mday : 1..31, mon : 0..11, year : Int]
      BY DEF ClockInv, TypeOK
    <3> QED BY <3>1, <3>2, ClockKept
  <2> QED BY <2>1, <2>3 DEF Next
<1> QED BY <1>1, <1>2, PTL DEF Spec

\* The clock's days are dates that CDate accepts, counted as it counts them.
THEOREM CalendarTypeCorrect == Spec => []TypeOK
<1>1. ClockInv => TypeOK
  BY DEF ClockInv
<1> QED BY <1>1, ClockInvariant, PTL

\* On every day of the clock the conversions are inverse to each other.
THEOREM CalendarRoundTrip == Spec => []RoundTrip
<1>1. TypeOK => RoundTrip
  <2> SUFFICES ASSUME TypeOK PROVE RoundTrip
    OBVIOUS
  <2>1. Today \in Date /\ IsRangeValidG(Today)
    BY TodayIs DEF TypeOK
  <2>2. ToJalali[Today] = ToJalaliNow(Now)
    BY <2>1, TodayIs DEF ToJalali
  <2>3. ToJalali[Today][1] > -100
    BY <2>2 DEF TypeOK, IsRangeValidJ
  <2>4. ToGregorian[ToJalali[Today]] = Today
    BY <2>1, <2>3, GregorianReturns
  <2>5. civil \in Date
    BY DEF TypeOK
  <2> QED BY <2>4, <2>5, JalaliReturns DEF RoundTrip
<1> QED BY <1>1, CalendarTypeCorrect, PTL

\* No day is skipped or repeated by the conversion of today.
THEOREM WeekdaysFit == Spec => []WeekdayFits
<1>1. ClockInv => WeekdayFits
  <2> SUFFICES ASSUME ClockInv PROVE WeekdayFits
    OBVIOUS
  <2> DEFINE N == DayNumber(ToJalaliNow(Now))
  <2>1. tm.wday \in 0..6 /\ (tm.wday + 1) % 7 = N % 7
    BY DEF ClockInv, TypeOK
  <2>2. Now.DayOfWeek = tm.wday + 1
    BY DEF Now
  <2> HIDE DEF N
  <2>3. N % 7 = IF tm.wday = 6 THEN 0 ELSE tm.wday + 1
    BY <2>1
  <2>4. GetPersianDayOfWeek(Now) = <<"shanbe", "yekshanbe", "doshanbe", "seshanbe", "chaharshanbe",
          "panjshanbe", "jome">>[(N % 7) + 1]
    <3>1. N % 7 \in 0..6 /\ tm.wday = IF N % 7 = 0 THEN 6 ELSE (N % 7) - 1
      BY <2>1, <2>3
    <3> QED BY <2>2, <3>1 DEF GetPersianDayOfWeek
  <2> QED BY <2>4 DEF WeekdayFits, N
<1> QED BY <1>1, ClockInvariant, PTL

---------------------------------------------------------------------------
(* The civil calendar. It has its own number of a day; CDate's number of   *)
(* the converted day and the civil one of the civil day advance together,  *)
(* and the year of one calendar begins at most a day before that of the    *)
(* other, because the leap years before it differ by at most one.          *)

\* The civil leap years of the first r years of a cycle, and those before a year,
\* up to a constant that makes the two calendars meet in ExactYears.
LeapsBefore(r) ==
    IF r <= 1 THEN 0 ELSE IF r <= 5 THEN 1 ELSE IF r <= 9 THEN 2 ELSE IF r <= 13 THEN 3
    ELSE IF r <= 17 THEN 4 ELSE IF r <= 22 THEN 5 ELSE IF r <= 26 THEN 6
    ELSE IF r <= 30 THEN 7 ELSE 8
CivilLeaps(year) == 8 * (year \div 33) + LeapsBefore(year % 33) + 10

\* The number of a day in the civil calendar.
CivilNumber(date) == 365 * date[1] + CivilLeaps(date[1]) + DayOfYearJ(date)

\* The days of a civil year.
CivilDays(year) == IF CivilLeapJ(year) THEN 366 ELSE 365

\* The years that the clock can reach when it starts in ExactYears.
ClockYears == 1372..1479

\* A civil leap year adds one to those before.
LEMMA CivilLeapsAdd ==
    ASSUME NEW y \in Nat
    PROVE  /\ CivilLeaps(y) \in Int
           /\ CivilLeaps(y + 1) = CivilLeaps(y) + IF CivilLeapJ(y) THEN 1 ELSE 0
<1>1. PICK q \in Nat, r \in 0..32 : q = y \div 33 /\ r = y % 33 /\ y = 33 * q + r
  OBVIOUS
<1>2. (y + 1) \div 33 = (IF r = 32 THEN q + 1 ELSE q) /\ (y + 1) % 33 = IF r = 32 THEN 0 ELSE r + 1
  BY <1>1
<1>3. CivilLeaps(y) = 8 * q + LeapsBefore(r) + 10
  BY <1>1 DEF CivilLeaps
<1>4. CivilLeaps(y + 1) = 8 * (IF r = 32 THEN q + 1 ELSE q)
                          + LeapsBefore(IF r = 32 THEN 0 ELSE r + 1) + 10
  BY <1>2 DEF CivilLeaps
<1>5. CivilLeapJ(y) <=> r \in {1, 5, 9, 13, 17, 22, 26, 30}
  BY <1>1 DEF CivilLeapJ
<1>6. LeapsBefore(r) \in Int
  BY DEF LeapsBefore
<1>7. CASE r = 32
  <2>1. CivilLeaps(y + 1) = 8 * (q + 1) + LeapsBefore(0) + 10
    BY <1>4, <1>7
  <2>2. LeapsBefore(0) = LeapsBefore(r) - 8 /\ ~CivilLeapJ(y)
    <3>1. LeapsBefore(0) = 0 /\ LeapsBefore(32) = 8
      BY DEF LeapsBefore
    <3> QED BY <1>5, <1>7, <3>1
  <2> QED BY <1>1, <1>3, <1>6, <2>1, <2>2
<1>8. CASE r < 32
  <2>1. CivilLeaps(y + 1) = 8 * q + LeapsBefore(r + 1) + 10
    BY <1>4, <1>8
  <2>2. LeapsBefore(r + 1) = LeapsBefore(r) + IF CivilLeapJ(y) THEN 1 ELSE 0
    BY <1>5, <1>8 DEF LeapsBefore
  <2> QED BY <1>1, <1>3, <1>6, <2>1, <2>2
<1> QED BY <1>7, <1>8

\* CDate counts at most one leap year more, and none more in ExactYears.
LEMMA LeapsDiffer ==
    ASSUME NEW y \in Int, y \in 1372..1480
    PROVE  /\ (y \div 4) - CivilLeaps(y) \in 0..1
           /\ y <= 1407 => y \div 4 = CivilLeaps(y)
<1>1. PICK q \in 41..44, r \in 0..32 : q = y \div 33 /\ r = y % 33 /\ y = 33 * q + r
  OBVIOUS
<1>2. CivilLeaps(y) = 8 * q + LeapsBefore(r) + 10
  BY <1>1 DEF CivilLeaps
<1>3. PICK p \in 343..370 : p = y \div 4 /\ 4 * p <= y /\ y <= 4 * p + 3
  OBVIOUS
<1> SUFFICES p - (8 * q + LeapsBefore(r) + 10) \in 0..1
             /\ (y <= 1407 => p = 8 * q + LeapsBefore(r) + 10)
  BY <1>2, <1>3
<1>4. CASE q = 41
  BY <1>1, <1>3, <1>4 DEF LeapsBefore
<1>5. CASE q = 42
  BY <1>1, <1>3, <1>5 DEF LeapsBefore
<1>6. CASE q = 43
  BY <1>1, <1>3, <1>6 DEF LeapsBefore
<1>7. CASE q = 44
  BY <1>1, <1>3, <1>7 DEF LeapsBefore
<1> QED BY <1>4, <1>5, <1>6, <1>7

\* CDate's leap years after the year 0.
LEMMA LeapAfterZero ==
    ASSUME NEW y \in Nat, y > 0
    PROVE  /\ IsLeapYearJ(y) <=> y % 4 = 3
           /\ (y + 1) \div 4 = (y \div 4) + IF IsLeapYearJ(y) THEN 1 ELSE 0
<1>1. IsLeapYearJ(y) <=> y % 4 = 3
  BY DEF IsLeapYearJ, Modulus
<1> QED BY <1>1

\* The number of a day in its year.
LEMMA DayInYear ==
    ASSUME NEW d \in Date, d[2] \in 1..12
    PROVE  DayOfYearJ(d) = d[3] + IF d[2] < 8 THEN 31 * (d[2] - 1) ELSE 30 * (d[2] - 1) + 6
<1>1. d[1] \in Int /\ d[3] \in Int
  BY DEF Date
<1>2. DaysOf(MonthsJ(d[1]), d[2] - 1) = IF d[2] < 8 THEN 31 * (d[2] - 1) ELSE 30 * (d[2] - 1) + 6
  BY <1>1, SumsJ
<1> QED BY <1>1, <1>2 DEF DayOfYearJ

\* The day after a civil day has the next number.
LEMMA NextCivilNumber ==
    ASSUME NEW d \in Date, d[1] \in Nat, d[2] \in 1..12,
           d[3] \in 1..CivilMonthsJ(d[1])[d[2]]
    PROVE  CivilNumber(DayAfter(d, CivilMonthsJ(d[1]))) = CivilNumber(d) + 1
<1> DEFINE M == CivilMonthsJ(d[1])
           e == DayAfter(d, M)
<1> SUFFICES CivilNumber(e) = CivilNumber(d) + 1
  OBVIOUS
<1>1. \A k \in 1..12 : M[k] = IF k < 7 THEN 31 ELSE IF k < 12 THEN 30
                              ELSE IF CivilLeapJ(d[1]) THEN 30 ELSE 29
  BY DEF CivilMonthsJ
<1>2. d[3] \in 1..M[d[2]] /\ d[3] \in Int
  BY DEF Date
<1>3. e = IF d[3] < M[d[2]] THEN <<d[1], d[2], d[3] + 1>>
          ELSE IF d[2] < 12 THEN <<d[1], d[2] + 1, 1>> ELSE <<d[1] + 1, 1, 1>>
  BY DEF DayAfter
<1> HIDE DEF M
<1>4. e \in Date /\ e[2] \in 1..12
  BY <1>2, <1>3 DEF Date
<1>5. DayOfYearJ(d) = d[3] + IF d[2] < 8 THEN 31 * (d[2] - 1) ELSE 30 * (d[2] - 1) + 6
  BY DayInYear
<1> HIDE DEF e
<1>6. DayOfYearJ(e) = e[3] + IF e[2] < 8 THEN 31 * (e[2] - 1) ELSE 30 * (e[2] - 1) + 6
  BY <1>4, DayInYear
<1>7. CivilLeaps(d[1]) \in Int
      /\ CivilLeaps(d[1] + 1) = CivilLeaps(d[1]) + IF CivilLeapJ(d[1]) THEN 1 ELSE 0
  BY CivilLeapsAdd
<1>8. DayOfYearJ(d) \in Int
  BY <1>2, <1>5
<1> DEFINE c == CivilLeaps(d[1])
           l == IF CivilLeapJ(d[1]) THEN 1 ELSE 0
<1>9. CivilNumber(d) = 365 * d[1] + c + DayOfYearJ(d)
  BY DEF CivilNumber
<1>10. CivilNumber(e) = 365 * e[1] + CivilLeaps(e[1]) + DayOfYearJ(e)
  BY DEF CivilNumber
<1>11. c \in Int /\ l \in 0..1 /\ CivilLeaps(d[1] + 1) = c + l
  BY <1>7
<1>12. CASE d[3] < M[d[2]] \/ d[2] < 12
  <2>1. e[1] = d[1]
    BY <1>3, <1>12
  <2>2. DayOfYearJ(e) = DayOfYearJ(d) + 1
    <3>1. CASE d[3] < M[d[2]]
      BY <1>2, <1>3, <1>5, <1>6, <3>1
    <3>2. CASE ~(d[3] < M[d[2]])
      <4>1. e[2] = d[2] + 1 /\ e[3] = 1 /\ d[2] < 12
        BY <1>3, <1>12, <3>2
      <4>2. d[3] = M[d[2]] /\ M[d[2]] = IF d[2] < 7 THEN 31 ELSE 30
        BY <1>1, <1>2, <3>2, <4>1
      <4> QED BY <1>5, <1>6, <4>1, <4>2
    <3> QED BY <3>1, <3>2
  <2>3. CivilLeaps(e[1]) = c /\ 365 * e[1] = 365 * d[1]
    BY <2>1
  <2> HIDE DEF c
  <2> QED BY <1>8, <1>9, <1>10, <1>11, <2>2, <2>3
<1>13. CASE ~(d[3] < M[d[2]]) /\ d[2] = 12
  <2>1. e[1] = d[1] + 1 /\ e[2] = 1 /\ e[3] = 1
    BY <1>3, <1>13
  <2>2. d[3] = 29 + l
    BY <1>1, <1>2, <1>13
  <2>3. DayOfYearJ(e) = 1 /\ DayOfYearJ(d) = 365 + l
    BY <1>5, <1>6, <1>13, <2>1, <2>2
  <2>4. CivilLeaps(e[1]) = c + l /\ 365 * e[1] = 365 * d[1] + 365
    BY <1>11, <2>1
  <2> HIDE DEF c, l
  <2> QED BY <1>9, <1>10, <1>11, <2>3, <2>4
<1> QED BY <1>12, <1>13

\* A day that exists in CDate's calendar, and one that exists in the civil one.
DayJ(d) == d \in Date /\ d[2] \in 1..12 /\ d[3] \in 1..MonthsJ(d[1])[d[2]]
CivilDay(d) == d \in Date /\ d[2] \in 1..12 /\ d[3] \in 1..CivilMonthsJ(d[1])[d[2]]

\* Their numbers in their years.
LEMMA DaysOfYears ==
    ASSUME NEW d, d[1] \in Nat, d[1] > 0
    PROVE  /\ DayJ(d) => /\ DayOfYearJ(d) \in 1..(IF IsLeapYearJ(d[1]) THEN 366 ELSE 365)
                         /\ d[3] \in 1..(IF d[2] < 7 THEN 31 ELSE 30)
           /\ CivilDay(d) => /\ DayOfYearJ(d) \in 1..CivilDays(d[1])
                             /\ d[3] \in 1..(IF d[2] < 7 THEN 31 ELSE 30)
<1>1. ASSUME DayJ(d)
      PROVE  /\ DayOfYearJ(d) \in 1..(IF IsLeapYearJ(d[1]) THEN 366 ELSE 365)
             /\ d[3] \in 1..(IF d[2] < 7 THEN 31 ELSE 30)
  <2>1. DayOfYearJ(d) = d[3] + IF d[2] < 8 THEN 31 * (d[2] - 1) ELSE 30 * (d[2] - 1) + 6
    BY <1>1, DayInYear DEF DayJ
  <2> DEFINE l == IF IsLeapYearJ(d[1]) THEN 30 ELSE 29
  <2>2. \A k \in 1..12 : MonthsJ(d[1])[k] = IF k < 7 THEN 31 ELSE IF k < 12 THEN 30 ELSE l
    BY DEF MonthsJ
  <2>3. d[2] \in 1..12 /\ d[3] \in 1..MonthsJ(d[1])[d[2]]
    BY <1>1 DEF DayJ
  <2>4. l \in 29..30
    OBVIOUS
  <2> HIDE DEF l
  <2>5. d[3] \in 1..(IF d[2] < 7 THEN 31 ELSE IF d[2] < 12 THEN 30 ELSE l)
    BY <2>2, <2>3
  <2>6. DayOfYearJ(d) \in 1..(336 + l) /\ d[3] \in 1..(IF d[2] < 7 THEN 31 ELSE 30)
    BY <2>1, <2>3, <2>4, <2>5
  <2>7. 336 + l = IF IsLeapYearJ(d[1]) THEN 366 ELSE 365
    BY DEF l
  <2> QED BY <2>6, <2>7
<1>2. ASSUME CivilDay(d)
      PROVE  /\ DayOfYearJ(d) \in 1..CivilDays(d[1])
             /\ d[3] \in 1..(IF d[2] < 7 THEN 31 ELSE 30)
  <2>1. DayOfYearJ(d) = d[3] + IF d[2] < 8 THEN 31 * (d[2] - 1) ELSE 30 * (d[2] - 1) + 6
    BY <1>2, DayInYear DEF CivilDay
  <2> DEFINE l == IF CivilLeapJ(d[1]) THEN 30 ELSE 29
  <2>2. \A k \in 1..12 : CivilMonthsJ(d[1])[k] = IF k < 7 THEN 31 ELSE IF k < 12 THEN 30 ELSE l
    BY DEF CivilMonthsJ
  <2>3. d[2] \in 1..12 /\ d[3] \in 1..CivilMonthsJ(d[1])[d[2]]
    BY <1>2 DEF CivilDay
  <2>4. l \in 29..30
    OBVIOUS
  <2> HIDE DEF l
  <2>5. d[3] \in 1..(IF d[2] < 7 THEN 31 ELSE IF d[2] < 12 THEN 30 ELSE l)
    BY <2>2, <2>3
  <2>6. DayOfYearJ(d) \in 1..(336 + l) /\ d[3] \in 1..(IF d[2] < 7 THEN 31 ELSE 30)
    BY <2>1, <2>3, <2>4, <2>5
  <2>7. 336 + l = CivilDays(d[1])
    BY DEF l, CivilDays
  <2> QED BY <2>6, <2>7
<1> QED BY <1>1, <1>2

\* Two days with the same number: where the year of CDate begins when the civil
\* one does they are the same date, else CDate's is the day before.
LEMMA SameNumberSameDay ==
    ASSUME NEW j, DayJ(j), j[1] \in 1..1478,
           NEW c, CivilDay(c), c[1] \in ClockYears,
           NEW k \in Int, DayNumber(j) = k, CivilNumber(c) = k
    PROVE  /\ j = c \/ DayAfter(j, CivilMonthsJ(j[1])) = c
           /\ c[1] \in ExactYears => j = c
<1> DEFINE a == j[1]
           b == c[1]
           m == DayOfYearJ(j)
           n == DayOfYearJ(c)
           lag == (b \div 4) - CivilLeaps(b)
           la == IF IsLeapYearJ(a) THEN 1 ELSE 0
           lb == IF IsLeapYearJ(b) THEN 1 ELSE 0
           cb == IF CivilLeapJ(b) THEN 1 ELSE 0
<1>1. a \in 1..1478 /\ b \in 1372..1479 /\ la \in 0..1 /\ lb \in 0..1 /\ cb \in 0..1
  BY DEF ClockYears
<1> HIDE DEF a, b, m, n, lag, la, lb, cb
<1>2. m \in 1..(365 + la) /\ n \in 1..(365 + cb)
  <2>1. a \in Nat /\ a > 0 /\ b \in Nat /\ b > 0
    BY <1>1
  <2>2. m \in 1..(IF IsLeapYearJ(a) THEN 366 ELSE 365)
    BY <2>1, DaysOfYears DEF a, m
  <2>3. n \in 1..(IF CivilLeapJ(b) THEN 366 ELSE 365)
    BY <2>1, DaysOfYears DEF CivilDays, b, n
  <2> QED BY <2>2, <2>3 DEF la, cb
<1>3. j \in Date /\ c \in Date /\ j[2] \in 1..12 /\ c[2] \in 1..12
  BY DEF DayJ, CivilDay
<1>4. j = <<a, j[2], j[3]>> /\ c = <<b, c[2], c[3]>> /\ j[3] \in Int /\ c[3] \in Int
  BY <1>3 DEF Date, a, b
<1>5. j[3] \in 1..(IF j[2] < 7 THEN 31 ELSE 30) /\ c[3] \in 1..(IF c[2] < 7 THEN 31 ELSE 30)
  <2>1. a \in Nat /\ a > 0 /\ b \in Nat /\ b > 0
    BY <1>1
  <2> QED BY <2>1, DaysOfYears DEF a, b
<1>6. lag \in 0..1 /\ (b \in ExactYears => lag = 0)
  BY <1>1, LeapsDiffer DEF ExactYears, lag
<1>7. lag + lb - cb \in 0..1
  <2>1. b + 1 \in 1372..1480 /\ b \in Nat /\ b > 0
    BY <1>1
  <2>2. ((b + 1) \div 4) - CivilLeaps(b + 1) \in 0..1
    BY <2>1, LeapsDiffer
  <2>3. (b + 1) \div 4 = (b \div 4) + lb
    BY <2>1, LeapAfterZero DEF lb
  <2>4. CivilLeaps(b) \in Int /\ CivilLeaps(b + 1) = CivilLeaps(b) + cb
    BY <2>1, CivilLeapsAdd DEF cb
  <2> QED BY <1>1, <2>2, <2>3, <2>4 DEF lag
<1>8. CivilLeaps(b) = (b \div 4) - lag
  <2>1. b \in Nat
    BY <1>1
  <2>2. CivilLeaps(b) \in Int
    BY <2>1, CivilLeapsAdd
  <2> QED BY <2>1, <2>2 DEF lag
<1>9. 365 * a + (a \div 4) + m = 365 * b + (b \div 4) - lag + n
  <2> DEFINE x == a \div 4
             z == b \div 4
             L == CivilLeaps(b)
             A == 365 * a
             B == 365 * b
  <2>1. k = A + x + m
    BY DEF DayNumber, a, m
  <2>2. k = B + L + n
    BY DEF CivilNumber, b, n
  <2>3. m \in Int /\ n \in Int /\ lag \in Int /\ A \in Int /\ B \in Int
        /\ x \in Int /\ z \in Int
    BY <1>1, <1>2, <1>6
  <2>4. L = z - lag
    BY <1>8
  <2> HIDE DEF x, z, L, A, B
  <2>5. A + x + m = B + L + n
    BY <2>1, <2>2
  <2>6. A + x + m = B + z - lag + n
    BY <2>3, <2>4, <2>5
  <2> QED BY <2>6 DEF A, B, x, z
<1>10. (a + 1) \div 4 = (a \div 4) + la /\ (b + 1) \div 4 = (b \div 4) + lb
  <2>1. a \in Nat /\ a > 0 /\ b \in Nat /\ b > 0
    BY <1>1
  <2> QED BY <2>1, LeapAfterZero DEF la, lb
<1>11. CASE n > lag
  \* The year is the same, and so is the day, or it is the one before.
  <2>1. a = b /\ m = n - lag
    <3>1. ~(a < b)
      <4>1. a < b => (a + 1) \div 4 <= b \div 4 /\ 365 * a + 365 <= 365 * b
        BY <1>1
      <4> QED BY <1>1, <1>2, <1>6, <1>9, <1>10, <1>11, <4>1
    <3>2. ~(b < a)
      <4>1. b < a => (b + 1) \div 4 <= a \div 4 /\ 365 * b + 365 <= 365 * a
        BY <1>1
      <4> QED BY <1>1, <1>2, <1>6, <1>7, <1>9, <1>10, <1>11, <4>1
    <3>3. a = b
      BY <1>1, <3>1, <3>2
    <3> QED BY <1>1, <1>2, <1>6, <1>9, <3>3
  <2>2. CASE lag = 0
    <3>1. m = n
      BY <1>2, <2>1, <2>2
    <3>2. j = c
      BY <1>3, <1>5, <2>1, <3>1, UniqueInYear DEF m, n, a, b
    <3> QED BY <3>2
  <2>3. CASE lag = 1
    <3> DEFINE e == DayAfter(j, CivilMonthsJ(j[1]))
               M == CivilMonthsJ(b)
    <3>1. m = n - 1 /\ m < 365 + cb
      BY <1>1, <1>2, <1>6, <2>1, <2>3
    <3>2. j[2] = 12 => j[3] < 29 + cb
      <4>1. m = j[3] + IF j[2] < 8 THEN 31 * (j[2] - 1) ELSE 30 * (j[2] - 1) + 6
        BY <1>3, DayInYear DEF m
      <4> QED BY <1>1, <1>2, <1>4, <3>1, <4>1
    <3>3. \A i \in 1..12 : M[i] = IF i < 7 THEN 31 ELSE IF i < 12 THEN 30 ELSE 29 + cb
      BY DEF CivilMonthsJ, cb
    <3> HIDE DEF M
    <3>4. CivilDay(j)
      <4>1. j[3] \in 1..M[j[2]]
        BY <1>1, <1>3, <1>5, <3>2, <3>3
      <4> QED BY <1>3, <2>1, <4>1 DEF CivilDay, M, a
    <3>5. CivilNumber(e) = CivilNumber(j) + 1
      <4>1. a \in Nat
        BY <1>1
      <4>2. j[1] \in Nat
        BY <4>1 DEF a
      <4> QED BY <3>4, <4>2, NextCivilNumber DEF CivilDay
    <3>6. CivilDay(e)
      BY <3>4, NextDayJ DEF CivilDay
    <3>7. e[1] = b
      <4>1. j[3] < M[j[2]] \/ j[2] < 12
        BY <1>3, <3>2, <3>3
      <4> QED BY <1>4, <2>1, <4>1 DEF DayAfter, M, a
    <3> HIDE DEF e
    <3>8. DayOfYearJ(e) = n
      <4>1. CivilNumber(e) = 365 * b + CivilLeaps(b) + DayOfYearJ(e)
        BY <3>7 DEF CivilNumber
      <4>2. CivilNumber(j) = 365 * b + CivilLeaps(b) + m
        BY <2>1 DEF CivilNumber, a, m
      <4>3. CivilLeaps(b) \in Int /\ DayOfYearJ(e) \in Int
        <5>1. b \in Nat /\ b > 0
          BY <1>1
        <5> QED BY <3>6, <3>7, <5>1, CivilLeapsAdd, DaysOfYears
      <4> QED BY <1>1, <1>2, <3>1, <3>5, <4>1, <4>2, <4>3
    <3>9. e = c
      <4>1. e[3] \in 1..(IF e[2] < 7 THEN 31 ELSE 30)
        <5>1. b \in Nat /\ b > 0
          BY <1>1
        <5> QED BY <3>6, <3>7, <5>1, DaysOfYears
      <4> QED BY <1>3, <1>5, <3>6, <3>7, <3>8, <4>1, UniqueInYear DEF CivilDay, n, b
    <3> QED BY <1>6, <2>3, <3>9 DEF e, b
  <2> QED BY <1>6, <2>2, <2>3
<1>12. CASE n <= lag
  \* The first day of a civil year, the last one of the year before for CDate.
  <2> DEFINE e == DayAfter(j, CivilMonthsJ(j[1]))
             M == CivilMonthsJ(a)
             ca == IF CivilLeapJ(a) THEN 1 ELSE 0
  <2>1. lag = 1 /\ n = 1
    BY <1>2, <1>6, <1>12
  <2>2. a = b - 1 /\ m = 365 + la
    <3>1. a < b
      <4>1. b <= a => b \div 4 <= a \div 4 /\ 365 * b <= 365 * a
        BY <1>1
      <4> QED BY <1>1, <1>2, <1>9, <2>1, <4>1
    <3>2. ~(a + 1 < b)
      <4>1. a + 1 < b => (a + 1) \div 4 <= b \div 4 /\ 365 * a + 730 <= 365 * b
        BY <1>1
      <4> QED BY <1>1, <1>2, <1>9, <1>10, <2>1, <4>1
    <3>3. a + 1 = b
      BY <1>1, <3>1, <3>2
    <3> QED BY <1>1, <1>2, <1>9, <1>10, <2>1, <3>3
  <2>3. ca <= la
    <3>1. b # 1372
      BY <1>1, <1>6, <2>1 DEF ExactYears
    <3>2. a \in 1372..1480 /\ a \in Nat /\ a + 1 = b
      BY <1>1, <2>2, <3>1
    <3>3. (a \div 4) - CivilLeaps(a) \in 0..1
      BY <3>2, LeapsDiffer
    <3>4. CivilLeaps(a) \in Int /\ CivilLeaps(b) = CivilLeaps(a) + ca
      BY <3>2, CivilLeapsAdd
    <3> QED BY <1>1, <1>8, <1>10, <2>1, <3>2, <3>3, <3>4
  <2>4. j[2] = 12 /\ j[3] >= 29 + ca
    <3>1. m = j[3] + IF j[2] < 8 THEN 31 * (j[2] - 1) ELSE 30 * (j[2] - 1) + 6
      BY <1>3, DayInYear DEF m
    <3> QED BY <1>1, <1>3, <1>4, <1>5, <2>2, <2>3, <3>1
  <2>5. M[12] = 29 + ca
    BY DEF CivilMonthsJ
  <2> HIDE DEF ca, M
  <2>6. e = <<b, 1, 1>>
    <3>1. ~(j[3] < M[j[2]])
      <4>1. ca \in 0..1
        BY DEF ca
      <4> QED BY <1>4, <2>4, <2>5, <4>1
    <3>2. a + 1 = b
      BY <1>1, <2>2
    <3> QED BY <2>4, <3>1, <3>2 DEF DayAfter, M, a
  <2>7. c[2] = 1 /\ c[3] = 1
    <3>1. n = c[3] + IF c[2] < 8 THEN 31 * (c[2] - 1) ELSE 30 * (c[2] - 1) + 6
      BY <1>3, DayInYear DEF n
    <3> QED BY <1>3, <1>5, <2>1, <3>1
  <2>8. e = c
    BY <1>4, <2>6, <2>7
  <2> QED BY <1>6, <2>1, <2>8 DEF b
<1> QED BY <1>2, <1>6, <1>11, <1>12

\* The numbers of the two days agree, in the years the comparison is made in.
CivilInv ==
    /\ ClockInv
    /\ civil[1] \in ClockYears
    /\ CivilNumber(civil) = DayNumber(ToJalaliNow(Now))

\* What today is converted to, in the clock's years.
DatesExist ==
    LET j == ToJalaliNow(Now)
    IN  DayJ(j) /\ j[1] \in 1279..1478 /\ DayNumber(j) \in Int /\ CivilDay(civil)

LEMMA TodayJ == TypeOK => DatesExist
<1> SUFFICES ASSUME TypeOK PROVE DatesExist
  OBVIOUS
<1> DEFINE j == ToJalaliNow(Now)
           y == Today[1]
           n == DayOfYearG(Today)
<1>1. y \in 1901..2099 /\ n \in Int /\ 1 <= n /\ n <= 366 /\ j = CalcToJ[<<y, n>>]
  BY TodayIs
<1> HIDE DEF j, y, n
<1>2. y \in Int
  BY <1>1
<1>3. /\ j \in Date /\ j[1] = (IF n > 79 THEN y - 621 ELSE y - 622)
      /\ j[2] \in 1..12 /\ j[3] \in 1..MonthsJ(j[1])[j[2]]
  BY <1>1, <1>2, CalcToJDay
<1>4. j[1] \in 1279..1478
  BY <1>1, <1>3
<1>5. DayNumber(j) \in Int
  BY <1>1, <1>2, NumberOf
<1> QED BY <1>3, <1>4, <1>5 DEF DatesExist, DayJ, CivilDay, TypeOK, j

\* Midnight moves both numbers on.
LEMMA CivilMidnight ==
    ASSUME CivilInv, Midnight
    PROVE  CivilInv'
<1> DEFINE j == ToJalaliNow(Now)
<1>1. ClockInv' /\ DayNumber(j') = DayNumber(j) + 1
  BY ClockMidnight DEF CivilInv
<1>2. TypeOK /\ TypeOK' /\ DatesExist /\ DatesExist'
  <2>1. TypeOK /\ TypeOK'
    BY <1>1 DEF CivilInv, ClockInv
  <2> QED BY <2>1, TodayJ, PTL
<1>3. civil' = DayAfter(civil, CivilMonthsJ(civil[1]))
  BY DEF Midnight
<1>4. CivilDay(civil) /\ civil[1] \in 1372..1479
  BY <1>2 DEF DatesExist, CivilInv, ClockYears
<1>5. CivilNumber(civil') = DayNumber(j')
  <2>1. civil[1] \in Nat
    BY <1>4
  <2>2. CivilNumber(civil') = CivilNumber(civil) + 1
    BY <1>3, <1>4, <2>1, NextCivilNumber DEF CivilDay
  <2> QED BY <1>1, <2>2 DEF CivilInv
<1>6. DayJ(j') /\ j'[1] \in 1..1478 /\ CivilDay(civil')
  BY <1>2 DEF DatesExist
<1>7. civil'[1] \in 1372..1480
  <2>1. civil'[1] \in {civil[1], civil[1] + 1}
    BY <1>3 DEF DayAfter
  <2> QED BY <1>4, <2>1
\* The first day of 1480 has a number that no day before 1479 has.
<1>8. civil'[1] # 1480
  <2> SUFFICES ASSUME civil'[1] = 1480 PROVE FALSE
    OBVIOUS
  <2> DEFINE f == j'
             g == civil'
             k == DayNumber(f)
             a == f[1]
             m == DayOfYearJ(f)
             n == DayOfYearJ(g)
  <2>1. k \in Int /\ k = CivilNumber(g) /\ DayJ(f) /\ CivilDay(g) /\ a \in 1..1478 /\ g[1] = 1480
    BY <1>2, <1>5, <1>6 DEF DatesExist
  <2> HIDE DEF f, g, a
  <2>2. k = 365 * a + (a \div 4) + m
    BY DEF DayNumber, a
  <2>3. k = 365 * 1480 + CivilLeaps(1480) + n
    BY <2>1 DEF CivilNumber
  <2>4. CivilLeaps(1480) \in 369..370
    <3>1. 1480 \in Nat /\ 1480 \in 1372..1480 /\ 1480 \div 4 = 370
      OBVIOUS
    <3>2. 370 - CivilLeaps(1480) \in 0..1
      BY <3>1, LeapsDiffer
    <3>3. CivilLeaps(1480) \in Int
      BY <3>1, CivilLeapsAdd
    <3> QED BY <3>2, <3>3
  <2>5. a \in Nat /\ a > 0 /\ a \div 4 <= 369
    BY <2>1
  <2>6. m \in Int /\ m <= 366
    <3>1. m \in 1..(IF IsLeapYearJ(a) THEN 366 ELSE 365)
      BY <2>1, <2>5, DaysOfYears DEF a
    <3> QED BY <3>1
  <2>7. n \in Int /\ n >= 1
    <3>1. n \in 1..CivilDays(1480)
      BY <2>1, DaysOfYears
    <3> QED BY <3>1 DEF CivilDays
  <2> HIDE DEF k, m, n
  <2> QED BY <2>1, <2>2, <2>3, <2>4, <2>5, <2>6, <2>7
<1> QED BY <1>1, <1>5, <1>7, <1>8 DEF CivilInv, ClockYears

\* The invariant holds from a day on that CDate converts to the civil one.
LEMMA CivilInvariant ==
    ASSUME Start.civil = ToJalali[Start.date], Start.civil[1] \in ExactYears
    PROVE  Spec => []CivilInv
<1>1. Init => CivilInv
  <2> SUFFICES ASSUME Init PROVE CivilInv
    OBVIOUS
  <2>1. ClockInv
    BY ClockInit
  <2> DEFINE j == ToJalaliNow(Now)
  <2>2. civil = Start.civil /\ Today = Start.date
    <3>1. Start.date = <<Start.date[1], Start.date[2], Start.date[3]>>
          /\ Start.date[1] \in Int /\ Start.date[2] \in Int
      BY StartAssumption DEF Date
    <3>2. /\ tm.year = Start.date[1] - 1900 /\ tm.mon = Start.date[2] - 1
          /\ tm.mday = Start.date[3]
      BY DEF Init
    <3>3. Today = <<tm.year + 1900, tm.mon + 1, tm.mday>>
      BY <2>1, TodayIs DEF ClockInv
    <3>4. tm.year + 1900 = Start.date[1] /\ tm.mon + 1 = Start.date[2]
      BY <3>1, <3>2
    <3> QED BY <3>1, <3>2, <3>3, <3>4 DEF Init
  <2>3. j = civil
    <3>1. j = CalcToJ[<<Today[1], DayOfYearG(Today)>>]
      <4>1. TypeOK
        BY <2>1 DEF ClockInv
      <4>2. ToJalaliNow(Now) = CalcToJ[<<Today[1], DayOfYearG(Today)>>]
        BY <4>1, TodayIs
      <4> QED BY <4>2
    <3>2. ToJalali[Start.date] = CalcToJ[<<Start.date[1], DayOfYearG(Start.date)>>]
      <4>1. Start.date \in Date /\ IsRangeValidG(Start.date)
        BY StartAssumption
      <4> QED BY <4>1 DEF ToJalali
    <3> QED BY <2>2, <3>1, <3>2
  <2>4. civil[1] \in 1372..1407
    BY <2>2 DEF ExactYears
  <2>5. CivilNumber(civil) = DayNumber(civil)
    <3>1. civil[1] \div 4 = CivilLeaps(civil[1])
      <4>1. civil[1] \in Int /\ civil[1] \in 1372..1480 /\ civil[1] <= 1407
        BY <2>4
      <4> QED BY <4>1, LeapsDiffer
    <3> QED BY <3>1 DEF CivilNumber, DayNumber
  <2> QED BY <2>1, <2>3, <2>4, <2>5 DEF CivilInv, ClockYears
<1>2. CivilInv /\ [Next]_vars => CivilInv'
  <2> SUFFICES ASSUME CivilInv, [Next]_vars PROVE CivilInv'
    OBVIOUS
  <2>1. CASE Midnight
    BY <2>1, CivilMidnight
  <2>2. ASSUME civil' = civil, Now'.Year = Now.Year, Now'.DayOfYear = Now.DayOfYear, ClockInv'
        PROVE  CivilInv'
    <3>1. (ToJalaliNow(Now))' = ToJalaliNow(Now)
      BY <2>2 DEF ToJalaliNow
    <3> QED BY <2>2, <3>1 DEF CivilInv
  <2>4. CASE UNCHANGED vars
    <3>1. tm' = tm /\ civil' = civil
      BY <2>4 DEF vars
    <3>2. Now'.Year = Now.Year /\ Now'.DayOfYear = Now.DayOfYear
      BY <3>1 DEF Now
    <3>3. ClockInv'
      <4>1. tm \in [wday : 0..6, yday : 0..365,
                    mday : 1..31, mon : 0..11, year : Int]
        BY DEF CivilInv, ClockInv, TypeOK
      <4> QED BY <3>1, <4>1, ClockKept DEF CivilInv
    <3> QED BY <2>2, <3>1, <3>2, <3>3
  <2> QED BY <2>1, <2>4 DEF Next
<1> QED BY <1>1, <1>2, PTL DEF Spec

\* From a day on that CDate converts to the civil one, and on which the two leap
\* rules agree, the date that the pages show is the civil one in ExactYears and
\* at most a day behind it later.
THEOREM DatesAgree ==
    ASSUME Start.civil = ToJalali[Start.date], Start.civil[1] \in ExactYears
    PROVE  Spec => []AgreesWithCivil
<1>1. CivilInv => AgreesWithCivil
  <2> SUFFICES ASSUME CivilInv PROVE AgreesWithCivil
    OBVIOUS
  <2> DEFINE j == ToJalaliNow(Now)
  <2>1. DayJ(j) /\ j[1] \in 1..1478 /\ DayNumber(j) \in Int /\ CivilDay(civil)
    BY TodayJ DEF DatesExist, CivilInv, ClockInv
  <2>2. CivilNumber(civil) = DayNumber(j) /\ civil[1] \in ClockYears
    BY DEF CivilInv
  <2> HIDE DEF j
  <2>3. /\ j = civil \/ DayAfter(j, CivilMonthsJ(j[1])) = civil
        /\ civil[1] \in ExactYears => j = civil
    BY <2>1, <2>2, SameNumberSameDay
  <2> QED BY <2>3 DEF AgreesWithCivil, j
<1> QED BY <1>1, CivilInvariant, PTL
=============================================================================
