--------------------------- MODULE PublicAPIProofs ---------------------------
(***************************************************************************)
(* What holds of PublicAPI for every set of URIs and every clock, window,  *)
(* second and cipher.                                                      *)
(***************************************************************************)
EXTENDS PublicAPI, WellFoundedInduction, FiniteSetTheorems, SequenceTheorems, TLAPS

-----------------------------------------------------------------------------
(***************************************************************************)
(* Induction, by the least element of a set of numbers: the theorems of    *)
(* the library that take a predicate cannot be instantiated.               *)
(***************************************************************************)
Less == {pair \in Nat \X Nat : pair[1] < pair[2]}

\* A set of numbers that is not empty has a least element.
LEMMA LeastElement ==
    ASSUME NEW T, T \subseteq Nat, T # {}
    PROVE  \E x \in T : \A y \in T : x <= y
<1>1. IsWellFoundedOn(Less, Nat)
  BY NatLessThanWellFounded DEF OpToRel, Less
<1>2. PICK x \in T : \A y \in T : <<y, x>> \notin Less
  BY <1>1, WFMin
<1>3. \A y \in T : ~(y < x)
  BY <1>2 DEF Less
<1>. QED  BY <1>3

\* A set that 0 is in, and n + 1 with n, is that of all numbers.
LEMMA Induction ==
    ASSUME NEW T, 0 \in T, \A n \in Nat : n \in T => n + 1 \in T
    PROVE  \A n \in Nat : n \in T
<1>. SUFFICES ASSUME NEW n \in Nat, n \notin T PROVE FALSE
  OBVIOUS
<1>1. PICK x \in Nat \ T : \A y \in Nat \ T : x <= y
  BY LeastElement
<1>. QED  BY <1>1

-----------------------------------------------------------------------------
(***************************************************************************)
(* Without.                                                                *)
(***************************************************************************)
\* f satisfies the equation of Without for the first n pieces.
Keeps(f, pieces, omitted, n) ==
    f = [i \in 0..n |-> IF i = 0 THEN << >>
                        ELSE IF pieces[i] \in omitted THEN f[i - 1]
                        ELSE Append(f[i - 1], pieces[i])]

\* Some function satisfies the equation of Without.
LEMMA KeepsExists ==
    ASSUME NEW pieces, NEW omitted
    PROVE  \A n \in Nat : \E f : Keeps(f, pieces, omitted, n)
<1>. DEFINE T == {n \in Nat : \E f : Keeps(f, pieces, omitted, n)}
<1>1. 0 \in T
  <2>1. Keeps([i \in 0..0 |-> << >>], pieces, omitted, 0)
    BY DEF Keeps
  <2>. QED  BY <2>1
<1>2. ASSUME NEW n \in Nat, n \in T PROVE n + 1 \in T
  <2>1. PICK f : Keeps(f, pieces, omitted, n)
    BY <1>2
  <2>. DEFINE last == IF pieces[n + 1] \in omitted THEN f[n] ELSE Append(f[n], pieces[n + 1])
              g == [i \in 0..(n + 1) |-> IF i = n + 1 THEN last ELSE f[i]]
  <2>2. ASSUME NEW i \in 0..(n + 1)
        PROVE  g[i] = IF i = 0 THEN << >>
                      ELSE IF pieces[i] \in omitted THEN g[i - 1]
                      ELSE Append(g[i - 1], pieces[i])
    <3>1. CASE i = n + 1
      <4>1. g[i] = last /\ g[i - 1] = f[n] /\ i # 0
        BY <3>1
      <4>. QED  BY <3>1, <4>1
    <3>2. CASE i # n + 1
      <4>1. i \in 0..n /\ g[i] = f[i] /\ (i # 0 => g[i - 1] = f[i - 1])
        BY <3>2
      <4>2. f[i] = IF i = 0 THEN << >>
                   ELSE IF pieces[i] \in omitted THEN f[i - 1]
                   ELSE Append(f[i - 1], pieces[i])
        BY <2>1, <4>1 DEF Keeps
      <4>. HIDE DEF g
      <4>. QED  BY <4>1, <4>2
    <3>. QED  BY <3>1, <3>2
  <2>3. g = [i \in 0..(n + 1) |-> g[i]]
    OBVIOUS
  <2>. HIDE DEF g
  <2>4. Keeps(g, pieces, omitted, n + 1)
    BY <2>2, <2>3 DEF Keeps
  <2>. QED  BY <2>4
<1>. HIDE DEF T
<1>3. \A n \in Nat : n \in T
  BY <1>1, <1>2, Induction
<1>. QED  BY <1>3 DEF T

\* What is kept of the first pieces depends on them alone.
LEMMA KeepsAgree ==
    ASSUME NEW p, NEW q, NEW omitted, NEW n \in Nat, NEW k \in Nat, n <= k,
           \A i \in 1..n : p[i] = q[i],
           NEW f, Keeps(f, p, omitted, n), NEW g, Keeps(g, q, omitted, k)
    PROVE  f[n] = g[n]
<1>. DEFINE T == {i \in Nat : i <= n => f[i] = g[i]}
<1>1. 0 \in T
  BY DEF Keeps
<1>2. ASSUME NEW i \in Nat, i \in T PROVE i + 1 \in T
  <2>. SUFFICES ASSUME i + 1 <= n PROVE f[i + 1] = g[i + 1]
    OBVIOUS
  <2>1. f[i] = g[i] /\ p[i + 1] = q[i + 1] /\ i + 1 \in 0..n /\ i + 1 \in 0..k
        /\ i + 1 # 0 /\ (i + 1) - 1 = i
    BY <1>2
  <2>2. f[i + 1] = IF p[i + 1] \in omitted THEN f[i] ELSE Append(f[i], p[i + 1])
    BY <2>1 DEF Keeps
  <2>3. g[i + 1] = IF q[i + 1] \in omitted THEN g[i] ELSE Append(g[i], q[i + 1])
    BY <2>1 DEF Keeps
  <2>. QED  BY <2>1, <2>2, <2>3
<1>. HIDE DEF T
<1>3. n \in T
  BY <1>1, <1>2, Induction
<1>. QED  BY <1>3 DEF T

\* Without is the last value of such a function.
LEMMA WithoutKeeps ==
    ASSUME NEW S, NEW pieces \in Seq(S), NEW omitted
    PROVE  \E f : /\ Keeps(f, pieces, omitted, Len(pieces))
                  /\ Without(pieces, omitted) = f[Len(pieces)]
<1>. DEFINE kept == CHOOSE f : Keeps(f, pieces, omitted, Len(pieces))
<1>1. Len(pieces) \in Nat
  OBVIOUS
<1>2. Keeps(kept, pieces, omitted, Len(pieces))
  BY <1>1, KeepsExists
<1>3. Without(pieces, omitted) = kept[Len(pieces)]
  BY DEF Without, Keeps
<1>. QED  BY <1>2, <1>3

\* Of no pieces none is kept.
LEMMA WithoutEmpty ==
    ASSUME NEW omitted
    PROVE  Without(<< >>, omitted) = << >>
<1>1. << >> \in Seq({}) /\ Len(<< >>) = 0
  OBVIOUS
<1>2. PICK f : Keeps(f, << >>, omitted, 0) /\ Without(<< >>, omitted) = f[0]
  BY <1>1, WithoutKeeps
<1>. QED  BY <1>2 DEF Keeps

\* One more piece is kept or omitted.
LEMMA WithoutAppend ==
    ASSUME NEW S, NEW pieces \in Seq(S), NEW piece \in S, NEW omitted
    PROVE  Without(Append(pieces, piece), omitted) =
               IF piece \in omitted THEN Without(pieces, omitted)
               ELSE Append(Without(pieces, omitted), piece)
<1>. DEFINE all == Append(pieces, piece)
            n == Len(pieces)
<1>1. /\ n \in Nat /\ all \in Seq(S) /\ Len(all) = n + 1
      /\ all[n + 1] = piece /\ \A i \in 1..n : pieces[i] = all[i]
  OBVIOUS
<1>2. PICK f : Keeps(f, pieces, omitted, n) /\ Without(pieces, omitted) = f[n]
  BY WithoutKeeps
<1>3. PICK g : Keeps(g, all, omitted, n + 1) /\ Without(all, omitted) = g[n + 1]
  BY <1>1, WithoutKeeps
<1>. HIDE DEF all, n
<1>4. f[n] = g[n]
  BY <1>1, <1>2, <1>3, KeepsAgree
<1>5. g[n + 1] = IF all[n + 1] \in omitted THEN g[n] ELSE Append(g[n], all[n + 1])
  <2>1. n + 1 \in 0..(n + 1) /\ n + 1 # 0 /\ (n + 1) - 1 = n
    BY <1>1
  <2>. QED  BY <1>3, <2>1 DEF Keeps
<1>. QED  BY <1>1, <1>2, <1>3, <1>4, <1>5 DEF all, n

\* Every sequence is the empty one or an Append.
LEMMA FrontAndLast ==
    ASSUME NEW S, NEW s \in Seq(S), s # << >>
    PROVE  /\ SubSeq(s, 1, Len(s) - 1) \in Seq(S) /\ Last(s) \in S
           /\ Len(SubSeq(s, 1, Len(s) - 1)) = Len(s) - 1
           /\ s = Append(SubSeq(s, 1, Len(s) - 1), Last(s))
<1>. DEFINE front == SubSeq(s, 1, Len(s) - 1)
<1>1. Len(s) \in Nat \ {0}
  BY EmptySeq
<1>2. Last(s) = s[Len(s)] /\ Last(s) \in S
  BY <1>1, ElementOfSeq DEF Last
<1>3. front \in Seq(S) /\ Len(front) = Len(s) - 1 /\ \A i \in 1..(Len(s) - 1) : front[i] = s[i]
  <2>1. 1 \in Int /\ Len(s) - 1 \in Int /\ \A i \in 1..(Len(s) - 1) : s[i] \in S
    BY <1>1, ElementOfSeq
  <2>2. /\ front \in Seq(S)
        /\ Len(front) = IF 1 <= Len(s) - 1 THEN Len(s) - 1 - 1 + 1 ELSE 0
        /\ \A i \in 1..(Len(s) - 1 - 1 + 1) : front[i] = s[1 + i - 1]
    BY <2>1, SubSeqProperties
  <2>. HIDE DEF front
  <2>5. \A n \in Nat \ {0} : (IF 1 <= n - 1 THEN n - 1 - 1 + 1 ELSE 0) = n - 1
    OBVIOUS
  <2>3. Len(front) = Len(s) - 1
    BY <1>1, <2>2, <2>5
  <2>4. \A i \in 1..(Len(s) - 1) : i \in 1..(Len(s) - 1 - 1 + 1) /\ 1 + i - 1 = i
    BY <1>1
  <2>. QED  BY <2>2, <2>3, <2>4
<1>4. s = Append(front, Last(s))
  <2>1. /\ Append(front, Last(s)) \in Seq(S) /\ Len(Append(front, Last(s))) = Len(s)
        /\ \A i \in 1..Len(s) : Append(front, Last(s))[i] = s[i]
    BY <1>1, <1>2, <1>3
  <2>. QED  BY <2>1, SeqEqual
<1>. QED  BY <1>2, <1>3, <1>4

\* A set that << >> is in, and Append(s, x) with s, is that of all sequences.
LEMMA SequenceInduction ==
    ASSUME NEW S, NEW T, << >> \in T,
           \A s \in Seq(S), x \in S : s \in T => Append(s, x) \in T
    PROVE  \A s \in Seq(S) : s \in T
<1>. DEFINE U == {n \in Nat : \A s \in Seq(S) : Len(s) = n => s \in T}
<1>1. 0 \in U
  BY EmptySeq
<1>2. ASSUME NEW n \in Nat, n \in U PROVE n + 1 \in U
  <2>. SUFFICES ASSUME NEW s \in Seq(S), Len(s) = n + 1 PROVE s \in T
    OBVIOUS
  <2>. DEFINE front == SubSeq(s, 1, Len(s) - 1)
  <2>1. s # << >>
    BY EmptySeq
  <2>2. /\ front \in Seq(S) /\ Last(s) \in S /\ Len(front) = n
        /\ s = Append(front, Last(s))
    BY <2>1, FrontAndLast
  <2>. HIDE DEF front
  <2>3. front \in T
    BY <1>2, <2>2
  <2>. QED  BY <2>2, <2>3
<1>. HIDE DEF U
<1>3. \A n \in Nat : n \in U
  BY <1>1, <1>2, Induction
<1>. QED  BY <1>3, LenProperties DEF U

\* What is kept is of the same kind and not omitted; nothing is kept where all
\* is omitted, all where nothing is.
LEMMA WithoutIs ==
    ASSUME NEW S, NEW omitted, NEW s \in Seq(S)
    PROVE  /\ Without(s, omitted) \in Seq(S \ omitted)
           /\ S \subseteq omitted => Without(s, omitted) = << >>
           /\ S \cap omitted = {} => Without(s, omitted) = s
<1>. DEFINE T == {t \in Seq(S) :
                     /\ Without(t, omitted) \in Seq(S \ omitted)
                     /\ S \subseteq omitted => Without(t, omitted) = << >>
                     /\ S \cap omitted = {} => Without(t, omitted) = t}
<1>1. << >> \in T
  BY WithoutEmpty, EmptySeq
<1>2. ASSUME NEW t \in Seq(S), NEW x \in S, t \in T PROVE Append(t, x) \in T
  <2>1. Append(t, x) \in Seq(S)
    OBVIOUS
  <2>2. CASE x \in omitted
    BY <1>2, <2>1, <2>2, WithoutAppend
  <2>3. CASE x \notin omitted
    <3>1. Without(Append(t, x), omitted) = Append(Without(t, omitted), x)
      BY <2>3, WithoutAppend
    <3>2. Without(t, omitted) \in Seq(S \ omitted) /\ x \in S \ omitted
      BY <1>2, <2>3
    <3>3. Append(Without(t, omitted), x) \in Seq(S \ omitted)
      BY <3>2, AppendProperties
    <3>. QED  BY <1>2, <2>1, <2>3, <3>1, <3>3
  <2>. QED  BY <2>2, <2>3
<1>. HIDE DEF T
<1>3. s \in T
  BY <1>1, <1>2, SequenceInduction
<1>. QED  BY <1>3 DEF T

AppendsToSecond(a, b, x) == Append(a \o b, x) = a \o Append(b, x)

\* An element is appended to two sequences by appending it to the second.
LEMMA AppendConcat ==
    ASSUME NEW S, NEW a \in Seq(S), NEW b \in Seq(S), NEW x \in S
    PROVE  AppendsToSecond(a, b, x)
<1>1. /\ Append(a \o b, x) \in Seq(S) /\ a \o Append(b, x) \in Seq(S)
      /\ Len(Append(a \o b, x)) = Len(a \o Append(b, x))
      /\ Len(a \o Append(b, x)) = Len(a) + Len(b) + 1
  OBVIOUS
<1>2. ASSUME NEW i \in 1..(Len(a) + Len(b) + 1)
      PROVE  Append(a \o b, x)[i] = (a \o Append(b, x))[i]
  OBVIOUS
<1>. QED  BY <1>1, <1>2, SeqEqual DEF AppendsToSecond

\* What is kept of two sequences is kept of each.
LEMMA WithoutConcat ==
    ASSUME NEW S, NEW omitted, NEW s \in Seq(S), NEW t \in Seq(S)
    PROVE  Without(s \o t, omitted) = Without(s, omitted) \o Without(t, omitted)
<1>. DEFINE W(u) == Without(u, omitted)
            T == {u \in Seq(S) : W(s \o u) = W(s) \o W(u)}
<1>0. \A u \in Seq(S) : W(u) \in Seq(S)
  <2>. TAKE u \in Seq(S)
  <2>1. W(u) \in Seq(S \ omitted)
    BY WithoutIs
  <2>. QED  BY <2>1, SeqMonotonic
<1>1. << >> \in T
  <2>1. s \o << >> = s /\ W(s) \o << >> = W(s) /\ << >> \in Seq(S)
    BY <1>0
  <2>. QED  BY <2>1, WithoutEmpty
<1>2. ASSUME NEW u \in Seq(S), NEW x \in S, u \in T PROVE Append(u, x) \in T
  <2>0. \A a, b \in Seq(S) : Append(a \o b, x) = a \o Append(b, x)
    <3>. SUFFICES ASSUME NEW a \in Seq(S), NEW b \in Seq(S)
                  PROVE  Append(a \o b, x) = a \o Append(b, x)
      OBVIOUS
    <3>1. AppendsToSecond(a, b, x)
      BY AppendConcat
    <3>. QED  BY <3>1 DEF AppendsToSecond
  <2>1. /\ s \o u \in Seq(S) /\ Append(u, x) \in Seq(S) /\ u \in Seq(S)
        /\ s \o Append(u, x) = Append(s \o u, x)
    <3>1. s \o Append(u, x) = Append(s \o u, x) /\ u \in Seq(S)
      BY <1>2, <2>0, Zenon
    <3>2. s \o u \in Seq(S) /\ Append(u, x) \in Seq(S)
      BY ConcatProperties, AppendProperties
    <3>. QED  BY <3>1, <3>2
  <2>2. W(Append(s \o u, x)) = IF x \in omitted THEN W(s \o u) ELSE Append(W(s \o u), x)
    <3>. DEFINE v == s \o u
    <3>1. v \in Seq(S)
      BY <2>1
    <3>. HIDE DEF v
    <3>2. W(Append(v, x)) = IF x \in omitted THEN W(v) ELSE Append(W(v), x)
      BY <3>1, WithoutAppend
    <3>. QED  BY <3>2 DEF v
  <2>3. W(Append(u, x)) = IF x \in omitted THEN W(u) ELSE Append(W(u), x)
    BY WithoutAppend
  <2>4. W(s \o u) = W(s) \o W(u) /\ W(s) \in Seq(S) /\ W(u) \in Seq(S)
    BY <1>0, <1>2
  <2>. HIDE DEF W
  <2>5. Append(W(s) \o W(u), x) = W(s) \o Append(W(u), x)
    BY <2>0, <2>4, Zenon
  <2>6. s \o Append(u, x) = Append(s \o u, x)
    BY <2>1
  <2>. QED  BY <2>1, <2>2, <2>3, <2>4, <2>5, <2>6
<1>. HIDE DEF T
<1>3. t \in T
  BY <1>1, <1>2, SequenceInduction
<1>. QED  BY <1>3 DEF T

\* The last piece, when it is not omitted, stays the last.
LEMMA WithoutLast ==
    ASSUME NEW S, NEW omitted, NEW s \in Seq(S), s # << >>, Last(s) \notin omitted
    PROVE  Without(s, omitted) # << >> /\ Last(Without(s, omitted)) = Last(s)
<1>. DEFINE front == SubSeq(s, 1, Len(s) - 1)
            kept == Without(front, omitted)
<1>1. front \in Seq(S) /\ Last(s) \in S /\ s = Append(front, Last(s))
  BY FrontAndLast
<1>. HIDE DEF front
<1>2. Without(Append(front, Last(s)), omitted) = Append(kept, Last(s))
  BY <1>1, WithoutAppend
<1>3. kept \in Seq(S)
  <2>1. kept \in Seq(S \ omitted)
    BY <1>1, WithoutIs
  <2>. QED  BY <2>1, SeqMonotonic
<1>. HIDE DEF kept
<1>4. Len(Append(kept, Last(s))) = Len(kept) + 1 /\ Len(kept) \in Nat
      /\ Append(kept, Last(s))[Len(kept) + 1] = Last(s)
  BY <1>1, <1>3
<1>5. Without(s, omitted) = Append(kept, Last(s))
  BY <1>1, <1>2
<1>. QED  BY <1>4, <1>5 DEF Last

-----------------------------------------------------------------------------
(***************************************************************************)
(* FlattenSeq.                                                             *)
(***************************************************************************)
\* f satisfies the equation of FlattenSeq for the first n sequences.
Flattens(f, seqs, n) ==
    f = [i \in 1..n |-> IF i = 1 THEN seqs[i] ELSE f[i - 1] \o seqs[i]]

\* Some function satisfies the equation of FlattenSeq.
LEMMA FlattensExists ==
    ASSUME NEW seqs
    PROVE  \A n \in Nat : \E f : Flattens(f, seqs, n)
<1>. DEFINE T == {n \in Nat : \E f : Flattens(f, seqs, n)}
<1>1. 0 \in T
  <2>1. Flattens([i \in 1..0 |-> << >>], seqs, 0)
    BY DEF Flattens
  <2>. QED  BY <2>1
<1>2. ASSUME NEW n \in Nat, n \in T PROVE n + 1 \in T
  <2>1. PICK f : Flattens(f, seqs, n)
    BY <1>2
  <2>. DEFINE last == IF n = 0 THEN seqs[1] ELSE f[n] \o seqs[n + 1]
              g == [i \in 1..(n + 1) |-> IF i = n + 1 THEN last ELSE f[i]]
  <2>2. ASSUME NEW i \in 1..(n + 1)
        PROVE  g[i] = IF i = 1 THEN seqs[i] ELSE g[i - 1] \o seqs[i]
    <3>1. CASE i = n + 1
      <4>1. g[i] = last /\ (i # 1 => g[i - 1] = f[n]) /\ (i = 1 <=> n = 0)
        BY <3>1
      <4>. QED  BY <3>1, <4>1
    <3>2. CASE i # n + 1
      <4>1. i \in 1..n /\ g[i] = f[i] /\ (i # 1 => g[i - 1] = f[i - 1])
        BY <3>2
      <4>2. f[i] = IF i = 1 THEN seqs[i] ELSE f[i - 1] \o seqs[i]
        BY <2>1, <4>1 DEF Flattens
      <4>. HIDE DEF g
      <4>. QED  BY <4>1, <4>2
    <3>. QED  BY <3>1, <3>2
  <2>3. g = [i \in 1..(n + 1) |-> g[i]]
    OBVIOUS
  <2>. HIDE DEF g
  <2>4. Flattens(g, seqs, n + 1)
    BY <2>2, <2>3 DEF Flattens
  <2>. QED  BY <2>4
<1>. HIDE DEF T
<1>3. \A n \in Nat : n \in T
  BY <1>1, <1>2, Induction
<1>. QED  BY <1>3 DEF T

\* Flattening empty sequences and one at the end gives that one.
LEMMA FlattenLast ==
    ASSUME NEW S, NEW n \in Nat \ {0}, NEW seqs,
           seqs = [i \in 1..n |-> seqs[i]],
           \A i \in 1..n : i < n => seqs[i] = << >>,
           seqs[n] \in Seq(S)
    PROVE  FlattenSeq(seqs) = seqs[n]
<1>. DEFINE flatten == CHOOSE f : Flattens(f, seqs, n)
            T == {i \in Nat : /\ i + 1 < n => flatten[i + 1] = << >>
                              /\ i + 1 = n => flatten[i + 1] = seqs[n]}
<1>1. Len(seqs) = n
  OBVIOUS
<1>2. Flattens(flatten, seqs, n)
  BY FlattensExists
<1>3. FlattenSeq(seqs) = flatten[n]
  BY <1>1 DEF FlattenSeq, Flattens
<1>. HIDE DEF flatten
<1>4. ASSUME NEW i \in 1..n
      PROVE  flatten[i] = IF i = 1 THEN seqs[i] ELSE flatten[i - 1] \o seqs[i]
  BY <1>2 DEF Flattens
<1>5. 0 \in T
  <2>1. flatten[1] = seqs[1]
    BY <1>4
  <2>. QED  BY <2>1
<1>6. ASSUME NEW i \in Nat, i \in T PROVE i + 1 \in T
  <2>. SUFFICES ASSUME (i + 1) + 1 <= n PROVE flatten[(i + 1) + 1] = seqs[(i + 1) + 1]
    OBVIOUS
  <2>1. flatten[i + 1] = << >>
    BY <1>6
  <2>2. flatten[(i + 1) + 1] = flatten[i + 1] \o seqs[(i + 1) + 1]
    <3>1. (i + 1) + 1 \in 1..n /\ (i + 1) + 1 # 1 /\ ((i + 1) + 1) - 1 = i + 1
      OBVIOUS
    <3>. QED  BY <3>1, <1>4
  <2>3. seqs[(i + 1) + 1] \in Seq(S)
    <3>1. << >> \in Seq(S)
      BY EmptySeq
    <3>2. (i + 1) + 1 \in 1..n
      OBVIOUS
    <3>3. CASE (i + 1) + 1 < n
      <4>1. seqs[(i + 1) + 1] = << >>
        BY <3>2, <3>3
      <4>. QED  BY <3>1, <4>1
    <3>4. CASE (i + 1) + 1 = n
      BY <3>4
    <3>. QED  BY <3>3, <3>4
  <2>. QED  BY <2>1, <2>2, <2>3, ConcatEmptySeq
<1>. HIDE DEF T
<1>7. n - 1 \in T
  BY <1>5, <1>6, Induction
<1>. QED  BY <1>3, <1>7 DEF T

\* FlattenSeq is the last value of a function that satisfies its equation.
LEMMA FlattenIs ==
    ASSUME NEW S, NEW seqs \in Seq(S), seqs # << >>
    PROVE  \E f : Flattens(f, seqs, Len(seqs)) /\ FlattenSeq(seqs) = f[Len(seqs)]
<1>. DEFINE flatten == CHOOSE f : Flattens(f, seqs, Len(seqs))
<1>1. Len(seqs) \in Nat /\ Len(seqs) # 0
  BY EmptySeq
<1>2. Flattens(flatten, seqs, Len(seqs))
  BY <1>1, FlattensExists
<1>3. FlattenSeq(seqs) = flatten[Len(seqs)]
  BY <1>1 DEF FlattenSeq, Flattens
<1>. QED  BY <1>2, <1>3

FollowsOn(f, p, n) == \A j \in 1..n : j # 1 => f[j] = f[j - 1] \o p[j]

LEMMA FlattensStep == \A f, p, n : Flattens(f, p, n) => FollowsOn(f, p, n)
<1>. TAKE f, p, n
<1>. HAVE Flattens(f, p, n)
<1>1. ASSUME NEW j \in 1..n PROVE f[j] = IF j = 1 THEN p[j] ELSE f[j - 1] \o p[j]
  BY DEF Flattens
<1>. QED  BY <1>1 DEF FollowsOn

SameUpTo(p, q, n) == \A i \in 1..n : p[i] = q[i]

\* Such functions agree where the sequences do.
LEMMA FlattensAgree ==
    ASSUME NEW p, NEW q, NEW n \in Nat \ {0}, NEW k \in Nat, n <= k,
           SameUpTo(p, q, n),
           NEW f, Flattens(f, p, n), NEW g, Flattens(g, q, k)
    PROVE  f[n] = g[n]
<1>. USE DEF SameUpTo
<1>. DEFINE T == {i \in Nat : i + 1 <= n => f[i + 1] = g[i + 1]}
<1>1. 0 \in T
  <2>1. 1 \in 1..n /\ 1 \in 1..k
    OBVIOUS
  <2>2. f[1] = p[1] /\ g[1] = q[1]
    BY <2>1 DEF Flattens
  <2>. QED  BY <2>1, <2>2
<1>2. ASSUME NEW i \in Nat, i \in T PROVE i + 1 \in T
  <2>. DEFINE j == (i + 1) + 1
  <2>. SUFFICES ASSUME j <= n PROVE f[j] = g[j]
    OBVIOUS
  <2>1. /\ f[i + 1] = g[i + 1] /\ p[j] = q[j]
        /\ j \in 1..n /\ j \in 1..k /\ j # 1 /\ j - 1 = i + 1
    BY <1>2
  <2>. HIDE DEF j
  <2>2. f[j] = f[j - 1] \o p[j] /\ g[j] = g[j - 1] \o q[j]
    <3>1. FollowsOn(f, p, n) /\ FollowsOn(g, q, k)
      BY FlattensStep, Zenon
    <3>. QED  BY <2>1, <3>1, Zenon DEF FollowsOn
  <2>. QED  BY <2>1, <2>2
<1>. HIDE DEF T
<1>3. n - 1 \in T
  BY <1>1, <1>2, Induction
<1>. QED  BY <1>3 DEF T

\* One more sequence is added at the end.
LEMMA FlattenAppend ==
    ASSUME NEW S, NEW seqs \in Seq(Seq(S)), NEW s \in Seq(S)
    PROVE  FlattenSeq(Append(seqs, s)) = FlattenSeq(seqs) \o s
<1>. DEFINE all == Append(seqs, s)
            n == Len(seqs)
<1>1. /\ n \in Nat /\ all \in Seq(Seq(S)) /\ Len(all) = n + 1 /\ all # << >>
      /\ all[n + 1] = s /\ \A i \in 1..n : seqs[i] = all[i]
  <2>. DEFINE P == Seq(S)
  <2>1. seqs \in Seq(P) /\ s \in P
    OBVIOUS
  <2>. HIDE DEF P
  <2>2. /\ all \in Seq(P) /\ Len(all) = n + 1 /\ all # << >>
        /\ all[n + 1] = s /\ \A i \in 1..n : seqs[i] = all[i]
    BY <2>1, AppendProperties
  <2>3. n \in Nat
    BY <2>1, LenProperties
  <2>. QED  BY <2>2, <2>3 DEF P
<1>2. PICK g : Flattens(g, all, n + 1) /\ FlattenSeq(all) = g[n + 1]
  <2>. HIDE DEF all
  <2>1. \E g : Flattens(g, all, Len(all)) /\ FlattenSeq(all) = g[Len(all)]
    BY <1>1, FlattenIs
  <2>. QED  BY <1>1, <2>1
<1>. HIDE DEF all
<1>3. g[n + 1] = IF n + 1 = 1 THEN all[n + 1] ELSE g[(n + 1) - 1] \o all[n + 1]
  <2>1. n + 1 \in 1..(n + 1)
    BY <1>1
  <2>. QED  BY <1>2, <2>1 DEF Flattens
<1>4. CASE seqs = << >>
  <2>1. n = 0 /\ FlattenSeq(seqs) = << >>
    BY <1>4 DEF FlattenSeq
  <2>2. << >> \o s = s
    BY ConcatEmptySeq
  <2>. QED  BY <1>1, <1>2, <1>3, <2>1, <2>2 DEF all
<1>5. CASE seqs # << >>
  <2>1. n \in Nat \ {0} /\ n <= n + 1 /\ n + 1 \in Nat /\ n + 1 # 1 /\ (n + 1) - 1 = n
    BY <1>1, <1>5, EmptySeq
  <2>2. PICK f : Flattens(f, seqs, n) /\ FlattenSeq(seqs) = f[n]
    BY <1>5, FlattenIs
  <2>. HIDE DEF n
  <2>3. SameUpTo(seqs, all, n)
    BY <1>1 DEF SameUpTo
  <2>4. Flattens(g, all, n + 1)
    BY <1>2
  <2>5. f[n] = g[n]
    <3>. DEFINE k == n + 1
    <3>1. /\ n \in Nat \ {0} /\ k \in Nat /\ n <= k
          /\ Flattens(f, seqs, n) /\ Flattens(g, all, k)
      BY <2>1, <2>2, <2>4
    <3>. HIDE DEF k
    <3>. QED  BY <2>3, <3>1, FlattensAgree
  <2>. QED  BY <1>1, <1>2, <1>3, <2>1, <2>2, <2>5 DEF all
<1>. QED  BY <1>4, <1>5

\* Flattening of nothing, of one sequence and of two.
LEMMA FlattenFew ==
    ASSUME NEW S, NEW a \in Seq(S), NEW b \in Seq(S)
    PROVE  /\ FlattenSeq(<< >>) = << >>
           /\ FlattenSeq(<<a>>) = a
           /\ FlattenSeq(<<a, b>>) = a \o b
<1>1. FlattenSeq(<< >>) = << >>
  BY DEF FlattenSeq
<1>2. << >> \in Seq(Seq(S)) /\ <<a>> \in Seq(Seq(S))
      /\ <<a>> = Append(<< >>, a) /\ <<a, b>> = Append(<<a>>, b)
  OBVIOUS
<1>3. FlattenSeq(<<a>>) = FlattenSeq(<< >>) \o a
  BY <1>2, FlattenAppend
<1>4. FlattenSeq(<<a>>) = a
  BY <1>1, <1>3, ConcatEmptySeq
<1>5. FlattenSeq(<<a, b>>) = FlattenSeq(<<a>>) \o b
  BY <1>2, FlattenAppend
<1>. QED  BY <1>1, <1>4, <1>5

\* Two texts that are flattened together are flattened each.
LEMMA FlattenConcat ==
    ASSUME NEW S, NEW p \in Seq(Seq(S)), NEW q \in Seq(Seq(S))
    PROVE  /\ FlattenSeq(p) \in Seq(S)
           /\ FlattenSeq(p \o q) = FlattenSeq(p) \o FlattenSeq(q)
<1>. DEFINE P == Seq(S)
            F(u) == FlattenSeq(u)
            T == {u \in Seq(P) : F(u) \in Seq(S)}
            U == {u \in Seq(P) : F(p \o u) = F(p) \o F(u)}
<1>1. << >> \in T
  BY EmptySeq DEF FlattenSeq
<1>2. ASSUME NEW u \in Seq(P), NEW x \in P, u \in T PROVE Append(u, x) \in T
  <2>1. F(Append(u, x)) = F(u) \o x
    BY FlattenAppend
  <2>2. F(u) \o x \in Seq(S) /\ Append(u, x) \in Seq(P)
    BY <1>2, ConcatProperties
  <2>. QED  BY <2>1, <2>2
<1>3. \A u \in Seq(P) : F(u) \in Seq(S)
  <2>. HIDE DEF T, P
  <2>1. \A u \in Seq(P) : u \in T
    BY <1>1, <1>2, SequenceInduction
  <2>. QED  BY <2>1 DEF T
<1>4. << >> \in U
  <2>1. p \o << >> = p /\ F(p) \o << >> = F(p) /\ << >> \in Seq(P) /\ F(<< >>) = << >>
    BY <1>3 DEF FlattenSeq
  <2>. QED  BY <2>1
<1>5. ASSUME NEW u \in Seq(P), NEW x \in P, u \in U PROVE Append(u, x) \in U
  <2>1. /\ p \o u \in Seq(P) /\ Append(u, x) \in Seq(P)
        /\ p \o Append(u, x) = Append(p \o u, x)
    <3>. HIDE DEF P
    <3>1. p \in Seq(P)
      BY DEF P
    <3>2. p \o u \in Seq(P) /\ Append(u, x) \in Seq(P)
      BY <3>1, ConcatProperties, AppendProperties
    <3>3. p \o Append(u, x) = Append(p \o u, x)
      <4>1. AppendsToSecond(p, u, x)
        BY <3>1, AppendConcat
      <4>. QED  BY <4>1 DEF AppendsToSecond
    <3>. QED  BY <3>2, <3>3
  <2>. DEFINE v == p \o u
  <2>2. v \in Seq(P) /\ F(v) = F(p) \o F(u)
    BY <1>5, <2>1
  <2>. HIDE DEF v
  <2>3. F(Append(v, x)) = F(v) \o x
    BY <2>2, FlattenAppend
  <2>4. F(Append(u, x)) = F(u) \o x
    BY FlattenAppend
  <2>5. (F(p) \o F(u)) \o x = F(p) \o (F(u) \o x)
    <3>1. F(p) \in Seq(S) /\ F(u) \in Seq(S) /\ x \in Seq(S)
      BY <1>3
    <3>. HIDE DEF F
    <3>. QED  BY <3>1, ConcatAssociative, SMTT(30)
  <2>. HIDE DEF F
  <2>6. F(p \o Append(u, x)) = F(p) \o F(Append(u, x))
    BY <2>1, <2>2, <2>3, <2>4, <2>5 DEF v
  <2>. QED  BY <2>1, <2>6
<1>6. q \in U
  <2>. HIDE DEF U, P
  <2>1. q \in Seq(P)
    BY DEF P
  <2>. QED  BY <1>4, <1>5, <2>1, SequenceInduction
<1>. QED  BY <1>3, <1>6

\* Empty sequences add nothing.
LEMMA FlattenWithout ==
    ASSUME NEW S, NEW p \in Seq(Seq(S))
    PROVE  FlattenSeq(Without(p, {Empty})) = FlattenSeq(p)
<1>. DEFINE P == Seq(S)
            W(u) == Without(u, {Empty})
            T == {u \in Seq(P) : FlattenSeq(W(u)) = FlattenSeq(u)}
<1>1. << >> \in T
  BY EmptySeq, WithoutEmpty
<1>2. ASSUME NEW u \in Seq(P), NEW x \in P, u \in T PROVE Append(u, x) \in T
  <2>1. W(Append(u, x)) = IF x \in {Empty} THEN W(u) ELSE Append(W(u), x)
    BY WithoutAppend
  <2>2. W(u) \in Seq(P)
    <3>1. W(u) \in Seq(P \ {Empty})
      BY WithoutIs
    <3>. QED  BY <3>1, SeqMonotonic
  <2>3. FlattenSeq(Append(u, x)) = FlattenSeq(u) \o x
    BY FlattenAppend
  <2>4. Append(u, x) \in Seq(P) /\ FlattenSeq(W(u)) = FlattenSeq(u) /\ FlattenSeq(u) \in Seq(S)
    BY <1>2, FlattenConcat
  <2>5. CASE x = Empty
    <3>1. FlattenSeq(u) \o x = FlattenSeq(u)
      BY <2>4, <2>5, ConcatEmptySeq DEF Empty
    <3>. QED  BY <2>1, <2>3, <2>4, <2>5, <3>1
  <2>6. CASE x # Empty
    <3>. DEFINE w == W(u)
    <3>1. w \in Seq(P)
      BY <2>2
    <3>. HIDE DEF w
    <3>2. FlattenSeq(Append(w, x)) = FlattenSeq(w) \o x
      BY <3>1, FlattenAppend
    <3>. QED  BY <2>1, <2>3, <2>4, <2>6, <3>2 DEF w
  <2>. QED  BY <2>5, <2>6
<1>. HIDE DEF T, P
<1>3. p \in T
  <2>1. p \in Seq(P)
    BY DEF P
  <2>. QED  BY <1>1, <1>2, <2>1, SequenceInduction
<1>. QED  BY <1>3 DEF T

-----------------------------------------------------------------------------
(***************************************************************************)
(* The contracts.                                                          *)
(***************************************************************************)
Names == <<"DataByDate", "DataByDate", "LatestData", "LatestData", "Token", "Token">>

Formats == <<JSON, XML, JSON, XML, JSON, XML>>

Argss == <<<<DATE, TOKEN>>, <<DATE, TOKEN>>, <<TOKEN>>, <<TOKEN>>, << >>, << >>>>

Method(i) == <<<<"StockMarket">>, <<Names[i]>>, <<Formats[i]>>>>

\* A sequence of three is one of its elements.
LEMMA Triple ==
    ASSUME NEW a, NEW b, NEW c
    PROVE  /\ <<a, b, c>> \in Seq({a, b, c})
           /\ Len(<<a, b, c>>) = 3
           /\ \A i \in 1..3 : <<a, b, c>>[i] \in {a, b, c}
OBVIOUS

\* Of a method and placeholders the method is kept and the placeholders are
\* counted.
LEMMA TemplateOf ==
    ASSUME NEW Kind, NEW method \in Seq(Kind), NEW arguments \in Seq(Placeholders),
           Kind \cap Placeholders = {}
    PROVE  /\ Without(method \o arguments, Placeholders) = method
           /\ ArgsCount(method \o arguments) = Len(arguments)
<1>. DEFINE S == Kind \cup Placeholders
            template == method \o arguments
            n == Len(method)
            k == Len(arguments)
<1>1. method \in Seq(S) /\ arguments \in Seq(S)
  BY SeqMonotonic
<1>2. Without(method, Placeholders) = method
  BY WithoutIs
<1>3. Without(arguments, Placeholders) = << >>
  BY WithoutIs
<1>4. Without(template, Placeholders) = method
  <2>1. Without(method \o arguments, Placeholders)
            = Without(method, Placeholders) \o Without(arguments, Placeholders)
    BY <1>1, WithoutConcat
  <2>. QED  BY <1>2, <1>3, <2>1, ConcatEmptySeq
<1>5. ArgsCount(template) = k
  <2>1. /\ n \in Nat /\ k \in Nat /\ DOMAIN template = 1..(n + k)
        /\ \A i \in 1..(n + k) : template[i] = IF i <= n THEN method[i] ELSE arguments[i - n]
    BY <1>1, ConcatProperties, LenProperties
  <2>2. ASSUME NEW i \in 1..(n + k)
        PROVE  IsArgument(template[i]) <=> i \in (n + 1)..(n + k)
    <3>. HIDE DEF template
    <3>1. CASE i <= n
      <4>1. template[i] = method[i] /\ i \in 1..Len(method)
        BY <2>1, <3>1
      <4>2. method[i] \in Kind
        BY <4>1, ElementOfSeq
      <4>. QED  BY <2>1, <3>1, <4>1, <4>2 DEF IsArgument
    <3>2. CASE ~(i <= n)
      <4>1. template[i] = arguments[i - n] /\ i - n \in 1..Len(arguments)
        BY <2>1, <3>2
      <4>2. arguments[i - n] \in Placeholders
        BY <4>1, ElementOfSeq
      <4>. QED  BY <2>1, <3>2, <4>1, <4>2 DEF IsArgument
    <3>. QED  BY <3>1, <3>2
  <2>. HIDE DEF template, n, k
  <2>3. {i \in DOMAIN template : IsArgument(template[i])} = (n + 1)..(n + k)
    <3>1. \A i : i \in (n + 1)..(n + k) => i \in 1..(n + k)
      BY <2>1
    <3>. QED  BY <2>1, <2>2, <3>1
  <2>4. Cardinality((n + 1)..(n + k)) = IF n + 1 > n + k THEN 0 ELSE (n + k) - (n + 1) + 1
    BY <2>1, FS_Interval
  <2>5. \A x, y \in Nat : (IF x + 1 > x + y THEN 0 ELSE (x + y) - (x + 1) + 1) = y
    OBVIOUS
  <2>6. Cardinality((n + 1)..(n + k)) = k
    BY <2>1, <2>4, <2>5
  <2>. QED  BY <2>3, <2>6 DEF ArgsCount
<1>. QED  BY <1>4, <1>5

\* A word other than the two is no placeholder.
LEMMA NoPlaceholder ==
    ASSUME NEW word, word # "{DATE}", word # "{TOKEN}"
    PROVE  <<word>> \notin Placeholders
<1>1. \A other : word # other => <<word>> # <<other>>
  OBVIOUS
<1>. QED  BY <1>1, UriAssumption, Zenon DEF DATE, TOKEN

\* A template is the method and the placeholders of its arguments.
LEMMA RegisterIs ==
    ASSUME NEW name, NEW format,
           name # "{DATE}", name # "{TOKEN}", format # "{DATE}", format # "{TOKEN}",
           NEW arguments \in Seq(Placeholders)
    PROVE  Register(Template(name, format, arguments)) =
               [webMethod   |-> <<<<"StockMarket">>, <<name>>, <<format>>>>,
                uriTemplate |-> <<<<"StockMarket">>, <<name>>, <<format>>>> \o arguments,
                argsCount   |-> Len(arguments)]
<1>. DEFINE method == <<<<"StockMarket">>, <<name>>, <<format>>>>
            Kind == {<<"StockMarket">>, <<name>>, <<format>>}
<1>1. method \in Seq(Kind)
  BY Triple
<1>2. Kind \cap Placeholders = {}
  <2>1. "StockMarket" # "{DATE}" /\ "StockMarket" # "{TOKEN}"
    BY Zenon
  <2>2. /\ <<"StockMarket">> \notin Placeholders
        /\ <<name>> \notin Placeholders
        /\ <<format>> \notin Placeholders
    BY <2>1, NoPlaceholder, Zenon
  <2>. QED  BY <2>2, Zenon
<1>3. Template(name, format, arguments) = method \o arguments
  BY DEF Template
<1>. HIDE DEF method, Kind
<1>4. /\ Without(method \o arguments, Placeholders) = method
      /\ ArgsCount(method \o arguments) = Len(arguments)
  BY <1>1, <1>2, TemplateOf
<1>. QED  BY <1>3, <1>4 DEF Register, method

\* The contracts in the order of their methods.
LEMMA ContractsAre ==
    /\ DOMAIN Contracts = 1..6
    /\ \A i \in 1..6 : /\ Contracts[i].webMethod = Method(i)
                       /\ Contracts[i].uriTemplate = Method(i) \o Argss[i]
                       /\ Contracts[i].argsCount = Len(Argss[i])
<1>. DEFINE Is(contract, name, format, arguments) ==
         contract = [webMethod   |-> <<<<"StockMarket">>, <<name>>, <<format>>>>,
                     uriTemplate |-> <<<<"StockMarket">>, <<name>>, <<format>>>> \o arguments,
                     argsCount   |-> Len(arguments)]
            both == <<DATE, TOKEN>>
            one == <<TOKEN>>
            none == << >>
<1>1. both \in Seq(Placeholders) /\ one \in Seq(Placeholders) /\ none \in Seq(Placeholders)
  <2>1. DATE \in Placeholders /\ TOKEN \in Placeholders
    BY UriAssumption, Zenon
  <2>. QED  BY <2>1
<1>2. /\ \A word \in {"DataByDate", "LatestData", "Token"} :
            word # "{DATE}" /\ word # "{TOKEN}"
      /\ \A word \in {"JSON", "XML"} :
            word # "{DATE}" /\ word # "{TOKEN}"
  BY Zenon
<1>. HIDE DEF both, one, none
<1>3. ASSUME NEW name \in {"DataByDate", "LatestData", "Token"},
             NEW format \in {"JSON", "XML"},
             NEW arguments \in Seq(Placeholders)
      PROVE  Is(Register(Template(name, format, arguments)), name, format, arguments)
  <2>1. /\ name # "{DATE}" /\ name # "{TOKEN}"
        /\ format # "{DATE}" /\ format # "{TOKEN}"
    BY <1>2, Zenon
  <2>. QED  BY <2>1, RegisterIs, Zenon
<1>. HIDE DEF Is
<1>4. Contracts = <<Register(Template("DataByDate", "JSON", both)),
                    Register(Template("DataByDate", "XML", both)),
                    Register(Template("LatestData", "JSON", one)),
                    Register(Template("LatestData", "XML", one)),
                    Register(Template("Token", "JSON", none)),
                    Register(Template("Token", "XML", none))>>
  BY Zenon DEF Contracts, both, one, none, JSON, XML
<1>5. /\ Is(Register(Template("DataByDate", "JSON", both)), "DataByDate", "JSON", both)
      /\ Is(Register(Template("DataByDate", "XML", both)), "DataByDate", "XML", both)
      /\ Is(Register(Template("LatestData", "JSON", one)), "LatestData", "JSON", one)
      /\ Is(Register(Template("LatestData", "XML", one)), "LatestData", "XML", one)
      /\ Is(Register(Template("Token", "JSON", none)), "Token", "JSON", none)
      /\ Is(Register(Template("Token", "XML", none)), "Token", "XML", none)
  BY <1>1, <1>3
<1>6. Argss = <<both, both, one, one, none, none>>
  BY Zenon DEF Argss, both, one, none
<1>7. DOMAIN Contracts = 1..6
  BY <1>4
<1>8. \A i \in 1..6 : Is(Contracts[i], Names[i], Formats[i], Argss[i])
  BY <1>4, <1>5, <1>6 DEF Names, Formats, JSON, XML
<1>9. ASSUME NEW i \in 1..6
      PROVE  /\ Contracts[i].webMethod = Method(i)
             /\ Contracts[i].uriTemplate = Method(i) \o Argss[i]
             /\ Contracts[i].argsCount = Len(Argss[i])
  <2>1. Contracts[i] = [webMethod   |-> Method(i),
                        uriTemplate |-> Method(i) \o Argss[i],
                        argsCount   |-> Len(Argss[i])]
    BY <1>8, Zenon DEF Is, Method
  <2>. QED  BY <2>1
<1>. QED  BY <1>7, <1>9

\* Only the methods without a token have no placeholder; the others end in
\* that of the token.  No two methods are the same.
LEMMA TableIs ==
    /\ JSON # XML
    /\ \A i \in 1..6 :
          /\ Names[i] \in {"DataByDate", "LatestData", "Token"}
          /\ Formats[i] \in {JSON, XML}
          /\ Argss[i] \in Seq(Placeholders)
          /\ Names[i] = "Token" => Argss[i] = << >>
          /\ Names[i] # "Token" => Argss[i] # << >> /\ Last(Argss[i]) = TOKEN
    /\ \A i, j \in 1..6 : Names[i] = Names[j] /\ Formats[i] = Formats[j] => i = j
<1>1. JSON # XML
  BY DEF JSON, XML
<1>2. \A i \in 1..6 : Names[i] \in {"DataByDate", "LatestData", "Token"}
  BY DEF Names
<1>3. \A i \in 1..6 : Formats[i] \in {JSON, XML}
  BY DEF Formats
<1>4. \A i, j \in 1..6 : Names[i] = Names[j] /\ Formats[i] = Formats[j] => i = j
  BY DEF Names, Formats, JSON, XML
<1>5. \A i \in 1..6 : /\ Argss[i] \in Seq(Placeholders)
                      /\ Names[i] = "Token" => Argss[i] = << >>
                      /\ Names[i] # "Token" => Argss[i] # << >> /\ Last(Argss[i]) = TOKEN
  <2>. DEFINE both == <<DATE, TOKEN>>
              one == <<TOKEN>>
              none == << >>
  <2>1. DATE \in Placeholders /\ TOKEN \in Placeholders
    BY UriAssumption, Zenon
  <2>2. /\ both \in Seq(Placeholders) /\ one \in Seq(Placeholders) /\ none \in Seq(Placeholders)
        /\ both # << >> /\ one # << >> /\ Last(both) = TOKEN /\ Last(one) = TOKEN
    BY <2>1 DEF Last
  <2>3. Argss = <<both, both, one, one, none, none>>
    BY Zenon DEF Argss
  <2>4. none = << >>
    OBVIOUS
  <2>. HIDE DEF both, one, none
  <2>5. \A i \in 1..6 : \/ i \in {1, 2} /\ Argss[i] = both /\ Names[i] # "Token"
                        \/ i \in {3, 4} /\ Argss[i] = one /\ Names[i] # "Token"
                        \/ i \in {5, 6} /\ Argss[i] = none /\ Names[i] = "Token"
    BY <2>3 DEF Names
  <2>. QED  BY <2>2, <2>4, <2>5
<1>. QED  BY <1>1, <1>2, <1>3, <1>4, <1>5

\* The first element of a sequence, as a sequence.
LEMMA FirstOf ==
    ASSUME NEW S, NEW t \in Seq(S), Len(t) >= 1
    PROVE  SubSeq(t, 1, 1) = <<t[1]>>
<1>1. Len(t) \in Nat /\ t[1] \in S
  BY ElementOfSeq
<1>2. 1 \in Int /\ \A i \in 1..1 : t[i] \in S
  BY <1>1
<1>3. /\ SubSeq(t, 1, 1) \in Seq(S)
      /\ Len(SubSeq(t, 1, 1)) = IF 1 <= 1 THEN 1 - 1 + 1 ELSE 0
      /\ \A i \in 1..(1 - 1 + 1) : SubSeq(t, 1, 1)[i] = t[1 + i - 1]
  BY <1>2, SubSeqProperties
<1>4. SubSeq(t, 1, 1) \in Seq(S) /\ Len(SubSeq(t, 1, 1)) = 1 /\ SubSeq(t, 1, 1)[1] = t[1]
  BY <1>3
<1>5. /\ <<t[1]>> \in Seq(S) /\ Len(<<t[1]>>) = 1 /\ <<t[1]>>[1] = t[1]
  BY <1>1
<1>6. \A a, b \in Seq(S) : Len(a) = 1 /\ Len(b) = 1 /\ a[1] = b[1] => a = b
  BY SeqEqual
<1>. QED  BY <1>4, <1>5, <1>6, Zenon

\* A word is a prefix of the sequences that start with it.
LEMMA PrefixOfOne ==
    ASSUME NEW S, NEW t \in Seq(S), NEW word
    PROVE  IsPrefix(<<word>>, t) <=> Len(t) >= 1 /\ t[1] = word
<1>1. <<word>> \in Seq({word}) /\ Len(<<word>>) = 1 /\ <<word>>[1] = word /\ Len(t) \in Nat
  OBVIOUS
<1>2. SubSeq(<<word>>, 1, 1) = <<word>>
  <2>. DEFINE one == <<word>>
  <2>1. one \in Seq({word}) /\ Len(one) >= 1 /\ one[1] = word
    BY <1>1
  <2>. HIDE DEF one
  <2>2. SubSeq(one, 1, 1) = <<one[1]>>
    BY <2>1, FirstOf
  <2>3. SubSeq(one, 1, 1) = <<word>>
    BY <2>1, <2>2
  <2>. QED  BY <2>3 DEF one
<1>3. ASSUME Len(t) >= 1
      PROVE  SubSeq(<<word>>, 1, 1) = SubSeq(t, 1, 1) <=> word = t[1]
  <2>1. SubSeq(t, 1, 1) = <<t[1]>>
    BY <1>3, FirstOf
  <2>2. <<word>> = <<t[1]>> <=> word = t[1]
    OBVIOUS
  <2>. QED  BY <1>2, <2>1, <2>2
<1>4. IsPrefix(<<word>>, t) <=> 1 <= Len(t) /\ SubSeq(<<word>>, 1, 1) = SubSeq(t, 1, 1)
  BY <1>1 DEF IsPrefix
<1>. HIDE DEF IsPrefix
<1>. QED  BY <1>1, <1>3, <1>4

\* The words of a method are those of the table.
LEMMA MethodIs ==
    ASSUME NEW i \in 1..6
    PROVE  /\ Len(Method(i)) = 3
           /\ Method(i)[1] = <<"StockMarket">>
           /\ Method(i)[2] = <<Names[i]>>
           /\ Method(i)[3] = <<Formats[i]>>
<1>1. \A a, b, c : /\ Len(<<a, b, c>>) = 3
                   /\ <<a, b, c>>[1] = a /\ <<a, b, c>>[2] = b /\ <<a, b, c>>[3] = c
  OBVIOUS
<1>. QED  BY <1>1, Zenon DEF Method

Begins(uri, i) ==
    /\ Len(uri) >= 3 /\ uri[1] = <<"StockMarket">> /\ uri[2] = <<Names[i]>>
    /\ Len(uri[3]) >= 1 /\ uri[3][1] = Formats[i]

\* A URI that starts with a method has its name and, in front of the third piece,
\* its format.
LEMMA StartsWithIs ==
    ASSUME NEW uri \in Seq(Seq(STRING)), NEW i \in 1..6
    PROVE  StartsWith(uri, Method(i)) <=> Begins(uri, i)
<1>1. Len(uri) \in Nat
  OBVIOUS
<1>2. ASSUME Len(uri) >= 3
      PROVE  IsPrefix(<<Formats[i]>>, uri[3]) <=> Len(uri[3]) >= 1 /\ uri[3][1] = Formats[i]
  <2>1. uri[3] \in Seq(STRING)
    BY <1>2, ElementOfSeq
  <2>. QED  BY <2>1, PrefixOfOne
<1>3. (\A j \in 1..(3 - 1) : uri[j] = Method(i)[j])
          <=> uri[1] = <<"StockMarket">> /\ uri[2] = <<Names[i]>>
  <2>1. 1..(3 - 1) = {1, 2}
    OBVIOUS
  <2>2. Method(i)[1] = <<"StockMarket">> /\ Method(i)[2] = <<Names[i]>>
    BY MethodIs
  <2>. QED  BY <2>1, <2>2
<1>. QED  BY <1>1, <1>2, <1>3, MethodIs DEF StartsWith, Begins

\* A URI starts with at most one of the methods.
LEMMA StartsWithOne ==
    ASSUME NEW uri, NEW i \in 1..6, NEW j \in 1..6, Begins(uri, i), Begins(uri, j)
    PROVE  i = j
<1>1. \A a, b : <<a>> = <<b>> => a = b
  OBVIOUS
<1>2. Names[i] = Names[j] /\ Formats[i] = Formats[j]
  BY <1>1 DEF Begins
<1>. QED  BY <1>2, TableIs

\* A sequence is its first three elements and the rest.
LEMMA RestIs ==
    ASSUME NEW S, NEW s \in Seq(S), Len(s) >= 3
    PROVE  LET rest == SubSeq(s, 4, Len(s))
           IN  /\ rest \in Seq(S) /\ Len(rest) = Len(s) - 3
               /\ \A j \in 1..(Len(s) - 3) : rest[j] = s[j + 3]
               /\ SubSeq(s, 1, 3) \in Seq(S) /\ s = SubSeq(s, 1, 3) \o rest
               /\ Len(s) > 3 => rest # << >> /\ Last(rest) = Last(s)
<1>. DEFINE n == Len(s)
            rest == SubSeq(s, 4, n)
            front == SubSeq(s, 1, 3)
<1>1. n \in Nat /\ n >= 3 /\ \A i \in 1..n : s[i] \in S
  BY ElementOfSeq
<1>2. s = front \o rest
  <2>1. 1 \in 1..(n + 1) /\ 3 \in (1 - 1)..n /\ n \in 3..n
    BY <1>1
  <2>2. SubSeq(s, 1, 3) \o SubSeq(s, 3 + 1, n) = SubSeq(s, 1, n)
    BY <2>1, ConcatAdjacentSubSeq
  <2>3. SubSeq(s, 1, n) = s /\ 3 + 1 = 4
    BY SubSeqFull
  <2>. QED  BY <2>2, <2>3
<1>. HIDE DEF n
<1>3. front \in Seq(S)
  <2>1. 1 \in Int /\ 3 \in Int /\ \A i \in 1..3 : s[i] \in S
    BY <1>1
  <2>. QED  BY <2>1, SubSeqProperties
<1>4. /\ rest \in Seq(S) /\ Len(rest) = n - 3
      /\ \A j \in 1..(n - 3) : rest[j] = s[j + 3]
  <2>1. 4 \in Int /\ n \in Int /\ \A i \in 4..n : s[i] \in S
    BY <1>1
  <2>2. /\ rest \in Seq(S)
        /\ Len(rest) = IF 4 <= n THEN n - 4 + 1 ELSE 0
        /\ \A i \in 1..(n - 4 + 1) : rest[i] = s[4 + i - 1]
    BY <2>1, SubSeqProperties
  <2>. HIDE DEF rest
  <2>3. \A m \in Nat : m >= 3 => (IF 4 <= m THEN m - 4 + 1 ELSE 0) = m - 3
    OBVIOUS
  <2>4. \A j \in 1..(n - 3) : j \in 1..(n - 4 + 1) /\ 4 + j - 1 = j + 3
    BY <1>1
  <2>5. Len(rest) = n - 3
    BY <1>1, <2>2, <2>3
  <2>. QED  BY <2>2, <2>4, <2>5
<1>5. n > 3 => rest # << >> /\ Last(rest) = Last(s)
  <2>. SUFFICES ASSUME n > 3 PROVE rest # << >> /\ Last(rest) = Last(s)
    OBVIOUS
  <2>. HIDE DEF rest
  <2>1. n - 3 \in 1..(n - 3) /\ n - 3 # 0 /\ (n - 3) + 3 = n
    BY <1>1
  <2>2. rest # << >>
    BY <1>4, <2>1, EmptySeq
  <2>3. rest[n - 3] = s[n]
    BY <1>4, <2>1
  <2>. QED  BY <1>4, <2>2, <2>3 DEF Last, n
<1>. QED  BY <1>2, <1>3, <1>4, <1>5 DEF n

Pieces == Seq(STRING)

\* What follows the method in the piece that it ends in.
Glued(uri) == SubSeq(uri[3], 2, Len(uri[3]))

Rest(uri) == SubSeq(uri, 4, Len(uri))

\* What is glued to a format is a piece, the empty one if there is nothing.
LEMMA GluedIs ==
    ASSUME NEW uri \in Seq(Pieces), Len(uri) >= 3
    PROVE  /\ Glued(uri) \in Pieces
           /\ Len(uri[3]) = 1 => Glued(uri) = Empty
<1>1. uri[3] \in Seq(STRING)
  BY ElementOfSeq DEF Pieces
<1>2. Len(uri[3]) \in Nat /\ 2 \in Int /\ \A i \in 2..Len(uri[3]) : uri[3][i] \in STRING
  BY <1>1, ElementOfSeq
<1>3. SubSeq(uri[3], 2, Len(uri[3])) \in Seq(STRING)
  BY <1>2, SubSeqProperties
<1>4. ASSUME Len(uri[3]) = 1 PROVE SubSeq(uri[3], 2, Len(uri[3])) = << >>
  BY <1>2, <1>4, SubSeqEmpty
<1>. QED  BY <1>3, <1>4 DEF Glued, Pieces, Empty

\* What follows a method is what is glued to it and the rest of the URI.
LEMMA RemainderIs ==
    ASSUME NEW uri, NEW i \in 1..6
    PROVE  Remainder(uri, Method(i)) = <<Glued(uri)>> \o Rest(uri)
<1>1. Len(<<Formats[i]>>) + 1 = 2 /\ 3 + 1 = 4
  OBVIOUS
<1>2. Len(Method(i)) = 3 /\ Method(i)[3] = <<Formats[i]>>
  BY MethodIs
<1>3. Remainder(uri, Method(i)) =
          <<SubSeq(uri[3], Len(Method(i)[3]) + 1, Len(uri[3]))>> \o SubSeq(uri, 3 + 1, Len(uri))
  BY <1>2 DEF Remainder
<1>. QED  BY <1>1, <1>2, <1>3 DEF Glued, Rest

\* The arguments of a URI that ends in one and starts with a method.
LEMMA ArgumentsAre ==
    ASSUME NEW uri \in Seq(Pieces), NEW i \in 1..6, Len(uri) >= 3
    PROVE  LET args == Arguments(uri, Method(i))
           IN  /\ args \in Seq(Pieces)
               /\ Len(uri) = 3 => args = << >>
               /\ Len(uri) > 3 /\ Last(uri) # Empty =>
                      args # << >> /\ Last(args) = Last(uri)
               /\ Len(uri[3]) = 1 => args = Without(Rest(uri), {Empty})
<1>. DEFINE args == Arguments(uri, Method(i))
            pieces == <<Glued(uri)>> \o Rest(uri)
            S == Pieces
<1>1. /\ Rest(uri) \in Seq(S) /\ Len(Rest(uri)) = Len(uri) - 3
      /\ Len(uri) > 3 => Rest(uri) # << >> /\ Last(Rest(uri)) = Last(uri)
  BY RestIs DEF Rest
<1>2. Glued(uri) \in S /\ (Len(uri[3]) = 1 => Glued(uri) = Empty)
  BY GluedIs
<1>3. Len(uri) \in Nat
  OBVIOUS
<1>4. args = IF Len(pieces) = 1 THEN << >> ELSE Without(pieces, {Empty})
  BY RemainderIs DEF Arguments
<1>. HIDE DEF S, args
<1>5. /\ pieces \in Seq(S) /\ Len(pieces) = Len(uri) - 2 /\ <<Glued(uri)>> \in Seq(S)
      /\ Len(<<Glued(uri)>>) = 1
      /\ \A j \in 1..Len(Rest(uri)) : pieces[j + 1] = Rest(uri)[j]
  BY <1>1, <1>2, <1>3
<1>6. Without(<<Glued(uri)>>, {Empty}) \in Seq(S) /\ Without(Rest(uri), {Empty}) \in Seq(S)
      /\ Without(pieces, {Empty}) \in Seq(S)
  <2>1. ASSUME NEW s \in Seq(S) PROVE Without(s, {Empty}) \in Seq(S)
    <3>1. Without(s, {Empty}) \in Seq(S \ {Empty})
      BY WithoutIs
    <3>. QED  BY <3>1, SeqMonotonic
  <2>. QED  BY <1>1, <1>5, <2>1
<1>7. Without(pieces, {Empty}) = Without(<<Glued(uri)>>, {Empty}) \o Without(Rest(uri), {Empty})
  BY <1>1, <1>5, WithoutConcat
<1>8. args \in Seq(S)
  <2>1. << >> \in Seq(S)
    BY EmptySeq
  <2>. QED  BY <1>4, <1>6, <2>1
<1>9. ASSUME Len(uri) = 3 PROVE args = << >>
  BY <1>4, <1>5, <1>9
<1>10. ASSUME Len(uri) > 3, Last(uri) # Empty
       PROVE  args # << >> /\ Last(args) = Last(uri)
  <2>1. args = Without(pieces, {Empty})
    BY <1>3, <1>4, <1>5, <1>10
  <2>2. pieces # << >> /\ Last(pieces) = Last(uri)
    <3>1. /\ Len(uri) - 3 \in 1..Len(Rest(uri)) /\ (Len(uri) - 3) + 1 = Len(uri) - 2
          /\ Len(pieces) # 0
      BY <1>1, <1>3, <1>5, <1>10
    <3>2. pieces[Len(pieces)] = Rest(uri)[Len(Rest(uri))]
      BY <1>1, <1>5, <3>1
    <3>. HIDE DEF pieces
    <3>3. pieces # << >>
      BY <1>5, <3>1, EmptySeq
    <3>. QED  BY <1>1, <1>10, <3>2, <3>3 DEF Last
  <2>. HIDE DEF pieces
  <2>3. Last(pieces) \notin {Empty}
    BY <1>10, <2>2
  <2>. QED  BY <1>5, <2>1, <2>2, <2>3, WithoutLast
<1>11. ASSUME Len(uri[3]) = 1 PROVE args = Without(Rest(uri), {Empty})
  <2>1. Without(<<Glued(uri)>>, {Empty}) = << >>
    <3>1. <<Empty>> \in Seq({Empty})
      OBVIOUS
    <3>2. Without(<<Empty>>, {Empty}) = << >>
      BY <3>1, WithoutIs
    <3>. QED  BY <1>2, <1>11, <3>2
  <2>2. Without(pieces, {Empty}) = Without(Rest(uri), {Empty})
    BY <1>6, <1>7, <2>1, ConcatEmptySeq
  <2>3. CASE Len(uri) = 3
    <3>1. Rest(uri) = << >>
      BY <1>1, <2>3, EmptySeq
    <3>. QED  BY <1>9, <2>3, <3>1, WithoutEmpty
  <2>4. CASE Len(uri) # 3
    <3>1. Len(pieces) # 1
      BY <1>3, <1>5, <2>4
    <3>. QED  BY <1>4, <2>2, <3>1
  <2>. QED  BY <2>3, <2>4
<1>. QED  BY <1>8, <1>9, <1>10, <1>11 DEF S, args

\* The URI fits the i-th contract.
Fits(uri, i) == Begins(uri, i) /\ Len(Arguments(uri, Method(i))) = Len(Argss[i])

\* However many contracts are tried, a URI is resolved to the only one that it
\* fits, with its arguments alone.
LEMMA ResolveFinds ==
    ASSUME NEW uri \in Seq(Pieces)
    PROVE  LET resolved == Resolve(Contracts, uri)
           IN  \/ /\ resolved.found = FALSE
                  /\ Last(uri) = Empty \/ \A i \in 1..6 : ~Fits(uri, i)
               \/ /\ resolved.found = TRUE
                  /\ Last(uri) # Empty
                  /\ \E i \in 1..6 : /\ Fits(uri, i)
                                     /\ resolved.uriTemplate = Method(i) \o Argss[i]
                                     /\ resolved.args = Arguments(uri, Method(i))
<1>. DEFINE tried == {i \in DOMAIN Contracts : StartsWith(uri, Contracts[i].webMethod)}
            fits == {i \in tried : ArgumentsFit(uri, Contracts[i])}
            first == CHOOSE i \in fits : \A j \in fits : i <= j
            args(i) == IF i \in tried THEN Arguments(uri, Contracts[i].webMethod) ELSE << >>
            resolved == Resolve(Contracts, uri)
<1>1. tried = {i \in 1..6 : Begins(uri, i)}
  <2>1. ASSUME NEW i \in 1..6
        PROVE  StartsWith(uri, Contracts[i].webMethod) <=> Begins(uri, i)
    <3>1. StartsWith(uri, Method(i)) <=> Begins(uri, i)
      BY StartsWithIs DEF Pieces
    <3>. QED  BY <3>1, ContractsAre
  <2>. QED  BY <2>1, ContractsAre
<1>2. fits = {i \in 1..6 : Fits(uri, i)}
  <2>1. ASSUME NEW i \in 1..6
        PROVE  ArgumentsFit(uri, Contracts[i])
                   <=> Len(Arguments(uri, Method(i))) = Len(Argss[i])
    <3>1. Contracts[i].webMethod = Method(i) /\ Contracts[i].argsCount = Len(Argss[i])
      BY ContractsAre
    <3>2. ArgumentsFit(uri, Contracts[i])
              <=> Contracts[i].argsCount = Len(Arguments(uri, Contracts[i].webMethod))
      BY Zenon DEF ArgumentsFit
    <3>. QED  BY <3>1, <3>2
  <2>. HIDE DEF tried
  <2>. QED  BY <1>1, <2>1 DEF Fits
<1>3. resolved = IF Last(uri) = Empty \/ fits = {}
                 THEN [found |-> FALSE]
                 ELSE [found       |-> TRUE,
                       uriTemplate |-> Contracts[first].uriTemplate,
                       args        |-> FlattenSeq([i \in 1..first |-> args(i)])]
  BY DEF Resolve
<1>4. CASE Last(uri) = Empty \/ fits = {}
  <2>1. resolved = [found |-> FALSE]
    BY <1>3, <1>4
  <2>2. resolved.found = FALSE
    BY <2>1
  <2>3. Last(uri) = Empty \/ \A i \in 1..6 : ~Fits(uri, i)
    BY <1>2, <1>4
  <2>. QED  BY <2>2, <2>3
<1>5. CASE Last(uri) # Empty /\ fits # {}
  <2>. DEFINE seqs == [i \in 1..first |-> args(i)]
  <2>1. first \in fits
    <3>1. fits \subseteq Nat
      BY <1>2
    <3>. HIDE DEF fits
    <3>2. \E i \in fits : \A j \in fits : i <= j
      BY <1>5, <3>1, LeastElement
    <3>. QED  BY <3>2
  <2>. HIDE DEF tried, fits, first
  <2>2. first \in 1..6 /\ Fits(uri, first)
    BY <1>2, <2>1
  <2>3. \A i \in 1..first : i < first => seqs[i] = << >>
    <3>. SUFFICES ASSUME NEW i \in 1..first, i < first PROVE i \notin tried
      OBVIOUS
    <3>1. i \in 1..6 /\ i # first
      BY <2>2
    <3>2. ~Begins(uri, i)
      BY <2>2, <3>1, StartsWithOne DEF Fits
    <3>. QED  BY <1>1, <3>2
  <2>4. seqs[first] = Arguments(uri, Method(first))
    <3>1. first \in tried /\ first \in 1..first
      BY <1>1, <2>2 DEF Fits
    <3>2. Contracts[first].webMethod = Method(first)
      BY <2>2, ContractsAre
    <3>. QED  BY <3>1, <3>2
  <2>5. seqs[first] \in Seq(Pieces)
    <3>1. Len(uri) >= 3
      BY <2>2 DEF Fits, Begins
    <3>2. Arguments(uri, Method(first)) \in Seq(Pieces)
      BY <2>2, <3>1, ArgumentsAre
    <3>. QED  BY <2>4, <3>2
  <2>6. seqs = [i \in 1..first |-> seqs[i]] /\ first \in Nat \ {0}
    BY <2>2
  <2>7. resolved = [found       |-> TRUE,
                    uriTemplate |-> Contracts[first].uriTemplate,
                    args        |-> FlattenSeq(seqs)]
    BY <1>3, <1>5
  <2>. HIDE DEF seqs, resolved
  <2>8. FlattenSeq(seqs) = seqs[first]
    BY <2>3, <2>5, <2>6, FlattenLast
  <2>9. Contracts[first].uriTemplate = Method(first) \o Argss[first]
    BY <2>2, ContractsAre
  <2>10. /\ resolved.found = TRUE
         /\ resolved.uriTemplate = Method(first) \o Argss[first]
         /\ resolved.args = Arguments(uri, Method(first))
    BY <2>4, <2>7, <2>8, <2>9
  <2>. QED  BY <1>5, <2>2, <2>10 DEF resolved
<1>. QED  BY <1>4, <1>5

\* A placeholder is one word.
LEMMA PlaceholderIs ==
    ASSUME NEW piece \in Placeholders
    PROVE  /\ \E word : piece = <<word>>
           /\ \A word : IsPrefix(<<word>>, piece) => piece = <<word>>
<1>1. PICK other : piece = <<other>>
  BY UriAssumption, Zenon DEF DATE, TOKEN
<1>2. ASSUME NEW word, IsPrefix(<<word>>, piece) PROVE piece = <<word>>
  <2>1. piece \in Seq({other}) /\ piece[1] = other
    BY <1>1
  <2>2. piece[1] = word
    BY <1>2, <2>1, PrefixOfOne
  <2>. QED  BY <1>1, <2>1, <2>2
<1>. QED  BY <1>1, <1>2

\* The words of the methods are no placeholders.
LEMMA WordsArePlain ==
    \A word \in {"StockMarket", "DataByDate", "LatestData", "Token", JSON, XML} :
        <<word>> \notin Placeholders
<1>1. \A word \in {"StockMarket", "DataByDate", "LatestData", "Token", "JSON", "XML"} :
          word # "{DATE}" /\ word # "{TOKEN}"
  BY Zenon
<1>. QED  BY <1>1, NoPlaceholder, Zenon DEF JSON, XML

\* What the methods behind a template read from it.
LEMMA TemplateIs ==
    ASSUME NEW i \in 1..6
    PROVE  LET template == Method(i) \o Argss[i]
           IN  /\ Len(template) = 3 + Len(Argss[i])
               /\ ArgsCount(template) = Len(Argss[i])
               /\ Format(template) = Formats[i]
               /\ NeedsToken(template) <=> Names[i] # "Token"
               /\ \A name : HasName(template, name) <=> Names[i] = name
<1>. DEFINE template == Method(i) \o Argss[i]
            Kind == {<<"StockMarket">>, <<Names[i]>>, <<Formats[i]>>}
            n == Len(Argss[i])
<1>1. Method(i) \in Seq(Kind) /\ Len(Method(i)) = 3
  BY Triple, Zenon DEF Method
<1>2. Argss[i] \in Seq(Placeholders) /\ n \in Nat
  <2>1. Argss[i] \in Seq(Placeholders)
    BY TableIs, Zenon
  <2>. QED  BY <2>1, LenProperties
<1>3. <<"StockMarket">> \notin Placeholders /\ <<Names[i]>> \notin Placeholders
      /\ <<Formats[i]>> \notin Placeholders /\ <<JSON>> \notin Placeholders
      /\ <<XML>> \notin Placeholders
  <2>1. Names[i] \in {"DataByDate", "LatestData", "Token"} /\ Formats[i] \in {JSON, XML}
    BY TableIs
  <2>. QED  BY <2>1, WordsArePlain
<1>4. Kind \cap Placeholders = {}
  BY <1>3
<1>5. ArgsCount(template) = n
  BY <1>1, <1>2, <1>4, TemplateOf
<1>. HIDE DEF Kind
<1>6. /\ Len(template) = 3 + n /\ DOMAIN template = 1..(3 + n)
      /\ \A j \in 1..3 : template[j] = Method(i)[j]
      /\ \A j \in 1..n : template[j + 3] = Argss[i][j]
  <2>1. Method(i) \in Seq(Kind \cup Placeholders) /\ Argss[i] \in Seq(Kind \cup Placeholders)
    BY <1>1, <1>2, SeqMonotonic
  <2>2. /\ Len(template) = 3 + n
        /\ \A j \in 1..(3 + n) :
              template[j] = IF j <= 3 THEN Method(i)[j] ELSE Argss[i][j - 3]
    <3>1. ASSUME NEW S, NEW a \in Seq(S), NEW b \in Seq(S), Len(a) = 3
          PROVE  /\ Len(a \o b) = 3 + Len(b)
                 /\ \A j \in 1..(3 + Len(b)) :
                       (a \o b)[j] = IF j <= 3 THEN a[j] ELSE b[j - 3]
      <4>1. /\ Len(a \o b) = Len(a) + Len(b)
            /\ \A j \in 1..(Len(a) + Len(b)) :
                  (a \o b)[j] = IF j <= Len(a) THEN a[j] ELSE b[j - Len(a)]
        BY ConcatProperties, Zenon
      <4>2. Len(a \o b) = 3 + Len(b)
        BY <3>1, <4>1
      <4>3. ASSUME NEW j \in 1..(3 + Len(b))
            PROVE  (a \o b)[j] = IF j <= 3 THEN a[j] ELSE b[j - 3]
        BY <3>1, <4>1, Zenon
      <4>. QED  BY <4>2, <4>3, Zenon
    <3>. QED  BY <1>1, <2>1, <3>1
  <2>3. \A j \in 1..3 : j \in 1..(3 + n) /\ j <= 3
    BY <1>2
  <2>4. \A j \in 1..n : j + 3 \in 1..(3 + n) /\ ~(j + 3 <= 3) /\ (j + 3) - 3 = j
    BY <1>2
  <2>5. DOMAIN template = 1..(3 + n)
    BY <1>2, <2>1, <2>2, LenProperties, ConcatProperties
  <2>. HIDE DEF template, n
  <2>. QED  BY <2>2, <2>3, <2>4, <2>5
<1>. HIDE DEF template
<1>7. /\ template[1] = <<"StockMarket">> /\ template[2] = <<Names[i]>>
      /\ template[3] = <<Formats[i]>>
      /\ \A j \in 1..(3 + n) : j > 3 => template[j] \in Placeholders
  <2>1. template[1] = <<"StockMarket">> /\ template[2] = <<Names[i]>>
        /\ template[3] = <<Formats[i]>>
    BY <1>6, MethodIs
  <2>2. ASSUME NEW j \in 1..(3 + n), j > 3 PROVE template[j] \in Placeholders
    <3>1. j - 3 \in 1..n /\ (j - 3) + 3 = j
      BY <1>2, <2>2
    <3>2. template[j] = Argss[i][j - 3]
      BY <1>6, <3>1
    <3>. QED  BY <1>2, <3>1, <3>2, ElementOfSeq
  <2>. QED  BY <2>1, <2>2
<1>8. ASSUME NEW format \in {JSON, XML}
      PROVE  Mentions(template, format) <=> format = Formats[i]
  <2>1. \A a, b : IsPrefix(<<a>>, <<b>>) <=> a = b
    <3>. TAKE a, b
    <3>. DEFINE one == <<b>>
    <3>1. one \in Seq({b}) /\ Len(one) = 1 /\ one[1] = b
      OBVIOUS
    <3>. HIDE DEF one
    <3>2. IsPrefix(<<a>>, one) <=> Len(one) >= 1 /\ one[1] = a
      BY <3>1, PrefixOfOne, Zenon
    <3>3. IsPrefix(<<a>>, one) <=> a = b
      BY <3>1, <3>2
    <3>. QED  BY <3>3 DEF one
  <2>2. format # Names[i]
    BY TableIs DEF JSON, XML
  <2>3. \A j \in 1..(3 + n) : j > 3 => ~IsPrefix(<<format>>, template[j])
    BY <1>3, <1>7, PlaceholderIs
  <2>4. ~IsPrefix(<<format>>, template[2])
    BY <1>7, <2>1, <2>2
  <2>5. IsPrefix(<<format>>, template[3]) <=> format = Formats[i]
    BY <1>7, <2>1
  <2>6. \A j \in 2..(3 + n) : j = 2 \/ j = 3 \/ (j \in 1..(3 + n) /\ j > 3)
    BY <1>2
  <2>7. 3 \in 2..(3 + n)
    BY <1>2
  <2>. QED  BY <1>6, <2>3, <2>4, <2>5, <2>6, <2>7 DEF Mentions
<1>9. Format(template) = Formats[i]
  <2>1. Formats[i] \in {JSON, XML} /\ JSON # XML
    BY TableIs
  <2>. QED  BY <1>8, <2>1 DEF Format
<1>10. NeedsToken(template) <=> Names[i] # "Token"
  <2>1. TOKEN \in Placeholders
    BY UriAssumption, Zenon
  <2>2. ASSUME Names[i] # "Token" PROVE NeedsToken(template)
    <3>1. Argss[i] # << >> /\ Last(Argss[i]) = TOKEN
      BY <2>2, TableIs
    <3>2. n \in 1..n
      BY <1>2, <3>1, EmptySeq
    <3>3. template[n + 3] = TOKEN /\ n + 3 \in 1..(3 + n)
      BY <1>2, <1>6, <3>1, <3>2 DEF Last
    <3>. QED  BY <1>6, <3>3 DEF NeedsToken
  <2>3. ASSUME Names[i] = "Token" PROVE ~NeedsToken(template)
    <3>1. n = 0
      <4>1. Argss[i] = << >>
        BY <2>3, TableIs, Zenon
      <4>. QED  BY <4>1
    <3>2. DOMAIN template = 1..3
      BY <1>6, <3>1
    <3>3. \A j \in 1..3 : template[j] \notin Placeholders
      BY <1>3, <1>7
    <3>. QED  BY <2>1, <3>2, <3>3 DEF NeedsToken
  <2>. QED  BY <2>2, <2>3
<1>11. \A name : HasName(template, name) <=> Names[i] = name
  <2>1. \A a, b : <<a>> = <<b>> <=> a = b
    OBVIOUS
  <2>. QED  BY <1>7, <2>1 DEF HasName
<1>. QED  BY <1>5, <1>6, <1>9, <1>10, <1>11 DEF template

-----------------------------------------------------------------------------
(***************************************************************************)
(* Keys.                                                                   *)
(***************************************************************************)
\* An object recovers what it encrypted.
LEMMA DecryptRecovers ==
    ASSUME NEW crypto \in Cryptos, NEW text \in Texts
    PROVE  Decrypt(crypto, Encrypt(crypto, text)) = [ok |-> TRUE, recoveredText |-> text]
<1>. DEFINE plainTexts == {t \in Texts : Encrypt(crypto, t) = Encrypt(crypto, text)}
<1>1. \A t \in Texts : Encrypt(crypto, t) = Encrypt(crypto, text) => t = text
  BY CipherAssumption DEF Encrypt
<1>2. plainTexts = {text}
  BY <1>1
<1>. QED  BY <1>2 DEF Decrypt

\* It recovers nothing of what an object with another key encrypted.
LEMMA OtherKeyFails ==
    ASSUME NEW crypto \in Cryptos, NEW other \in Cryptos, crypto # other,
           NEW text \in Texts
    PROVE  Decrypt(crypto, Encrypt(other, text)).ok = FALSE
<1>1. {t \in Texts : Encrypt(crypto, t) = Encrypt(other, text)} = {}
  BY CipherAssumption DEF Encrypt
<1>. QED  BY <1>1 DEF Decrypt

-----------------------------------------------------------------------------
(***************************************************************************)
(* Clocks.                                                                 *)
(***************************************************************************)
\* The truncated clock is behind by less than a second.
LEMMA WholeSecondsBehind ==
    ASSUME NEW time \in Nat
    PROVE  /\ WholeSeconds(time) \in Nat
           /\ WholeSeconds(time) <= time
           /\ time < WholeSeconds(time) + Second
BY TimeAssumption DEF WholeSeconds

\* A token is valid from the moment that it names until it is as old as allowed.
LEMMA TokenServes ==
    ASSUME NEW token \in Texts, NEW time \in token..(token + MaxDifference)
    PROVE  IsValidToken(Encrypt(TokenClient, token), time)
<1>1. token \in Nat /\ time \in Nat /\ TokenClient \in Cryptos
  BY CryptoAssumption, TimeAssumption
<1>2. Decrypt(TokenClient, Encrypt(TokenClient, token)) = [ok |-> TRUE, recoveredText |-> token]
  BY <1>1, DecryptRecovers
<1>3. Difference(WholeSeconds(time), token) <= MaxDifference
  BY <1>1, WholeSecondsBehind, TimeAssumption DEF Difference
<1>. QED  BY <1>2, <1>3 DEF IsValidToken

\* A valid token is less than a second beyond the window, on either side.
LEMMA ValidTokenIsTimely ==
    ASSUME NEW token \in Texts, NEW time \in Nat,
           IsValidToken(Encrypt(TokenClient, token), time)
    PROVE  Difference(time, token) < MaxDifference + Second
<1>1. token \in Nat /\ TokenClient \in Cryptos
  BY CryptoAssumption
<1>2. Difference(WholeSeconds(time), token) <= MaxDifference
  BY <1>1, DecryptRecovers DEF IsValidToken
<1>. QED  BY <1>1, <1>2, WholeSecondsBehind, TimeAssumption DEF Difference

-----------------------------------------------------------------------------
(***************************************************************************)
(* Replies.                                                                *)
(***************************************************************************)
Token(type, time) ==
    [type |-> type, body |-> "token", token |-> Encrypt(TokenServer, time)]

\* What is printed for a URI at a time.
Answers(uri, printed, time) ==
    \/ /\ Last(uri) = Empty \/ \A i \in 1..6 : ~Fits(uri, i)
       /\ printed = Printed(Format(uri), "400")
    \/ /\ Last(uri) # Empty
       /\ \E i \in 1..6 :
             /\ Fits(uri, i)
             /\ \/ /\ Names[i] # "Token"
                   /\ ~IsValidToken(Last(uri), time)
                   /\ printed = Printed(Formats[i], "INVALID_TOKEN")
                \/ /\ Names[i] # "Token"
                   /\ IsValidToken(Last(uri), time)
                   /\ printed \in {Printed(Formats[i], "quotes"), Printed(Formats[i], "404"),
                                   Printed("text", "500")}
                \/ Names[i] = "Token" /\ printed = Token(Formats[i], time)

\* The URI that fits a contract with placeholders ends in its last argument.
LEMMA LastArgument ==
    ASSUME NEW uri \in Seq(Pieces), Last(uri) # Empty,
           NEW i \in 1..6, Fits(uri, i), Names[i] # "Token"
    PROVE  Last(Arguments(uri, Method(i))) = Last(uri)
<1>1. Len(uri) >= 3 /\ Len(uri) \in Nat
  BY DEF Fits, Begins
<1>2. Argss[i] # << >> /\ Argss[i] \in Seq(Placeholders)
  BY TableIs, Zenon
<1>3. Len(Arguments(uri, Method(i))) # 0
  BY <1>2, EmptySeq DEF Fits
<1>4. Len(uri) # 3
  <2>1. Len(uri) = 3 => Arguments(uri, Method(i)) = << >>
    BY <1>1, ArgumentsAre
  <2>2. Len(<< >>) = 0
    OBVIOUS
  <2>. QED  BY <1>3, <2>1, <2>2
<1>5. Len(uri) > 3
  <2>1. \A n \in Nat : n >= 3 /\ n # 3 => n > 3
    OBVIOUS
  <2>. QED  BY <1>1, <1>4, <2>1, Zenon
<1>6. Len(uri) > 3 /\ Last(uri) # Empty => Last(Arguments(uri, Method(i))) = Last(uri)
  BY <1>1, ArgumentsAre, Zenon
<1>. QED  BY <1>5, <1>6

\* A request is answered so.
LEMMA HandleAnswers ==
    ASSUME NEW uri \in Seq(Pieces), NEW printed \in Handle(uri)
    PROVE  Answers(uri, printed, now)
<1>. DEFINE resolved == Resolve(Contracts, uri)
            template == resolved.uriTemplate
<1>1. CASE resolved.found = FALSE
  <2>1. Last(uri) = Empty \/ \A i \in 1..6 : ~Fits(uri, i)
    BY <1>1, ResolveFinds
  <2>2. printed = Printed(Format(uri), "400")
    BY <1>1 DEF Handle
  <2>. QED  BY <2>1, <2>2 DEF Answers
<1>2. CASE resolved.found = TRUE
  <2>1. PICK i \in 1..6 : /\ Fits(uri, i)
                          /\ template = Method(i) \o Argss[i]
                          /\ resolved.args = Arguments(uri, Method(i))
    BY <1>2, ResolveFinds
  <2>2. Last(uri) # Empty
    BY <1>2, ResolveFinds
  <2>3. /\ Format(template) = Formats[i]
        /\ NeedsToken(template) <=> Names[i] # "Token"
        /\ \A name : HasName(template, name) <=> Names[i] = name
    BY <2>1, TemplateIs
  <2>4. Names[i] # "Token" => TokenArgument(resolved) = Last(uri)
    BY <2>1, <2>2, LastArgument DEF TokenArgument
  <2>5. printed \in
            IF NeedsToken(template) /\ ~IsValidToken(TokenArgument(resolved), now)
            THEN {Printed(Format(template), "INVALID_TOKEN")}
            ELSE Replies(template)
    BY <1>2 DEF Handle
  <2>6. ASSUME printed \in Replies(template)
        PROVE  \/ /\ Names[i] # "Token"
                  /\ printed \in {Printed(Formats[i], "quotes"), Printed(Formats[i], "404"),
                                  Printed("text", "500")}
               \/ Names[i] = "Token" /\ printed = Token(Formats[i], now)
    <3>1. Names[i] \in {"DataByDate", "LatestData", "Token"}
      BY TableIs
    <3>2. PrintedToken(Formats[i]) = Token(Formats[i], now)
      BY DEF PrintedToken, Token, GetToken
    <3>. HIDE DEF resolved, template
    <3>3. CASE Names[i] = "DataByDate"
      BY <2>3, <2>6, <3>3 DEF Replies
    <3>4. CASE Names[i] = "LatestData"
      BY <2>3, <2>6, <3>4 DEF Replies
    <3>5. CASE Names[i] = "Token"
      BY <2>3, <2>6, <3>2, <3>5 DEF Replies
    <3>. QED  BY <3>1, <3>3, <3>4, <3>5
  <2>. HIDE DEF resolved, template
  <2>7. CASE NeedsToken(template) /\ ~IsValidToken(TokenArgument(resolved), now)
    <3>1. /\ Names[i] # "Token" /\ ~IsValidToken(Last(uri), now)
          /\ printed = Printed(Formats[i], "INVALID_TOKEN")
      BY <2>3, <2>4, <2>5, <2>7
    <3>. QED  BY <2>1, <2>2, <3>1 DEF Answers
  <2>8. CASE ~(NeedsToken(template) /\ ~IsValidToken(TokenArgument(resolved), now))
    <3>1. Names[i] # "Token" => IsValidToken(Last(uri), now)
      BY <2>3, <2>4, <2>8
    <3>2. printed \in Replies(template)
      BY <2>5, <2>8
    <3>. QED  BY <2>1, <2>2, <2>6, <3>1, <3>2 DEF Answers
  <2>. QED  BY <2>7, <2>8
<1>. QED  BY <1>1, <1>2, ResolveFinds

Types == {JSON, XML, "text"}

Bodies == {"quotes", "400", "404", "500", "INVALID_TOKEN"}

\* An answer is in one of the formats, with a token made at that moment or
\* without one.
LEMMA AnswerPrints ==
    ASSUME NEW uri, NEW printed, NEW time, Answers(uri, printed, time)
    PROVE  \E type \in Types :
              \/ printed = Token(type, time)
              \/ \E body \in Bodies : printed = Printed(type, body)
<1>1. Format(uri) \in Types /\ "text" \in Types
  BY DEF Format, Types
<1>2. \A i \in 1..6 : Formats[i] \in Types
  BY TableIs DEF Types
<1>. QED  BY <1>1, <1>2 DEF Answers, Bodies

ReplyOK ==
    reply # Nothing => reply.uri \in Uris /\ Answers(reply.uri, reply.printed, now)

Inv == now \in 0..LastTime /\ ReplyOK

\* There is no reply at the start.
LEMMA InitInv == Init => Inv
BY TimeAssumption DEF Init, Inv, ReplyOK

\* A reply is of its moment: the tick of the clock takes it away.
LEMMA NextInv == Inv /\ [Next]_vars => Inv'
<1>. SUFFICES ASSUME Inv, [Next]_vars PROVE Inv'
  OBVIOUS
<1>1. CASE HandleRequest
  <2>1. PICK uri \in Uris : \E printed \in Handle(uri) :
           reply' = [uri |-> uri, printed |-> printed] /\ now' = now
    BY <1>1 DEF HandleRequest
  <2>2. PICK printed \in Handle(uri) :
           reply' = [uri |-> uri, printed |-> printed] /\ now' = now
    BY <2>1
  <2>3. Answers(uri, printed, now)
    <3>1. uri \in Seq(Pieces)
      BY UriAssumption, Zenon DEF Pieces
    <3>. QED  BY <3>1, HandleAnswers
  <2>4. reply'.uri = uri /\ reply'.printed = printed
    BY <2>2
  <2>5. ReplyOK'
    BY <2>2, <2>3, <2>4 DEF ReplyOK
  <2>. QED  BY <2>2, <2>5 DEF Inv
<1>2. CASE Tick
  BY <1>2, TimeAssumption DEF Tick, Inv, ReplyOK
<1>3. CASE UNCHANGED vars
  BY <1>3 DEF vars, Inv, ReplyOK
<1>. QED  BY <1>1, <1>2, <1>3 DEF Next

\* Replies are of one of the formats, and the one with a token is GetToken's.
THEOREM ReplyTypes == Spec => []TypeOK
<1>1. Inv => TypeOK
  <2>. SUFFICES ASSUME Inv PROVE TypeOK
    OBVIOUS
  <2>1. now \in Texts
    BY CryptoAssumption DEF Inv
  <2>2. ASSUME reply # Nothing
        PROVE  /\ reply.uri \in Uris
               /\ reply.printed \in
                    [type : {JSON, XML, "text"},
                     body : {"quotes", "token", "400", "404", "500", "INVALID_TOKEN"},
                     token : {Empty} \cup {Encrypt(TokenServer, t) : t \in Texts}]
               /\ reply.printed.token # Empty <=> reply.printed.body = "token"
    <3>1. PICK type \in Types :
             \/ reply.printed = Token(type, now)
             \/ \E body \in Bodies : reply.printed = Printed(type, body)
      BY <2>2, AnswerPrints DEF Inv, ReplyOK
    <3>2. /\ Encrypt(TokenServer, now) # Empty
          /\ Encrypt(TokenServer, now) \in {Encrypt(TokenServer, t) : t \in Texts}
      BY <2>1 DEF Encrypt, Empty
    <3>. QED  BY <2>2, <3>1, <3>2 DEF Inv, ReplyOK, Token, Printed, Types, Bodies
  <2>. QED  BY <2>2 DEF Inv, TypeOK
<1>. QED  BY <1>1, InitInv, NextInv, PTL DEF Spec

\* For every length of a second and every window of at least a second, a token
\* that the server issued, returned under the client's key, is valid from that
\* moment until it is as old as allowed, although the server's clock loses its
\* milliseconds and may be behind the token; the text it sent is no token.
THEOREM IssuedTokensServe == Spec => []IssuedTokenServes
<1>1. Inv => IssuedTokenServes
  <2>. SUFFICES ASSUME Inv, Body = "token" PROVE IssuedTokenServes
    BY DEF IssuedTokenServes
  <2>. DEFINE token == reply.printed.token
  <2>1. reply # Nothing /\ reply.printed.body = "token"
    BY DEF Body
  <2>2. token = Encrypt(TokenServer, now)
    <3>1. PICK type \in Types :
             \/ reply.printed = Token(type, now)
             \/ \E body \in Bodies : reply.printed = Printed(type, body)
      BY <2>1, AnswerPrints DEF Inv, ReplyOK
    <3>2. ASSUME NEW body \in Bodies
          PROVE  Printed(type, body).body # "token"
      BY DEF Printed, Bodies
    <3>3. reply.printed = Token(type, now)
      BY <2>1, <3>1, <3>2
    <3>. QED  BY <3>3 DEF Token
  <2>3. now \in Texts /\ TokenServer \in Cryptos /\ TokenClient \in Cryptos
    BY CryptoAssumption DEF Inv
  <2>4. Decrypt(TokenServer, token) = [ok |-> TRUE, recoveredText |-> now]
    BY <2>2, <2>3, DecryptRecovers
  <2>5. Returned(token) = Encrypt(TokenClient, now)
    BY <2>4 DEF Returned
  <2>6. Decrypt(TokenClient, token).ok = FALSE
    BY <2>2, <2>3, OtherKeyFails, CryptoAssumption
  <2>7. ASSUME NEW time \in now..(now + MaxDifference)
        PROVE  IsValidToken(Returned(token), time) /\ ~IsValidToken(token, time)
    BY <2>3, <2>5, <2>6, TokenServes DEF IsValidToken
  <2>. QED  BY <2>4, <2>7 DEF IssuedTokenServes
<1>. QED  BY <1>1, InitInv, NextInv, PTL DEF Spec

\* A decrypted text is what TokenClient encrypted.
LEMMA DecryptedIs ==
    ASSUME NEW piece, Decrypt(TokenClient, piece).ok
    PROVE  /\ Decrypt(TokenClient, piece).recoveredText \in Texts
           /\ piece = Encrypt(TokenClient, Decrypt(TokenClient, piece).recoveredText)
<1>. DEFINE plainTexts == {t \in Texts : Encrypt(TokenClient, t) = piece}
<1>1. Decrypt(TokenClient, piece) =
          IF plainTexts = {} THEN [ok |-> FALSE]
          ELSE [ok |-> TRUE, recoveredText |-> CHOOSE t \in plainTexts : TRUE]
  BY DEF Decrypt
<1>2. plainTexts # {}
  BY <1>1
<1>3. (CHOOSE t \in plainTexts : TRUE) \in plainTexts
  BY <1>2
<1>. HIDE DEF plainTexts
<1>4. Decrypt(TokenClient, piece).recoveredText = CHOOSE t \in plainTexts : TRUE
  BY <1>1, <1>2
<1>5. Decrypt(TokenClient, piece).recoveredText \in plainTexts
  BY <1>3, <1>4
<1>. QED  BY <1>5 DEF plainTexts

\* Whatever URIs are sent, quotes and the news that a day has none go only to
\* one whose last piece is a token encrypted with the client's key at most a
\* second less than the window away, on either side.
THEOREM QuotesAreForTokens == Spec => []QuotesNeedToken
<1>1. Inv => QuotesNeedToken
  <2>. SUFFICES ASSUME Inv, Body \in {"quotes", "404"} PROVE QuotesNeedToken
    BY DEF QuotesNeedToken
  <2>. DEFINE token == Decrypt(TokenClient, Last(reply.uri))
  <2>1. /\ reply # Nothing /\ reply.printed.body \in {"quotes", "404"}
        /\ Answers(reply.uri, reply.printed, now) /\ now \in Nat
    BY TimeAssumption DEF Body, Inv, ReplyOK
  <2>2. \A type, time : Token(type, time).body = "token"
    BY DEF Token
  <2>3. \A type, body : Printed(type, body).body = body
    BY DEF Printed
  <2>4. IsValidToken(Last(reply.uri), now)
    BY <2>1, <2>2, <2>3 DEF Answers
  <2>5. token.ok
    BY <2>4 DEF IsValidToken
  <2>6. token.recoveredText \in Texts /\ Last(reply.uri) = Encrypt(TokenClient, token.recoveredText)
    BY <2>5, DecryptedIs
  <2>. HIDE DEF token
  <2>7. Difference(now, token.recoveredText) < MaxDifference + Second
    BY <2>1, <2>4, <2>6, ValidTokenIsTimely
  <2>. QED  BY <2>5, <2>7 DEF QuotesNeedToken, token
<1>. QED  BY <1>1, InitInv, NextInv, PTL DEF Spec

\* Every answer but the 400 of a URI without a method and the 500 of an
\* exception is in the format that the URI names, whatever its arguments say.
THEOREM RepliesFollowFormat == Spec => []RepliesInFormat
<1>1. Inv => RepliesInFormat
  <2>. SUFFICES ASSUME Inv, Body \in {"quotes", "token", "404", "INVALID_TOKEN"}
                PROVE  RepliesInFormat
    BY DEF RepliesInFormat
  <2>1. /\ reply # Nothing /\ reply.uri \in Uris
        /\ reply.printed.body \in {"quotes", "token", "404", "INVALID_TOKEN"}
        /\ Answers(reply.uri, reply.printed, now)
    BY DEF Body, Inv, ReplyOK
  <2>2. \A type, time : Token(type, time).body = "token" /\ Token(type, time).type = type
    BY DEF Token
  <2>3. \A type, body : Printed(type, body).body = body /\ Printed(type, body).type = type
    BY DEF Printed
  <2>4. PICK i \in 1..6 : Fits(reply.uri, i) /\ reply.printed.type = Formats[i]
    BY <2>1, <2>2, <2>3 DEF Answers
  <2>5. /\ Len(reply.uri) >= 3 /\ Len(reply.uri[3]) >= 1
        /\ reply.uri[3][1] = reply.printed.type
    BY <2>4 DEF Fits, Begins
  <2>6. reply.uri[3] \in Seq(STRING)
    <3>1. reply.uri \in Seq(Pieces)
      BY <2>1, UriAssumption, Zenon DEF Pieces
    <3>. QED  BY <2>5, <3>1, ElementOfSeq DEF Pieces
  <2>. QED  BY <2>5, <2>6, PrefixOfOne DEF RepliesInFormat
<1>. QED  BY <1>1, InitInv, NextInv, PTL DEF Spec

\* The text of a method.
LEMMA MethodText ==
    ASSUME NEW i \in 1..6
    PROVE  /\ Without(Method(i) \o Argss[i], Placeholders) = Method(i)
           /\ FlattenSeq(Method(i)) = (<<"StockMarket">> \o <<Names[i]>>) \o <<Formats[i]>>
<1>. DEFINE words == {"StockMarket", Names[i], Formats[i]}
            Kind == {<<"StockMarket">>, <<Names[i]>>, <<Formats[i]>>}
            a == <<"StockMarket">>
            b == <<Names[i]>>
            c == <<Formats[i]>>
<1>1. Method(i) \in Seq(Kind)
  BY Triple, Zenon DEF Method
<1>2. Argss[i] \in Seq(Placeholders)
  BY TableIs, Zenon
<1>3. Kind \cap Placeholders = {}
  <2>1. Names[i] \in {"DataByDate", "LatestData", "Token"} /\ Formats[i] \in {JSON, XML}
    BY TableIs
  <2>2. \A word \in {"StockMarket", Names[i], Formats[i]} : <<word>> \notin Placeholders
    BY <2>1, WordsArePlain
  <2>. QED  BY <2>2
<1>4. Without(Method(i) \o Argss[i], Placeholders) = Method(i)
  <2>. HIDE DEF Kind
  <2>. QED  BY <1>1, <1>2, <1>3, TemplateOf
<1>5. Method(i) = Append(<<a, b>>, c)
  BY DEF Method
<1>6. a \in Seq(words) /\ b \in Seq(words) /\ c \in Seq(words) /\ <<a, b>> \in Seq(Seq(words))
  OBVIOUS
<1>. HIDE DEF a, b, c, words
<1>7. FlattenSeq(Append(<<a, b>>, c)) = FlattenSeq(<<a, b>>) \o c
  BY <1>6, FlattenAppend
<1>8. FlattenSeq(<<a, b>>) = a \o b
  BY <1>6, FlattenFew
<1>. QED  BY <1>4, <1>5, <1>7, <1>8 DEF a, b, c

JoinsTwice(h, c, g, r) == (h \o (c \o g)) \o r = (h \o c) \o (g \o r)

Joins(p, q, s) == (p \o q) \o s = p \o (q \o s)

\* Texts are joined in whatever order.
LEMMA ThreeTexts == \A p, q, s \in Pieces : Joins(p, q, s)
<1>. TAKE p, q, s \in Pieces
<1>. p \in Seq(STRING) /\ q \in Seq(STRING) /\ s \in Seq(STRING)
  BY DEF Pieces
<1>. QED  BY ConcatAssociative, SMTT(30) DEF Joins

LEMMA FourTexts ==
    ASSUME NEW h \in Pieces, NEW c \in Pieces, NEW g \in Pieces, NEW r \in Pieces
    PROVE  JoinsTwice(h, c, g, r)
<1>. DEFINE d == c \o g
            e == g \o r
<1>1. d \in Pieces /\ e \in Pieces
  BY ConcatProperties DEF Pieces
<1>. HIDE DEF d, e
<1>2. Joins(c, g, r) /\ Joins(h, d, r) /\ Joins(h, c, e)
  BY <1>1, ThreeTexts
<1>3. d \o r = c \o e
  BY <1>2, Zenon DEF Joins, d, e
<1>4. (h \o d) \o r = h \o (d \o r) /\ (h \o c) \o e = h \o (c \o e)
  BY <1>2, Zenon DEF Joins
<1>. QED  BY <1>3, <1>4, Zenon DEF d, e, JoinsTwice

\* A URI that starts with a method is the method's text, what is glued to it, and
\* the rest.
LEMMA UriText ==
    ASSUME NEW uri \in Seq(Pieces), NEW i \in 1..6, Begins(uri, i)
    PROVE  FlattenSeq(uri) = FlattenSeq(Method(i)) \o (Glued(uri) \o FlattenSeq(Rest(uri)))
<1>. DEFINE front == SubSeq(uri, 1, 3)
            a == <<"StockMarket">>
            b == <<Names[i]>>
            c == <<Formats[i]>>
            g == Glued(uri)
            r == FlattenSeq(Rest(uri))
            M == FlattenSeq(Method(i))
<1>1. /\ Len(uri) >= 3 /\ uri[1] = a /\ uri[2] = b
      /\ Len(uri[3]) >= 1 /\ uri[3][1] = Formats[i]
  BY DEF Begins
<1>2. uri[1] \in Pieces /\ uri[2] \in Pieces /\ uri[3] \in Seq(STRING) /\ g \in Pieces
  <2>1. 1 \in 1..Len(uri) /\ 2 \in 1..Len(uri) /\ 3 \in 1..Len(uri)
    BY <1>1, LenProperties
  <2>2. uri[1] \in Pieces /\ uri[2] \in Pieces /\ uri[3] \in Pieces
    BY <2>1, ElementOfSeq, Zenon
  <2>3. g \in Pieces
    BY <1>1, GluedIs
  <2>. QED  BY <2>2, <2>3 DEF Pieces
<1>3. uri[3] = c \o g
  <2>1. Len(uri[3]) \in Nat /\ Len(uri[3]) >= 1
    BY <1>1, <1>2, LenProperties
  <2>2. SubSeq(uri[3], 1, 1) \o SubSeq(uri[3], 1 + 1, Len(uri[3])) = SubSeq(uri[3], 1, Len(uri[3]))
    <3>1. /\ 1 \in 1..(Len(uri[3]) + 1) /\ 1 \in (1 - 1)..Len(uri[3])
          /\ Len(uri[3]) \in 1..Len(uri[3])
      BY <2>1
    <3>. QED  BY <1>2, <3>1, ConcatAdjacentSubSeq
  <2>3. SubSeq(uri[3], 1, Len(uri[3])) = uri[3] /\ 1 + 1 = 2
    BY <1>2, SubSeqFull
  <2>4. SubSeq(uri[3], 1, 1) = <<uri[3][1]>>
    BY <1>2, <2>1, FirstOf
  <2>. QED  BY <1>1, <2>2, <2>3, <2>4 DEF Glued
<1>4. /\ front \in Seq(Pieces) /\ Rest(uri) \in Seq(Pieces) /\ uri = front \o Rest(uri)
  BY <1>1, RestIs DEF Rest
<1>5. front = Append(<<a, b>>, c \o g)
  <2>1. 1 \in Int /\ 3 \in Int /\ \A j \in 1..3 : uri[j] \in Pieces
    BY <1>1, ElementOfSeq
  <2>2. Len(front) = 3 /\ \A j \in 1..(3 - 1 + 1) : front[j] = uri[1 + j - 1]
    BY <2>1, SubSeqProperties
  <2>3. \A j \in 1..3 : j \in 1..(3 - 1 + 1) /\ 1 + j - 1 = j
    OBVIOUS
  <2>. HIDE DEF front, a, b, c, g
  <2>4. front[1] = a /\ front[2] = b /\ front[3] = c \o g
    BY <1>1, <1>3, <2>2, <2>3
  <2>5. /\ a \in Pieces /\ b \in Pieces /\ c \o g \in Pieces
    BY <1>1, <1>2, <1>3 DEF Pieces
  <2>6. front = [j \in 1..3 |-> front[j]]
    BY <1>4, <2>2, LenProperties
  <2>7. front = Append(<<front[1], front[2]>>, front[3])
    <3>. HIDE DEF front
    <3>. QED  BY <2>6
  <2>. QED  BY <2>4, <2>7
<1>6. /\ a \in Pieces /\ b \in Pieces /\ c \in Pieces /\ c \o g \in Pieces
      /\ <<a, b>> \in Seq(Pieces)
  <2>1. Formats[i] \in STRING
    BY <1>1, <1>2, ElementOfSeq
  <2>2. c \in Pieces
    BY <2>1 DEF Pieces
  <2>. HIDE DEF a, b, c, g
  <2>3. a \in Pieces /\ b \in Pieces /\ c \o g \in Pieces
    BY <1>1, <1>2, <1>3 DEF Pieces
  <2>. QED  BY <2>2, <2>3
<1>7. M = (a \o b) \o c
  BY MethodText
<1>. HIDE DEF front, a, b, c, g, M
<1>8. FlattenSeq(front) = (a \o b) \o (c \o g)
  <2>1. FlattenSeq(Append(<<a, b>>, c \o g)) = FlattenSeq(<<a, b>>) \o (c \o g)
    <3>. DEFINE d == c \o g
    <3>1. d \in Seq(STRING) /\ <<a, b>> \in Seq(Seq(STRING))
      BY <1>6 DEF Pieces
    <3>. HIDE DEF d
    <3>2. FlattenSeq(Append(<<a, b>>, d)) = FlattenSeq(<<a, b>>) \o d
      BY <3>1, FlattenAppend
    <3>. QED  BY <3>2 DEF d
  <2>2. FlattenSeq(<<a, b>>) = a \o b
    BY <1>6, FlattenFew DEF Pieces
  <2>. QED  BY <1>5, <2>1, <2>2
<1>9. FlattenSeq(uri) = FlattenSeq(front) \o r /\ r \in Pieces
  BY <1>4, FlattenConcat DEF Pieces
<1>. HIDE DEF r
<1>10. ((a \o b) \o (c \o g)) \o r = ((a \o b) \o c) \o (g \o r)
  <2>. DEFINE h == a \o b
  <2>1. h \in Pieces /\ r \in Pieces
    BY <1>6, <1>9, ConcatProperties DEF Pieces
  <2>. HIDE DEF h
  <2>2. (h \o (c \o g)) \o r = (h \o c) \o (g \o r)
    <3>1. JoinsTwice(h, c, g, r)
      BY <1>2, <1>6, <2>1, FourTexts
    <3>. QED  BY <3>1 DEF JoinsTwice
  <2>. QED  BY <2>2 DEF h
<1>. QED  BY <1>7, <1>8, <1>9, <1>10 DEF g, r, M

\* The arguments of a URI that has any are what is glued to the method, and the
\* rest.
LEMMA ArgumentsText ==
    ASSUME NEW uri \in Seq(Pieces), NEW i \in 1..6, Len(uri) >= 3,
           Arguments(uri, Method(i)) # << >>
    PROVE  FlattenSeq(Arguments(uri, Method(i))) = Glued(uri) \o FlattenSeq(Rest(uri))
<1>. DEFINE pieces == <<Glued(uri)>> \o Rest(uri)
<1>1. Glued(uri) \in Pieces /\ Rest(uri) \in Seq(Pieces)
  BY GluedIs, RestIs DEF Rest
<1>2. <<Glued(uri)>> \in Seq(Pieces) /\ pieces \in Seq(Pieces)
  BY <1>1
<1>3. Arguments(uri, Method(i)) = Without(pieces, {Empty})
  BY RemainderIs DEF Arguments
<1>. HIDE DEF pieces
<1>4. FlattenSeq(Without(pieces, {Empty})) = FlattenSeq(pieces)
  BY <1>2, FlattenWithout DEF Pieces
<1>5. FlattenSeq(pieces) = FlattenSeq(<<Glued(uri)>>) \o FlattenSeq(Rest(uri))
  BY <1>1, <1>2, FlattenConcat DEF Pieces, pieces
<1>6. FlattenSeq(<<Glued(uri)>>) = Glued(uri)
  BY <1>1, FlattenFew DEF Pieces
<1>. QED  BY <1>3, <1>4, <1>5, <1>6

\* Whatever URIs are sent: of one whose method asks for a token, the token is the
\* last piece, and the method's text, the date where there is one, and the token
\* are all the text that it has.
THEOREM UrisAreReadWhole == Spec => []UriIsReadWhole
<1>1. Inv => UriIsReadWhole
  <2>. DEFINE uri == reply.uri
              resolved == Resolve(Contracts, uri)
              template == resolved.uriTemplate
              date == IF HasName(template, "DataByDate") THEN DateArgument(resolved) ELSE Empty
              token == TokenArgument(resolved)
  <2>. SUFFICES ASSUME Inv, reply # Nothing, resolved.found, NeedsToken(template)
                PROVE  /\ token = Last(uri)
                       /\ FlattenSeq(uri) = FlattenSeq(Without(template, Placeholders))
                                                \o date \o token
    BY DEF UriIsReadWhole
  <2>1. uri \in Seq(Pieces)
    BY UriAssumption, Zenon DEF Inv, ReplyOK, Pieces
  <2>. HIDE DEF uri
  <2>2. PICK i \in 1..6 : /\ Fits(uri, i)
                          /\ template = Method(i) \o Argss[i]
                          /\ resolved.args = Arguments(uri, Method(i))
    BY <2>1, ResolveFinds
  <2>3. Last(uri) # Empty
    BY <2>1, ResolveFinds
  <2>. DEFINE args == Arguments(uri, Method(i))
  <2>4. /\ Begins(uri, i) /\ Len(uri) >= 3 /\ Len(args) = Len(Argss[i])
    BY <2>2 DEF Fits, Begins
  <2>5. Names[i] # "Token" /\ (HasName(template, "DataByDate") <=> Names[i] = "DataByDate")
    BY <2>2, TemplateIs
  <2>6. token = Last(args) /\ Last(args) = Last(uri)
    BY <2>1, <2>2, <2>3, <2>5, LastArgument DEF TokenArgument
  <2>7. args \in Seq(Pieces)
    BY <2>1, <2>4, ArgumentsAre
  <2>8. /\ Names[i] = "DataByDate" => Len(args) = 2
        /\ Names[i] # "DataByDate" => Len(args) = 1
    <3>1. /\ Names[i] = "DataByDate" => Len(Argss[i]) = 2
          /\ Names[i] = "LatestData" => Len(Argss[i]) = 1
      BY DEF Argss, Names
    <3>2. Names[i] \in {"DataByDate", "LatestData", "Token"}
      BY TableIs
    <3>. QED  BY <2>4, <2>5, <3>1, <3>2
  <2>9. date = IF Names[i] = "DataByDate" THEN args[1] ELSE Empty
    BY <2>2, <2>5 DEF DateArgument
  <2>. HIDE DEF args, resolved, template, date, token
  <2>10. args # << >> /\ FlattenSeq(args) = date \o token /\ date \in Pieces /\ token \in Pieces
    <3>1. CASE Names[i] = "DataByDate"
      <4>1. args = <<args[1], args[2]>> /\ Last(args) = args[2]
            /\ args[1] \in Pieces /\ args[2] \in Pieces
        <5>1. Len(args) = 2 /\ args[1] \in Pieces /\ args[2] \in Pieces
          BY <2>7, <2>8, <3>1, ElementOfSeq
        <5>2. args = [j \in 1..2 |-> args[j]]
          BY <2>7, <5>1
        <5>. QED  BY <5>1, <5>2 DEF Last
      <4>2. FlattenSeq(<<args[1], args[2]>>) = args[1] \o args[2]
        BY <4>1, FlattenFew DEF Pieces
      <4>3. Len(args) # 0
        BY <2>8, <3>1
      <4>. QED  BY <2>6, <2>7, <2>9, <3>1, <4>1, <4>2, <4>3, EmptySeq
    <3>2. CASE Names[i] # "DataByDate"
      <4>1. args = <<args[1]>> /\ Last(args) = args[1] /\ args[1] \in Pieces
        BY <2>7, <2>8, <3>2 DEF Last
      <4>2. FlattenSeq(<<args[1]>>) = args[1]
        BY <4>1, FlattenFew DEF Pieces
      <4>3. Empty \o args[1] = args[1] /\ Empty \in Pieces
        BY <4>1, ConcatEmptySeq, EmptySeq DEF Pieces, Empty
      <4>4. Len(args) # 0
        BY <2>8, <3>2
      <4>. QED  BY <2>6, <2>7, <2>9, <3>2, <4>1, <4>2, <4>3, <4>4, EmptySeq
    <3>. QED  BY <3>1, <3>2
  <2>11. FlattenSeq(args) = Glued(uri) \o FlattenSeq(Rest(uri))
    BY <2>1, <2>4, <2>10, ArgumentsText DEF args
  <2>12. FlattenSeq(uri) = FlattenSeq(Method(i)) \o (date \o token)
    BY <2>1, <2>4, <2>10, <2>11, UriText
  <2>13. Without(template, Placeholders) = Method(i)
    BY <2>2, MethodText
  <2>14. FlattenSeq(Method(i)) \o (date \o token) = (FlattenSeq(Method(i)) \o date) \o token
    <3>. DEFINE m == FlattenSeq(Method(i))
    <3>1. m \in Seq(STRING)
      <4>1. Method(i) \in Seq(Seq(STRING))
        <5>1. /\ uri[1] \in Seq(STRING) /\ uri[2] \in Seq(STRING) /\ uri[3] \in Seq(STRING)
          BY <2>1, <2>4, ElementOfSeq DEF Pieces
        <5>2. Formats[i] \in STRING
          BY <2>4, <5>1, ElementOfSeq DEF Begins
        <5>3. /\ <<"StockMarket">> \in Seq(STRING) /\ <<Names[i]>> \in Seq(STRING)
              /\ <<Formats[i]>> \in Seq(STRING)
          BY <2>4, <5>1, <5>2 DEF Begins
        <5>4. \A S : \A a, b, c \in S : <<a, b, c>> \in Seq(S)
          OBVIOUS
        <5>. QED  BY <5>3, <5>4, Zenon DEF Method
      <4>. QED  BY <4>1, FlattenConcat
    <3>. HIDE DEF m
    <3>2. (m \o date) \o token = m \o (date \o token)
      BY <2>10, <3>1, ConcatAssociative, SMTT(30) DEF Pieces
    <3>. QED  BY <3>2 DEF m
  <2>. QED  BY <2>6, <2>12, <2>13, <2>14
<1>. QED  BY <1>1, InitInv, NextInv, PTL DEF Spec

\* A URI that is written like a template, no piece empty, fits its contract.
LEMMA TemplateFits ==
    ASSUME NEW uri \in Seq(Pieces), NEW i \in 1..6,
           Len(uri) = 3 + Len(Argss[i]),
           SubSeq(uri, 1, 3) = Method(i),
           \A j \in DOMAIN uri : uri[j] # Empty
    PROVE  Fits(uri, i) /\ Last(uri) # Empty
<1>1. Argss[i] \in Seq(Placeholders) /\ Len(Argss[i]) \in Nat
  <2>1. Argss[i] \in Seq(Placeholders)
    BY TableIs, Zenon
  <2>. QED  BY <2>1, LenProperties
<1>2. Len(uri) \in Nat /\ Len(uri) >= 3 /\ DOMAIN uri = 1..Len(uri)
  BY <1>1
<1>3. \A j \in 1..3 : uri[j] = Method(i)[j]
  <2>1. 1 \in Int /\ 3 \in Int /\ \A j \in 1..3 : uri[j] \in Pieces
    BY <1>2, ElementOfSeq
  <2>2. \A j \in 1..(3 - 1 + 1) : SubSeq(uri, 1, 3)[j] = uri[1 + j - 1]
    BY <2>1, SubSeqProperties
  <2>3. \A j \in 1..3 : j \in 1..(3 - 1 + 1) /\ 1 + j - 1 = j
    OBVIOUS
  <2>. QED  BY <2>2, <2>3
<1>4. /\ uri[1] = <<"StockMarket">> /\ uri[2] = <<Names[i]>> /\ uri[3] = <<Formats[i]>>
  BY <1>3, MethodIs
<1>5. Begins(uri, i) /\ Len(uri[3]) = 1
  <2>1. \A a : Len(<<a>>) = 1 /\ <<a>>[1] = a
    OBVIOUS
  <2>2. Len(uri[3]) = 1 /\ uri[3][1] = Formats[i]
    BY <1>4, <2>1
  <2>. QED  BY <1>2, <1>4, <2>2 DEF Begins
<1>6. Arguments(uri, Method(i)) = Without(Rest(uri), {Empty})
  BY <1>2, <1>5, ArgumentsAre
<1>7. Rest(uri) \in Seq(Pieces \ {Empty}) /\ Len(Rest(uri)) = Len(uri) - 3
  <2>1. /\ Rest(uri) \in Seq(Pieces) /\ Len(Rest(uri)) = Len(uri) - 3
        /\ \A j \in 1..(Len(uri) - 3) : Rest(uri)[j] = uri[j + 3]
    BY <1>2, RestIs DEF Rest
  <2>2. \A j \in 1..Len(Rest(uri)) : Rest(uri)[j] \in Pieces \ {Empty}
    <3>. SUFFICES ASSUME NEW j \in 1..Len(Rest(uri))
                  PROVE  Rest(uri)[j] \in Pieces \ {Empty}
      OBVIOUS
    <3>1. j \in 1..(Len(uri) - 3) /\ j + 3 \in 1..Len(uri)
      BY <1>2, <2>1
    <3>2. uri[j + 3] \in Pieces \ {Empty}
      BY <1>2, <3>1, ElementOfSeq
    <3>3. Rest(uri)[j] = uri[j + 3]
      BY <2>1, <3>1
    <3>. HIDE DEF Rest
    <3>. QED  BY <3>2, <3>3
  <2>. HIDE DEF Rest
  <2>3. Rest(uri) = [j \in 1..Len(Rest(uri)) |-> Rest(uri)[j]] /\ Len(Rest(uri)) \in Nat
    BY <2>1, LenProperties
  <2>4. Rest(uri) \in Seq(Pieces \ {Empty})
    BY <2>2, <2>3, IsASeq
  <2>. QED  BY <2>1, <2>4
<1>8. Without(Rest(uri), {Empty}) = Rest(uri)
  <2>1. (Pieces \ {Empty}) \cap {Empty} = {}
    OBVIOUS
  <2>. QED  BY <1>7, <2>1, WithoutIs
<1>9. Len(Arguments(uri, Method(i))) = Len(Argss[i])
  BY <1>1, <1>6, <1>7, <1>8
<1>. QED  BY <1>2, <1>5, <1>9 DEF Fits, Last

\* A URI that fits one contract, with a valid token where one is needed, is not
\* refused.
LEMMA FitIsServed ==
    ASSUME NEW uri, NEW printed, NEW time, Answers(uri, printed, time),
           Last(uri) # Empty, NEW i \in 1..6, Fits(uri, i),
           \A j \in 1..6 : Fits(uri, j) => j = i,
           Names[i] # "Token" => IsValidToken(Last(uri), time)
    PROVE  printed.body \in {"quotes", "404", "500", "token"}
<1>1. \A type, when : Token(type, when).body = "token"
  BY DEF Token
<1>2. \A type, body : Printed(type, body).body = body
  BY DEF Printed
<1>3. \/ /\ Names[i] # "Token"
         /\ printed \in {Printed(Formats[i], "quotes"), Printed(Formats[i], "404"),
                         Printed("text", "500")}
      \/ printed = Token(Formats[i], time)
  BY Zenon DEF Answers
<1>. QED  BY <1>1, <1>2, <1>3

\* For every window of at least a second, a URI that fills a template and ends
\* in a token of that age is served, never refused.
THEOREM TimelyTokensServe == Spec => []TimelyTokenServed
<1>1. Inv => TimelyTokenServed
  <2>. DEFINE uri == reply.uri
              token == Decrypt(TokenClient, Last(uri))
  <2>. SUFFICES ASSUME Inv, reply # Nothing, NEW i \in DOMAIN Contracts,
                       Len(uri) = Len(Contracts[i].uriTemplate),
                       SubSeq(uri, 1, 3) = Contracts[i].webMethod,
                       \A j \in DOMAIN uri : uri[j] # Empty,
                       NeedsToken(Contracts[i].uriTemplate) =>
                           /\ token.ok
                           /\ token.recoveredText <= now
                           /\ now - token.recoveredText <= MaxDifference
                PROVE  Body \notin {"400", "INVALID_TOKEN"}
    BY DEF TimelyTokenServed
  <2>1. uri \in Seq(Pieces) /\ Answers(uri, reply.printed, now) /\ now \in Nat
    <3>1. uri \in Uris /\ Answers(uri, reply.printed, now) /\ now \in 0..LastTime
      BY DEF Inv, ReplyOK
    <3>2. uri \in Seq(Pieces)
      BY <3>1, UriAssumption, Zenon DEF Pieces
    <3>. QED  BY <3>1, <3>2
  <2>. HIDE DEF uri
  <2>2. /\ i \in 1..6 /\ Contracts[i].webMethod = Method(i)
        /\ Contracts[i].uriTemplate = Method(i) \o Argss[i]
    BY ContractsAre
  <2>3. /\ Len(uri) = 3 + Len(Argss[i])
        /\ NeedsToken(Contracts[i].uriTemplate) <=> Names[i] # "Token"
    BY <2>2, TemplateIs
  <2>4. Fits(uri, i) /\ Last(uri) # Empty
    BY <2>1, <2>2, <2>3, TemplateFits
  <2>5. ASSUME Names[i] # "Token" PROVE IsValidToken(Last(uri), now)
    <3>1. /\ token.ok /\ token.recoveredText <= now
          /\ now - token.recoveredText <= MaxDifference
      BY <2>3, <2>5
    <3>2. token.recoveredText \in Texts /\ Last(uri) = Encrypt(TokenClient, token.recoveredText)
      BY <3>1, DecryptedIs
    <3>3. token.recoveredText \in Nat
      BY <3>2, CryptoAssumption
    <3>4. now \in token.recoveredText..(token.recoveredText + MaxDifference)
      BY <2>1, <3>1, <3>3, TimeAssumption
    <3>. QED  BY <3>2, <3>4, TokenServes
  <2>6. \A j \in 1..6 : Fits(uri, j) => j = i
    BY <2>2, <2>4, StartsWithOne DEF Fits
  <2>7. reply.printed.body \in {"quotes", "404", "500", "token"}
    BY <2>1, <2>2, <2>4, <2>5, <2>6, FitIsServed, Zenon
  <2>. QED  BY <2>7 DEF Body
<1>. QED  BY <1>1, InitInv, NextInv, PTL DEF Spec
=============================================================================
