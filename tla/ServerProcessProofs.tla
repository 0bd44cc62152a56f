------------------------- MODULE ServerProcessProofs -------------------------
(***************************************************************************)
(* The state of ServerProcess keeps its type, a mutex belongs to the thread *)
(* inside its section, and each member of RT is created once.              *)
(*                                                                         *)
(* What a thread has left to do is measured by three numbers: how often it *)
(* gives a mutex back, how often it creates an object, and how much of the *)
(* teardown is ahead.  Texts(t) are the programs of which every suffix is  *)
(* in order by those numbers, and of which every instruction finds what it *)
(* needs in those that follow it.  The code is put together from pieces    *)
(* that lead from such programs to such programs, and every action takes   *)
(* one away or puts one in front.                                          *)
(***************************************************************************)
EXTENDS ServerProcess, Integers, SequenceTheorems, FiniteSetTheorems, TLAPS

-----------------------------------------------------------------------------
(***************************************************************************)
(* Counting.                                                               *)
(***************************************************************************)
\* The places of an instruction are counted by a number.
LEMMA CountType ==
    ASSUME NEW S, NEW s \in Seq(S), NEW what, NEW on
    PROVE  Count(s, what, on) \in Nat
<1>. DEFINE places == {i \in DOMAIN s : s[i] = [what |-> what, on |-> on]}
<1>1. DOMAIN s = 1..Len(s) /\ Len(s) \in Nat
  BY LenProperties
<1>2. IsFiniteSet(1..Len(s))
  BY <1>1, FS_Interval
<1>3. IsFiniteSet(places)
  BY <1>1, <1>2, FS_Subset
<1>. QED  BY <1>3, FS_CardinalityType DEF Count

\* Nothing is counted in the empty program.
LEMMA CountEmpty ==
    ASSUME NEW what, NEW on
    PROVE  Count(<< >>, what, on) = 0
<1>1. {i \in DOMAIN << >> : << >>[i] = [what |-> what, on |-> on]} = {}
  OBVIOUS
<1>. QED  BY <1>1, FS_EmptySet DEF Count

\* An instruction in front moves the places on and may be a place itself.
LEMMA CountCons ==
    ASSUME NEW S, NEW s \in Seq(S), NEW x \in S, NEW what, NEW on
    PROVE  Count(<<x>> \o s, what, on) =
               Count(s, what, on) + (IF x = [what |-> what, on |-> on] THEN 1 ELSE 0)
<1>. DEFINE y == [what |-> what, on |-> on]
            n == Len(s)
            all == <<x>> \o s
            places == {i \in DOMAIN s : s[i] = y}
            moved == {i \in 2..(n + 1) : all[i] = y}
            places1 == {i \in DOMAIN all : all[i] = y}
<1>1. /\ n \in Nat /\ DOMAIN s = 1..n /\ DOMAIN all = 1..(n + 1)
      /\ all[1] = x /\ \A i \in 1..n : all[i + 1] = s[i]
  BY LenProperties
<1>. HIDE DEF n, all, y
<1>2. IsFiniteSet(places) /\ Cardinality(places) \in Nat
  <2>1. IsFiniteSet(1..n)
    <3>1. 1 \in Int /\ n \in Int
      BY <1>1
    <3>. QED  BY <3>1, FS_Interval
  <2>2. IsFiniteSet(places)
    BY <1>1, <2>1, FS_Subset
  <2>. QED  BY <2>2, FS_CardinalityType
<1>3. IsFiniteSet(moved) /\ Cardinality(moved) = Cardinality(places)
  <2>. DEFINE f == [i \in places |-> i + 1]
  <2>1. f \in [places -> moved]
    BY <1>1
  <2>2. \A i, j \in places : f[i] = f[j] => i = j
    BY <1>1
  <2>3. \A j \in moved : \E i \in places : f[i] = j
    <3>. SUFFICES ASSUME NEW j \in moved PROVE \E i \in places : f[i] = j
      OBVIOUS
    <3>1. j - 1 \in 1..n /\ (j - 1) + 1 = j
      BY <1>1
    <3>2. j - 1 \in places
      BY <1>1, <3>1
    <3>. QED  BY <3>1, <3>2
  <2>4. f \in Bijection(places, moved)
    <3>. HIDE DEF f, places, moved
    <3>1. f \in Injection(places, moved)
      BY <2>1, <2>2 DEF Injection, IsInjective
    <3>2. f \in Surjection(places, moved)
      BY <2>1, <2>3 DEF Surjection
    <3>. QED  BY <3>1, <3>2 DEF Bijection
  <2>5. ExistsBijection(places, moved)
    BY <2>4 DEF ExistsBijection
  <2>. HIDE DEF places, moved
  <2>. QED  BY <1>2, <2>5, FS_Bijection
<1>4. places1 = IF x = y THEN moved \cup {1} ELSE moved
  <2>1. \A i : i \in 1..(n + 1) <=> i = 1 \/ i \in 2..(n + 1)
    BY <1>1
  <2>2. \A i : i \in places1 <=> (i = 1 /\ x = y) \/ i \in moved
    BY <1>1, <2>1
  <2>. QED  BY <2>2
<1>5. 1 \notin moved
  OBVIOUS
<1>6. Cardinality(moved \cup {1}) = Cardinality(moved) + 1
  <2>. HIDE DEF moved
  <2>. QED  BY <1>3, <1>5, FS_AddElement
<1>. HIDE DEF places, moved, places1
<1>7. Cardinality(places1) = Cardinality(places) + (IF x = y THEN 1 ELSE 0)
  BY <1>2, <1>3, <1>4, <1>6
<1>. QED  BY <1>7 DEF Count, places, places1, y, all

\* A program is its first instruction and the rest.
LEMMA HeadAndTail ==
    ASSUME NEW S, NEW s \in Seq(S), s # << >>
    PROVE  Head(s) \in S /\ Tail(s) \in Seq(S) /\ s = <<Head(s)>> \o Tail(s)
<1>1. /\ Head(s) \in S /\ Tail(s) \in Seq(S) /\ Len(Tail(s)) = Len(s) - 1
      /\ \A i \in 1..Len(Tail(s)) : Tail(s)[i] = s[i + 1]
  BY HeadTailProperties
<1>2. Len(s) \in Nat \ {0} /\ Head(s) = s[1]
  BY EmptySeq
<1>. DEFINE tail == Tail(s)
            head == Head(s)
            all == <<head>> \o tail
<1>3. head \in S /\ tail \in Seq(S)
  BY <1>1
<1>. HIDE DEF tail, head
<1>4. /\ all \in Seq(S) /\ Len(all) = 1 + Len(tail)
      /\ all[1] = head /\ \A i \in 1..Len(tail) : all[i + 1] = tail[i]
  BY <1>3
<1>. HIDE DEF all
<1>5. Len(all) = Len(s)
  BY <1>1, <1>2, <1>4 DEF tail
<1>6. ASSUME NEW i \in 1..Len(s) PROVE all[i] = s[i]
  <2>1. CASE i = 1
    BY <1>2, <1>4, <2>1 DEF head
  <2>2. CASE i # 1
    <3>1. i - 1 \in 1..Len(Tail(s)) /\ (i - 1) + 1 = i
      BY <1>1, <1>2, <2>2
    <3>. QED  BY <1>1, <1>4, <3>1 DEF tail
  <2>. QED  BY <2>1, <2>2
<1>7. all = s
  BY <1>4, <1>5, <1>6, SeqEqual
<1>. QED  BY <1>1, <1>7 DEF all, head, tail

-----------------------------------------------------------------------------
(***************************************************************************)
(* Texts: the programs that a thread may have left.                        *)
(***************************************************************************)
\* What an instruction may be about.
Names == Mutexes \cup Statics \cup {Cron, None}

\* How often the rest of a program gives a mutex back that it does not take.
Held(s, m) == Count(s, "unlock", m) - Count(s, "lock", m)

\* Negative once the members of RT are taken down.
Exits(s) == Count(s, "free", "Storage") - 2 * Count(s, "end", None)

\* What is created when it is first asked for.
Created == Objects \cup Statics

\* The mutex under which it is looked for and created.
Guard(object) == IF object = "DB_FILE" THEN "DB"
                 ELSE IF object = "TEMP_FILE" THEN "WorkerMutex" ELSE object

\* What may be created after it is looked for and before the rest.
Nested(object) ==
    {object} \cup (IF object = "DB" THEN {"DB_FILE", "Storage"}
                   ELSE IF object \in Statics THEN {"Storage"} ELSE {})

\* The mutexes that are held while the database is opened.
OfDB(t) == IF t = Cron THEN {"DB", "WorkerMutex"} ELSE {"DB"}

\* A rest takes no mutex without giving it back, leaves at most once, and creates
\* an object only inside the section that guards it.
RestOK(s) ==
    /\ \A m \in Mutexes : Held(s, m) >= 0
    /\ Exits(s) <= 0
    /\ \A o \in Created : Count(s, "create", o) > 0 => Held(s, Guard(o)) >= 1

\* What an instruction asks of those that follow it.
HeadOK(i, s, t) ==
    /\ i.what \in {"lock", "unlock"} => i.on \in Mutexes
    /\ i.what \in {"ifnull", "create"} =>
          /\ i.on \in Created
          /\ Held(s, Guard(i.on)) >= 1
          /\ \A o \in Nested(i.on) : Count(s, "create", o) = 0
          /\ i.on = "DB" =>
                /\ Exits(s) = 0
                /\ \A m \in Mutexes : Held(s, m) = IF m \in OfDB(t) THEN 1 ELSE 0
    /\ i.what = "start" => Exits(s) = 0 /\ \A m \in Mutexes : Held(s, m) = 0
    /\ i.what = "spawn" =>
          /\ Exits(s) = 0
          /\ \A o \in Created : Count(s, "create", o) = 0
          /\ \A m \in Mutexes : Held(s, m) = IF m = "WorkerMutex" THEN 1 ELSE 0
    /\ i.what \in {"free", "destroy"} => Exits(s) < 0
    /\ i.what = "destroy" => i.on = "StockUpdateWorker"

\* Every instruction of the programs of G finds what it asks for.
Closed(G, t) == \A s \in G : s # << >> => Tail(s) \in G /\ HeadOK(Head(s), Tail(s), t)

\* The greatest such set.
Texts(t) ==
    UNION {G \in SUBSET {s \in Seq(Instructions) : RestOK(s)} : Closed(G, t)}

\* Taking the first instruction off a text leaves a text.
LEMMA TextIs ==
    ASSUME NEW t, NEW s \in Texts(t)
    PROVE  /\ s \in Seq(Instructions) /\ RestOK(s)
           /\ s # << >> => /\ Head(s) \in Instructions /\ Tail(s) \in Texts(t)
                           /\ s = <<Head(s)>> \o Tail(s)
                           /\ HeadOK(Head(s), Tail(s), t)
<1>. DEFINE All == {p \in Seq(Instructions) : RestOK(p)}
<1>1. PICK G \in SUBSET All : s \in G /\ Closed(G, t)
  BY DEF Texts
<1>2. s \in Seq(Instructions) /\ RestOK(s)
  BY <1>1
<1>3. ASSUME s # << >>
      PROVE  /\ Head(s) \in Instructions /\ Tail(s) \in Texts(t)
             /\ s = <<Head(s)>> \o Tail(s) /\ HeadOK(Head(s), Tail(s), t)
  <2>1. Tail(s) \in G /\ HeadOK(Head(s), Tail(s), t)
    BY <1>1, <1>3 DEF Closed
  <2>. HIDE DEF All
  <2>2. Tail(s) \in Texts(t)
    BY <1>1, <2>1 DEF Texts, All
  <2>3. Head(s) \in Instructions /\ s = <<Head(s)>> \o Tail(s)
    BY <1>2, <1>3, HeadAndTail
  <2>. QED  BY <2>1, <2>2, <2>3
<1>. QED  BY <1>2, <1>3

\* Nothing is left to do, or there is an instruction before what is left.
LEMMA TextEmpty ==
    ASSUME NEW t
    PROVE  << >> \in Texts(t)
<1>1. << >> \in Seq(Instructions)
  BY EmptySeq
<1>2. RestOK(<< >>)
  BY CountEmpty DEF RestOK, Held, Exits
<1>3. Closed({<< >>}, t)
  BY DEF Closed
<1>. HIDE DEF RestOK, Closed
<1>. QED  BY <1>1, <1>2, <1>3 DEF Texts

\* An instruction that finds what it needs goes before a text.
LEMMA TextCons ==
    ASSUME NEW t, NEW s \in Texts(t), NEW i \in Instructions,
           HeadOK(i, s, t), RestOK(<<i>> \o s)
    PROVE  <<i>> \o s \in Texts(t)
<1>. DEFINE All == {p \in Seq(Instructions) : RestOK(p)}
            new == <<i>> \o s
<1>1. PICK G \in SUBSET All : s \in G /\ Closed(G, t)
  BY DEF Texts
<1>2. s \in Seq(Instructions)
  BY TextIs
<1>3. new \in Seq(Instructions) /\ new # << >> /\ Head(new) = i /\ Tail(new) = s
  <2>1. new \in Seq(Instructions) /\ Len(new) = 1 + Len(s) /\ Head(new) = i
        /\ \A j \in 1..Len(s) : new[j + 1] = s[j]
    BY <1>2
  <2>2. new # << >>
    BY <1>2, <2>1, EmptySeq
  <2>. HIDE DEF new
  <2>3. Tail(new) \in Seq(Instructions) /\ Len(Tail(new)) = Len(s)
        /\ \A j \in 1..Len(s) : Tail(new)[j] = s[j]
    BY <1>2, <2>1, <2>2, HeadTailProperties
  <2>4. Tail(new) = s
    BY <1>2, <2>3, SeqEqual
  <2>. QED  BY <2>1, <2>2, <2>4
<1>. HIDE DEF new
<1>4. G \cup {new} \in SUBSET All
  BY <1>1, <1>3 DEF new
<1>5. Closed(G \cup {new}, t)
  BY <1>1, <1>3 DEF Closed
<1>. HIDE DEF All
<1>6. new \in Texts(t)
  BY <1>4, <1>5 DEF Texts, All
<1>. QED  BY <1>6 DEF new

\* What an instruction changes.
LEMMA EffectIs ==
    ASSUME NEW s \in Seq(Instructions), NEW what \in Words, NEW on \in Names
    PROVE  LET all == <<[what |-> what, on |-> on]>> \o s
           IN  /\ \A m : Held(all, m) = Held(s, m)
                             + (IF what = "unlock" /\ on = m THEN 1 ELSE 0)
                             - (IF what = "lock" /\ on = m THEN 1 ELSE 0)
               /\ Exits(all) = Exits(s)
                             + (IF what = "free" /\ on = "Storage" THEN 1 ELSE 0)
                             - (IF what = "end" /\ on = None THEN 2 ELSE 0)
               /\ \A o : Count(all, "create", o) = Count(s, "create", o)
                             + (IF what = "create" /\ on = o THEN 1 ELSE 0)
<1>. DEFINE i == [what |-> what, on |-> on]
            all == <<i>> \o s
<1>1. i \in Instructions
  BY DEF Instructions, Names
<1>2. \A w, o : i = [what |-> w, on |-> o] <=> what = w /\ on = o
  OBVIOUS
<1>. HIDE DEF i
<1>3. \A w, o : Count(all, w, o) = Count(s, w, o) + (IF i = [what |-> w, on |-> o] THEN 1 ELSE 0)
  BY <1>1, CountCons
<1>4. \A w, o : Count(s, w, o) \in Nat
  BY CountType
<1>. HIDE DEF all
<1>5. \A m : Held(all, m) = Held(s, m)
                 + (IF what = "unlock" /\ on = m THEN 1 ELSE 0)
                 - (IF what = "lock" /\ on = m THEN 1 ELSE 0)
  BY <1>2, <1>3, <1>4 DEF Held
<1>6. Exits(all) = Exits(s)
                 + (IF what = "free" /\ on = "Storage" THEN 1 ELSE 0)
                 - (IF what = "end" /\ on = None THEN 2 ELSE 0)
  <2>1. Count(all, "free", "Storage") = Count(s, "free", "Storage")
            + (IF what = "free" /\ on = "Storage" THEN 1 ELSE 0)
    BY <1>2, <1>3
  <2>2. Count(all, "end", None) = Count(s, "end", None)
            + (IF what = "end" /\ on = None THEN 1 ELSE 0)
    BY <1>2, <1>3
  <2>3. /\ Count(s, "free", "Storage") \in Nat /\ Count(s, "end", None) \in Nat
    BY <1>4
  <2>. QED  BY <2>1, <2>2, <2>3 DEF Exits
<1>7. \A o : Count(all, "create", o) = Count(s, "create", o)
                 + (IF what = "create" /\ on = o THEN 1 ELSE 0)
  BY <1>2, <1>3, <1>4
<1>. QED  BY <1>5, <1>6, <1>7 DEF all, i

\* The three numbers of a program are numbers.
LEMMA NumbersAre ==
    ASSUME NEW s \in Seq(Instructions)
    PROVE  /\ \A m : Held(s, m) \in Int
           /\ Exits(s) \in Int
           /\ \A o : Count(s, "create", o) \in Nat
<1>1. \A w, o : Count(s, w, o) \in Nat
  BY CountType
<1>. QED  BY <1>1 DEF Held, Exits

\* The programs that take no more than they give back, go to the end or not at
\* all, and create nothing yet.
Same(s, r) ==
    /\ \A m \in Mutexes : Held(s, m) = Held(r, m)
    /\ Exits(s) = Exits(r)
    /\ \A o \in Created : Count(s, "create", o) = Count(r, "create", o)

\* They may be put before any program that does not create one of the objects.
Plain(t, objects) ==
    {p \in Seq(Instructions) :
        \A s \in Texts(t) :
            (\A o \in objects : Count(s, "create", o) = 0)
                => p \o s \in Texts(t) /\ Same(p \o s, s)}

\* Two plain programs, one after the other.
LEMMA PlainConcat ==
    ASSUME NEW t, NEW objects \in SUBSET Created,
           NEW p \in Plain(t, objects), NEW q \in Plain(t, objects)
    PROVE  p \o q \in Plain(t, objects)
<1>1. p \in Seq(Instructions) /\ q \in Seq(Instructions) /\ p \o q \in Seq(Instructions)
  BY ConcatProperties DEF Plain
<1>2. ASSUME NEW s \in Texts(t), \A o \in objects : Count(s, "create", o) = 0
      PROVE  (p \o q) \o s \in Texts(t) /\ Same((p \o q) \o s, s)
  <2>1. q \o s \in Texts(t) /\ Same(q \o s, s)
    BY <1>2 DEF Plain
  <2>2. \A o \in objects : Count(q \o s, "create", o) = 0
    BY <1>2, <2>1 DEF Same
  <2>3. p \o (q \o s) \in Texts(t) /\ Same(p \o (q \o s), q \o s)
    BY <2>1, <2>2 DEF Plain
  <2>4. (p \o q) \o s = p \o (q \o s)
    BY <1>1, TextIs, ConcatAssociative
  <2>5. Same(p \o (q \o s), s)
    BY <2>1, <2>3 DEF Same
  <2>. QED  BY <2>3, <2>4, <2>5
<1>. QED  BY <1>1, <1>2 DEF Plain

\* The empty program is plain.
LEMMA PlainEmpty ==
    ASSUME NEW t, NEW objects
    PROVE  << >> \in Plain(t, objects)
<1>1. << >> \in Seq(Instructions)
  BY EmptySeq
<1>2. ASSUME NEW s \in Texts(t) PROVE << >> \o s = s
  BY TextIs, ConcatEmptySeq
<1>. QED  BY <1>1, <1>2 DEF Plain, Same

\* An instruction without effect on the numbers.
LEMMA SilentIs ==
    ASSUME NEW t, NEW s \in Texts(t), NEW what \in Words, NEW on \in Names,
           what \notin {"lock", "unlock", "end", "create"},
           what = "free" => on # "Storage",
           HeadOK([what |-> what, on |-> on], s, t)
    PROVE  Do(what, on) \o s \in Texts(t) /\ Same(Do(what, on) \o s, s)
<1>. DEFINE i == [what |-> what, on |-> on]
<1>1. i \in Instructions
  BY DEF Instructions, Names
<1>2. s \in Seq(Instructions) /\ RestOK(s)
  BY TextIs
<1>3. /\ \A m : Held(<<i>> \o s, m) = Held(s, m)
      /\ Exits(<<i>> \o s) = Exits(s)
      /\ \A o : Count(<<i>> \o s, "create", o) = Count(s, "create", o)
  <2>1. /\ \A m : Held(s, m) \in Int
        /\ Exits(s) \in Int
        /\ \A o : Count(s, "create", o) \in Nat
    BY <1>2, NumbersAre
  <2>2. /\ \A m : Held(<<i>> \o s, m) = Held(s, m)
                       + (IF what = "unlock" /\ on = m THEN 1 ELSE 0)
                       - (IF what = "lock" /\ on = m THEN 1 ELSE 0)
        /\ Exits(<<i>> \o s) = Exits(s)
                       + (IF what = "free" /\ on = "Storage" THEN 1 ELSE 0)
                       - (IF what = "end" /\ on = None THEN 2 ELSE 0)
        /\ \A o : Count(<<i>> \o s, "create", o) = Count(s, "create", o)
                       + (IF what = "create" /\ on = o THEN 1 ELSE 0)
    BY <1>2, EffectIs
  <2>. HIDE DEF i
  <2>. QED  BY <2>1, <2>2
<1>. HIDE DEF i
<1>4. RestOK(<<i>> \o s)
  BY <1>2, <1>3 DEF RestOK
<1>5. HeadOK(i, s, t)
  BY DEF i
<1>6. <<i>> \o s \in Texts(t)
  BY <1>1, <1>4, <1>5, TextCons
<1>7. Same(<<i>> \o s, s)
  BY <1>3 DEF Same
<1>. QED  BY <1>6, <1>7 DEF Do, i

\* One that asks nothing of those that follow it.
LEMMA PlainDo ==
    ASSUME NEW t, NEW what \in {"initialize", "assert", "interrupt", "download", "serve", "stop"},
           NEW on \in Names
    PROVE  Do(what, on) \in Plain(t, {})
<1>1. what \in Words /\ what \notin {"lock", "unlock", "end", "create", "free"}
  BY DEF Words
<1>2. Do(what, on) \in Seq(Instructions)
  BY <1>1 DEF Instructions, Do, Names
<1>3. ASSUME NEW s \in Texts(t)
      PROVE  Do(what, on) \o s \in Texts(t) /\ Same(Do(what, on) \o s, s)
  <2>1. HeadOK([what |-> what, on |-> on], s, t)
    BY DEF HeadOK
  <2>. QED  BY <1>1, <2>1, SilentIs
<1>. QED  BY <1>2, <1>3 DEF Plain

\* The two ends of a section.
LEMMA UnlockIs ==
    ASSUME NEW t, NEW m \in Mutexes, NEW s \in Texts(t)
    PROVE  LET all == Do("unlock", m) \o s
           IN  /\ all \in Texts(t)
               /\ \A k \in Mutexes : Held(all, k) = Held(s, k) + (IF k = m THEN 1 ELSE 0)
               /\ Exits(all) = Exits(s)
               /\ \A o \in Created : Count(all, "create", o) = Count(s, "create", o)
<1>. DEFINE i == [what |-> "unlock", on |-> m]
            all == <<i>> \o s
<1>1. i \in Instructions /\ i.what = "unlock" /\ i.on = m
  BY DEF Instructions, Words, Names
<1>2. s \in Seq(Instructions) /\ RestOK(s)
  BY TextIs
<1>3. /\ \A k : Held(all, k) = Held(s, k) + (IF k = m THEN 1 ELSE 0)
      /\ Exits(all) = Exits(s)
      /\ \A o : Count(all, "create", o) = Count(s, "create", o)
  <2>1. /\ \A k : Held(s, k) \in Int
        /\ Exits(s) \in Int
        /\ \A o : Count(s, "create", o) \in Nat
    BY <1>2, NumbersAre
  <2>2. /\ \A k : Held(all, k) = Held(s, k) + (IF "unlock" = "unlock" /\ m = k THEN 1 ELSE 0)
                                        - (IF "unlock" = "lock" /\ m = k THEN 1 ELSE 0)
        /\ Exits(all) = Exits(s) + (IF "unlock" = "free" /\ m = "Storage" THEN 1 ELSE 0)
                                 - (IF "unlock" = "end" /\ m = None THEN 2 ELSE 0)
        /\ \A o : Count(all, "create", o) = Count(s, "create", o)
                                 + (IF "unlock" = "create" /\ m = o THEN 1 ELSE 0)
    BY <1>2, EffectIs DEF Words, Names
  <2>. HIDE DEF all
  <2>. QED  BY <2>1, <2>2
<1>. HIDE DEF i
<1>4. HeadOK(i, s, t)
  BY <1>1 DEF HeadOK
<1>5. RestOK(<<i>> \o s)
  <2>. HIDE DEF all
  <2>1. \A k : Held(s, k) \in Int /\ Held(all, k) >= Held(s, k)
    BY <1>2, <1>3, NumbersAre
  <2>2. \A k \in Mutexes : Held(all, k) >= 0
    BY <1>2, <1>3, <2>1 DEF RestOK
  <2>3. \A o \in Created : Count(all, "create", o) > 0 => Held(all, Guard(o)) >= 1
    BY <1>2, <1>3, <2>1 DEF RestOK
  <2>4. RestOK(all)
    BY <1>2, <1>3, <2>2, <2>3 DEF RestOK
  <2>. QED  BY <2>4 DEF all
<1>6. <<i>> \o s \in Texts(t)
  BY <1>1, <1>4, <1>5, TextCons
<1>. QED  BY <1>3, <1>6 DEF Do, i

\* It takes the mutex that s gives back: what is left has the numbers of r.
LEMMA LockIs ==
    ASSUME NEW t, NEW m \in Mutexes, NEW s \in Texts(t), NEW r \in Texts(t),
           \A k \in Mutexes : Held(s, k) = Held(r, k) + (IF k = m THEN 1 ELSE 0),
           Exits(s) = Exits(r),
           \A o \in Created : Count(s, "create", o) = Count(r, "create", o)
    PROVE  Do("lock", m) \o s \in Texts(t) /\ Same(Do("lock", m) \o s, r)
<1>. DEFINE i == [what |-> "lock", on |-> m]
            all == <<i>> \o s
<1>1. i \in Instructions /\ i.what = "lock" /\ i.on = m
  BY DEF Instructions, Words, Names
<1>2. s \in Seq(Instructions) /\ RestOK(s) /\ r \in Seq(Instructions) /\ RestOK(r)
  BY TextIs
<1>3. Same(all, r)
  <2>1. /\ \A k : Held(s, k) \in Int /\ Held(r, k) \in Int
        /\ Exits(s) \in Int
        /\ \A o : Count(s, "create", o) \in Nat
    BY <1>2, NumbersAre
  <2>2. /\ \A k : Held(all, k) = Held(s, k) + (IF "lock" = "unlock" /\ m = k THEN 1 ELSE 0)
                                        - (IF "lock" = "lock" /\ m = k THEN 1 ELSE 0)
        /\ Exits(all) = Exits(s) + (IF "lock" = "free" /\ m = "Storage" THEN 1 ELSE 0)
                                 - (IF "lock" = "end" /\ m = None THEN 2 ELSE 0)
        /\ \A o : Count(all, "create", o) = Count(s, "create", o)
                                 + (IF "lock" = "create" /\ m = o THEN 1 ELSE 0)
    BY <1>2, EffectIs DEF Words, Names
  <2>. HIDE DEF all
  <2>3. \A k \in Mutexes : Held(all, k) = Held(r, k)
    BY <2>1, <2>2
  <2>4. Exits(all) = Exits(r) /\ \A o \in Created : Count(all, "create", o) = Count(r, "create", o)
    BY <2>1, <2>2
  <2>. QED  BY <2>3, <2>4 DEF Same
<1>. HIDE DEF i
<1>4. HeadOK(i, s, t)
  BY <1>1 DEF HeadOK
<1>5. RestOK(all)
  <2>. HIDE DEF all
  <2>1. \A o \in Created : Guard(o) \in Mutexes
    BY DEF Created, Guard, Objects, Statics, Mutexes
  <2>. QED  BY <1>2, <1>3, <2>1 DEF RestOK, Same
<1>6. <<i>> \o s \in Texts(t)
  BY <1>1, <1>4, <1>5, TextCons
<1>. QED  BY <1>3, <1>6 DEF Do, i

\* What guards an object is a mutex.
LEMMA MutexesAre == \A o \in Created : Guard(o) \in Mutexes
BY DEF Created, Guard, Objects, Statics, Mutexes

\* The pieces of a section one after the other, and what follows it.
Pieces(a, b, c, s) == ((a \o b) \o c) \o s = a \o (b \o (c \o s))

Joins(p, q, r) == (p \o q) \o r = p \o (q \o r)

\* They are a program, and it does not matter how they are put together.
LEMMA SectionIs ==
    \A a, b, c \in Seq(Instructions) :
        /\ (a \o b) \o c \in Seq(Instructions)
        /\ \A s \in Seq(Instructions) : Pieces(a, b, c, s)
<1>1. \A p, q, r \in Seq(Instructions) : Joins(p, q, r)
  BY ConcatAssociative, SMTT(30) DEF Joins
<1>2. \A p, q \in Seq(Instructions) : p \o q \in Seq(Instructions)
  BY ConcatProperties
<1>. TAKE a, b, c \in Seq(Instructions)
<1>3. a \o b \in Seq(Instructions) /\ (a \o b) \o c \in Seq(Instructions)
  BY <1>2
<1>4. ASSUME NEW s \in Seq(Instructions)
      PROVE  Pieces(a, b, c, s)
  <2>1. c \o s \in Seq(Instructions)
    BY <1>2
  <2>2. Joins(a \o b, c, s) /\ Joins(a, b, c \o s)
    BY <1>1, <1>3, <2>1
  <2>. QED  BY <2>2, Zenon DEF Joins, Pieces
<1>. QED  BY <1>3, <1>4

\* A section around a plain program is plain.
LEMMA PlainSection ==
    ASSUME NEW t, NEW objects \in SUBSET Created, NEW m \in Mutexes,
           NEW body \in Plain(t, objects)
    PROVE  Section(m, body) \in Plain(t, objects)
<1>. DEFINE lock == Do("lock", m)
            unlock == Do("unlock", m)
<1>1. lock \in Seq(Instructions) /\ unlock \in Seq(Instructions) /\ body \in Seq(Instructions)
  BY DEF Do, Instructions, Words, Names, Plain
<1>2. ASSUME NEW s \in Texts(t), \A o \in objects : Count(s, "create", o) = 0
      PROVE  /\ ((lock \o body) \o unlock) \o s \in Texts(t)
             /\ Same(((lock \o body) \o unlock) \o s, s)
  <2>1. /\ unlock \o s \in Texts(t)
        /\ \A k \in Mutexes : Held(unlock \o s, k) = Held(s, k) + (IF k = m THEN 1 ELSE 0)
        /\ Exits(unlock \o s) = Exits(s)
        /\ \A o \in Created : Count(unlock \o s, "create", o) = Count(s, "create", o)
    BY UnlockIs
  <2>. HIDE DEF lock, unlock
  <2>2. \A o \in objects : Count(unlock \o s, "create", o) = 0
    BY <1>2, <2>1
  <2>3. body \o (unlock \o s) \in Texts(t) /\ Same(body \o (unlock \o s), unlock \o s)
    BY <2>1, <2>2 DEF Plain
  <2>4. lock \o (body \o (unlock \o s)) \in Texts(t) /\ Same(lock \o (body \o (unlock \o s)), s)
    BY <2>1, <2>3, LockIs DEF Same, lock
  <2>5. ((lock \o body) \o unlock) \o s = lock \o (body \o (unlock \o s))
    <3>1. s \in Seq(Instructions)
      BY TextIs
    <3>2. Pieces(lock, body, unlock, s)
      BY <1>1, <3>1, SectionIs
    <3>. QED  BY <3>2 DEF Pieces
  <2>. QED  BY <2>4, <2>5
<1>3. (lock \o body) \o unlock \in Seq(Instructions)
  <2>. HIDE DEF lock, unlock
  <2>. QED  BY <1>1, ConcatProperties
<1>4. (lock \o body) \o unlock \in Plain(t, objects)
  <2>. HIDE DEF lock, unlock
  <2>. QED  BY <1>2, <1>3 DEF Plain
<1>. QED  BY <1>4 DEF Section

-----------------------------------------------------------------------------
(***************************************************************************)
(* The pieces of the code.                                                 *)
(***************************************************************************)
\* The instance of an object is looked for in a section of its own.
LEMMA PlainInstance ==
    ASSUME NEW t, NEW object \in Objects \ {"DB"}
    PROVE  Instance(object) \in Plain(t, {object})
<1>1. /\ object \in Mutexes /\ object \in Created /\ object \in Names
      /\ Guard(object) = object /\ Nested(object) = {object}
  BY DEF Mutexes, Created, Names, Guard, Nested, Objects, Statics
<1>2. "ifnull" \in Words /\ "lock" \in Words /\ "unlock" \in Words
  BY DEF Words
<1>. DEFINE lock == Do("lock", object)
            unlock == Do("unlock", object)
            look == Do("ifnull", object)
<1>3. lock \in Seq(Instructions) /\ unlock \in Seq(Instructions) /\ look \in Seq(Instructions)
  BY <1>1, <1>2 DEF Do, Instructions, Names
<1>4. ASSUME NEW s \in Texts(t), Count(s, "create", object) = 0
      PROVE  lock \o (look \o (unlock \o s)) \in Texts(t)
             /\ Same(lock \o (look \o (unlock \o s)), s)
  <2>1. /\ unlock \o s \in Texts(t)
        /\ \A k \in Mutexes : Held(unlock \o s, k) = Held(s, k) + (IF k = object THEN 1 ELSE 0)
        /\ Exits(unlock \o s) = Exits(s)
        /\ \A o \in Created : Count(unlock \o s, "create", o) = Count(s, "create", o)
    BY <1>1, UnlockIs
  <2>. HIDE DEF lock, unlock
  <2>2. Held(unlock \o s, object) >= 1
    <3>1. s \in Seq(Instructions) /\ RestOK(s)
      BY TextIs
    <3>2. Held(s, object) \in Int /\ Held(s, object) >= 0
      BY <1>1, <3>1, NumbersAre DEF RestOK
    <3>. QED  BY <1>1, <2>1, <3>2
  <2>3. HeadOK([what |-> "ifnull", on |-> object], unlock \o s, t)
    BY <1>1, <1>4, <2>1, <2>2 DEF HeadOK
  <2>4. look \o (unlock \o s) \in Texts(t) /\ Same(look \o (unlock \o s), unlock \o s)
    BY <1>1, <1>2, <2>1, <2>3, SilentIs
  <2>. HIDE DEF look
  <2>. QED  BY <1>1, <2>1, <2>4, LockIs DEF Same, lock
<1>5. Section(object, look) \in Seq(Instructions)
      /\ \A s \in Texts(t) : Section(object, look) \o s = lock \o (look \o (unlock \o s))
  <2>. HIDE DEF lock, look, unlock
  <2>1. (lock \o look) \o unlock \in Seq(Instructions)
        /\ \A s \in Seq(Instructions) : Pieces(lock, look, unlock, s)
    BY <1>3, SectionIs
  <2>2. \A s \in Texts(t) : s \in Seq(Instructions)
    BY TextIs
  <2>3. \A s \in Texts(t) : ((lock \o look) \o unlock) \o s = lock \o (look \o (unlock \o s))
    BY <2>1, <2>2 DEF Pieces
  <2>4. Section(object, Do("ifnull", object)) = (lock \o look) \o unlock
    BY DEF Section, lock, look, unlock
  <2>. QED  BY <2>1, <2>3, <2>4 DEF look
<1>. HIDE DEF lock, look, unlock
<1>6. Section(object, look) \in Plain(t, {object})
  BY <1>4, <1>5 DEF Plain
<1>. QED  BY <1>6 DEF Instance, look

\* The mutexes have names, and so have the objects.
LEMMA NamesAre ==
    /\ Mutexes \subseteq Names /\ Created \subseteq Names /\ {Cron, None} \subseteq Names
    /\ {"LogStorage", "LogMutex", "WorkerMutex", "DB"} \subseteq Mutexes
    /\ Objects \subseteq Mutexes /\ Objects \subseteq Created /\ Statics \subseteq Created
BY DEF Names, Mutexes, Created, Objects, Statics

\* Log::Impl::Storage is an empty section.
LEMMA PlainLogStorage ==
    ASSUME NEW t
    PROVE  LogStorage \in Plain(t, {})
<1>1. {} \in SUBSET Created /\ "LogStorage" \in Mutexes
  BY NamesAre
<1>2. << >> \in Plain(t, {})
  BY PlainEmpty
<1>. HIDE DEF Plain
<1>. QED  BY <1>1, <1>2, PlainSection DEF LogStorage

\* A message takes two mutexes and gives them back.
LEMMA PlainLogEntry ==
    ASSUME NEW t
    PROVE  LogEntry \in Plain(t, {})
<1>1. {} \in SUBSET Created /\ "LogMutex" \in Mutexes /\ None \in Names
  BY NamesAre
<1>2. LogStorage \in Plain(t, {})
  BY PlainLogStorage
<1>3. Section("LogMutex", LogStorage) \in Plain(t, {})
  BY <1>1, <1>2, PlainSection
<1>4. Do("assert", None) \in Plain(t, {})
  BY <1>1, PlainDo
<1>5. LogStorage \o Do("assert", None) \in Plain(t, {})
  BY <1>1, <1>2, <1>4, PlainConcat
<1>6. (LogStorage \o Do("assert", None)) \o Section("LogMutex", LogStorage) \in Plain(t, {})
  BY <1>1, <1>3, <1>5, PlainConcat
<1>. QED  BY <1>6 DEF LogEntry

-----------------------------------------------------------------------------
(***************************************************************************)
(* The teardown.                                                           *)
(***************************************************************************)
\* What is left of it before s, n steps of taking down the Storage ahead.
Down(t, s, n) ==
    {u \in Texts(t) :
        /\ \A m \in Mutexes : Held(u, m) = Held(s, m)
        /\ Exits(u) = Exits(s) - n
        /\ \A o \in Created : Count(u, "create", o) = Count(s, "create", o)}

\* The end of the process has the whole teardown ahead of it.
LEMMA DownEnd ==
    ASSUME NEW t, NEW s \in Texts(t)
    PROVE  Do("end", None) \o s \in Down(t, s, 2)
<1>. DEFINE i == [what |-> "end", on |-> None]
            all == <<i>> \o s
<1>1. "end" \in Words /\ None \in Names
  BY NamesAre DEF Words
<1>2. i \in Instructions /\ i.what = "end"
  BY <1>1 DEF Instructions, Names
<1>3. s \in Seq(Instructions) /\ RestOK(s)
  BY TextIs
<1>4. /\ \A m : Held(s, m) \in Int
      /\ Exits(s) \in Int
      /\ \A o : Count(s, "create", o) \in Nat
  BY <1>3, NumbersAre
<1>5. /\ \A m : Held(all, m) = Held(s, m)
      /\ Exits(all) = Exits(s) - 2
      /\ \A o : Count(all, "create", o) = Count(s, "create", o)
  <2>1. /\ \A m : Held(all, m) = Held(s, m)
                       + (IF "end" = "unlock" /\ None = m THEN 1 ELSE 0)
                       - (IF "end" = "lock" /\ None = m THEN 1 ELSE 0)
        /\ Exits(all) = Exits(s)
                       + (IF "end" = "free" /\ None = "Storage" THEN 1 ELSE 0)
                       - (IF "end" = "end" /\ None = None THEN 2 ELSE 0)
        /\ \A o : Count(all, "create", o) = Count(s, "create", o)
                       + (IF "end" = "create" /\ None = o THEN 1 ELSE 0)
    BY <1>1, <1>3, EffectIs
  <2>. HIDE DEF all
  <2>. QED  BY <1>4, <2>1
<1>. HIDE DEF i
<1>6. RestOK(all)
  <2>. HIDE DEF all
  <2>. QED  BY <1>3, <1>4, <1>5 DEF RestOK
<1>7. HeadOK(i, s, t)
  BY <1>2 DEF HeadOK
<1>8. all \in Texts(t)
  BY <1>2, <1>6, <1>7, TextCons
<1>. HIDE DEF all
<1>9. all \in Down(t, s, 2)
  BY <1>5, <1>8 DEF Down
<1>. QED  BY <1>9 DEF Do, all, i

\* A plain program, or another object, in front of it.
LEMMA DownPlain ==
    ASSUME NEW t, NEW s \in Texts(t), NEW n \in Nat, NEW u \in Down(t, s, n),
           NEW p \in Plain(t, {})
    PROVE  p \o u \in Down(t, s, n)
<1>1. p \o u \in Texts(t) /\ Same(p \o u, u)
  BY DEF Plain, Down
<1>. QED  BY <1>1 DEF Down, Same

\* Another member of RT, freed or destroyed within it.
LEMMA DownFree ==
    ASSUME NEW t, NEW s \in Texts(t), NEW n \in {1, 2}, NEW u \in Down(t, s, n),
           NEW what \in {"free", "destroy"}, NEW on \in Objects,
           what = "free" => on # "Storage",
           what = "destroy" => on = "StockUpdateWorker"
    PROVE  Do(what, on) \o u \in Down(t, s, n)
<1>1. what \in Words /\ on \in Names
  BY NamesAre DEF Words
<1>2. u \in Texts(t)
  BY DEF Down
<1>3. Exits(u) < 0
  <2>1. s \in Seq(Instructions) /\ RestOK(s)
    BY TextIs
  <2>2. Exits(s) \in Int /\ Exits(s) <= 0
    BY <2>1, NumbersAre DEF RestOK
  <2>3. Exits(u) = Exits(s) - n
    BY DEF Down
  <2>. QED  BY <2>2, <2>3
<1>4. HeadOK([what |-> what, on |-> on], u, t)
  BY <1>3 DEF HeadOK
<1>5. Do(what, on) \o u \in Texts(t) /\ Same(Do(what, on) \o u, u)
  BY <1>1, <1>2, <1>4, SilentIs
<1>. QED  BY <1>5 DEF Down, Same

\* The Storage is the first member of the teardown and the last.
LEMMA DownStorage ==
    ASSUME NEW t, NEW s \in Texts(t), NEW n \in {1, 2}, NEW u \in Down(t, s, n)
    PROVE  Do("free", "Storage") \o u \in Down(t, s, n - 1)
<1>. DEFINE i == [what |-> "free", on |-> "Storage"]
            all == <<i>> \o u
<1>1. "free" \in Words /\ "Storage" \in Names
  BY NamesAre DEF Words, Objects
<1>2. i \in Instructions /\ i.what = "free"
  BY <1>1 DEF Instructions, Names
<1>3. /\ u \in Texts(t) /\ u \in Seq(Instructions) /\ RestOK(u)
      /\ s \in Seq(Instructions) /\ RestOK(s)
  BY TextIs DEF Down
<1>4. /\ \A m : Held(u, m) \in Int
      /\ Exits(u) \in Int /\ Exits(s) \in Int /\ Exits(s) <= 0
      /\ \A o : Count(u, "create", o) \in Nat
  BY <1>3, NumbersAre DEF RestOK
<1>5. Exits(u) = Exits(s) - n
  BY DEF Down
<1>6. /\ \A m : Held(all, m) = Held(u, m)
      /\ Exits(all) = Exits(u) + 1
      /\ \A o : Count(all, "create", o) = Count(u, "create", o)
  <2>1. /\ \A m : Held(all, m) = Held(u, m)
                       + (IF "free" = "unlock" /\ "Storage" = m THEN 1 ELSE 0)
                       - (IF "free" = "lock" /\ "Storage" = m THEN 1 ELSE 0)
        /\ Exits(all) = Exits(u)
                       + (IF "free" = "free" /\ "Storage" = "Storage" THEN 1 ELSE 0)
                       - (IF "free" = "end" /\ "Storage" = None THEN 2 ELSE 0)
        /\ \A o : Count(all, "create", o) = Count(u, "create", o)
                       + (IF "free" = "create" /\ "Storage" = o THEN 1 ELSE 0)
    BY <1>1, <1>3, EffectIs
  <2>. HIDE DEF all
  <2>. QED  BY <1>4, <2>1
<1>. HIDE DEF i
<1>7. RestOK(all)
  <2>. HIDE DEF all
  <2>1. Exits(all) <= 0
    BY <1>4, <1>5, <1>6
  <2>. QED  BY <1>3, <1>6, <2>1 DEF RestOK
<1>8. HeadOK(i, u, t)
  <2>1. Exits(u) < 0
    BY <1>4, <1>5
  <2>. QED  BY <1>2, <2>1 DEF HeadOK
<1>9. all \in Texts(t)
  BY <1>2, <1>3, <1>7, <1>8, TextCons
<1>. HIDE DEF all
<1>10. Exits(all) = Exits(s) - (n - 1)
  BY <1>4, <1>5, <1>6
<1>11. all \in Down(t, s, n - 1)
  BY <1>6, <1>9, <1>10 DEF Down
<1>. QED  BY <1>11 DEF Do, all, i

\* The programs that lead from every program of A to one of B, put before it.
Leads(A, B) == {p \in Seq(Instructions) : \A u \in A : p \o u \in B}

\* Two such programs, one after the other.
LEMMA LeadsConcat ==
    ASSUME NEW A \in SUBSET Seq(Instructions), NEW B, NEW C,
           NEW p \in Leads(B, C), NEW q \in Leads(A, B)
    PROVE  p \o q \in Leads(A, C)
<1>1. p \in Seq(Instructions) /\ q \in Seq(Instructions)
  BY DEF Leads
<1>2. p \o q \in Seq(Instructions)
  BY <1>1, ConcatProperties
<1>3. ASSUME NEW u \in A PROVE (p \o q) \o u \in C
  <2>1. q \o u \in B
    BY DEF Leads
  <2>2. p \o (q \o u) \in C
    BY <2>1 DEF Leads
  <2>3. u \in Seq(Instructions)
    OBVIOUS
  <2>4. (p \o q) \o u = p \o (q \o u)
    BY <1>1, <2>3, ConcatAssociative, SMTT(30)
  <2>. QED  BY <2>2, <2>4
<1>. QED  BY <1>2, <1>3 DEF Leads

\* The rest of a teardown is a program.
LEMMA DownIs ==
    ASSUME NEW t, NEW s \in Texts(t), NEW n
    PROVE  Down(t, s, n) \in SUBSET Seq(Instructions)
<1>1. \A u \in Texts(t) : u \in Seq(Instructions)
  BY TextIs
<1>. QED  BY <1>1 DEF Down

\* The instructions of the teardown, of which the Storage is two.
LEMMA DownLeads ==
    ASSUME NEW t, NEW s \in Texts(t)
    PROVE  /\ Do("end", None) \in Leads(Down(t, s, 0), Down(t, s, 2))
           /\ \A n \in 1..2 :
                 /\ Do("free", "Storage") \in Leads(Down(t, s, n), Down(t, s, n - 1))
                 /\ Do("destroy", "StockUpdateWorker") \in Leads(Down(t, s, n), Down(t, s, n))
                 /\ \A o \in Objects \ {"Storage"} :
                       Do("free", o) \in Leads(Down(t, s, n), Down(t, s, n))
<1>1. /\ \A what \in {"end", "free", "destroy"}, on \in Names : Do(what, on) \in Seq(Instructions)
      /\ None \in Names /\ Objects \subseteq Names
      /\ "Storage" \in Objects /\ "StockUpdateWorker" \in Objects
  BY NamesAre DEF Do, Instructions, Words, Objects, Names
<1>2. ASSUME NEW u \in Down(t, s, 0)
      PROVE  Do("end", None) \o u \in Down(t, s, 2)
  <2>1. u \in Texts(t) /\ s \in Seq(Instructions) /\ u \in Seq(Instructions)
    BY TextIs DEF Down
  <2>2. Do("end", None) \o u \in Down(t, u, 2)
    BY <2>1, DownEnd
  <2>3. Exits(s) \in Int /\ Exits(u) \in Int
    BY <2>1, NumbersAre
  <2>4. Exits(u) = Exits(s)
    BY <2>3 DEF Down
  <2>. QED  BY <2>2, <2>3, <2>4 DEF Down
<1>3. ASSUME NEW n \in {1, 2}
      PROVE  /\ Do("free", "Storage") \in Leads(Down(t, s, n), Down(t, s, n - 1))
             /\ Do("destroy", "StockUpdateWorker") \in Leads(Down(t, s, n), Down(t, s, n))
             /\ \A o \in Objects \ {"Storage"} :
                   Do("free", o) \in Leads(Down(t, s, n), Down(t, s, n))
  <2>1. ASSUME NEW u \in Down(t, s, n) PROVE Do("free", "Storage") \o u \in Down(t, s, n - 1)
    BY DownStorage
  <2>2. ASSUME NEW u \in Down(t, s, n)
        PROVE  Do("destroy", "StockUpdateWorker") \o u \in Down(t, s, n)
    BY <1>1, DownFree
  <2>3. ASSUME NEW u \in Down(t, s, n), NEW o \in Objects \ {"Storage"}
        PROVE  Do("free", o) \o u \in Down(t, s, n)
    BY DownFree
  <2>. QED  BY <1>1, <2>1, <2>2, <2>3 DEF Leads
<1>. QED  BY <1>1, <1>2, <1>3 DEF Leads

\* exit goes before any program: a handler may have been anywhere.
LEMMA PlainExit ==
    ASSUME NEW t
    PROVE  Exit \in Plain(t, {})
<1>1. ASSUME NEW s \in Texts(t)
      PROVE  Exit \in Leads(Down(t, s, 0), Down(t, s, 0))
  <2>. DEFINE D(n) == Down(t, s, n)
  <2>1. D(0) \in SUBSET Seq(Instructions) /\ D(1) \in SUBSET Seq(Instructions)
        /\ D(2) \in SUBSET Seq(Instructions)
    BY DownIs
  <2>2. /\ Do("end", None) \in Leads(D(0), D(2))
        /\ Do("free", "Storage") \in Leads(D(2), D(1))
        /\ Do("free", "Storage") \in Leads(D(1), D(0))
        /\ Do("destroy", "StockUpdateWorker") \in Leads(D(1), D(1))
        /\ Do("free", "DB") \in Leads(D(1), D(1))
        /\ Do("free", "DBTables") \in Leads(D(1), D(1))
        /\ Do("free", "TokenClient") \in Leads(D(1), D(1))
        /\ Do("free", "TokenServer") \in Leads(D(1), D(1))
    <3>1. \A o \in {"DB", "DBTables", "TokenClient", "TokenServer"} : o \in Objects \ {"Storage"}
      BY DEF Objects
    <3>2. 1 \in 1..2 /\ 2 \in 1..2 /\ 2 - 1 = 1 /\ 1 - 1 = 0
      OBVIOUS
    <3>3. /\ Do("end", None) \in Leads(D(0), D(2))
          /\ Do("free", "Storage") \in Leads(D(2), D(2 - 1))
          /\ Do("free", "Storage") \in Leads(D(1), D(1 - 1))
          /\ Do("destroy", "StockUpdateWorker") \in Leads(D(1), D(1))
          /\ \A o \in Objects \ {"Storage"} : Do("free", o) \in Leads(D(1), D(1))
      BY <3>2, DownLeads
    <3>. HIDE DEF D
    <3>. QED  BY <3>1, <3>2, <3>3
  <2>3. LogStorage \in Leads(D(2), D(2))
    <3>1. LogStorage \in Seq(Instructions)
      BY PlainLogStorage DEF Plain
    <3>2. ASSUME NEW u \in D(2) PROVE LogStorage \o u \in D(2)
      BY PlainLogStorage, DownPlain
    <3>. HIDE DEF D
    <3>. QED  BY <3>1, <3>2 DEF Leads
  <2>. DEFINE fs == Do("free", "Storage")
              fd == Do("free", "DB")
              w == Do("destroy", "StockUpdateWorker")
              c == Do("free", "TokenClient")
              v == Do("free", "TokenServer")
              b == Do("free", "DBTables")
              n == Do("end", None)
  <2>4. /\ fs \in Leads(D(2), D(1)) /\ fs \in Leads(D(1), D(0)) /\ fd \in Leads(D(1), D(1))
        /\ w \in Leads(D(1), D(1)) /\ c \in Leads(D(1), D(1)) /\ v \in Leads(D(1), D(1))
        /\ b \in Leads(D(1), D(1)) /\ n \in Leads(D(0), D(2))
    BY <2>2
  <2>. HIDE DEF D, fs, fd, w, c, v, b, n
  <2>5. fs \o fd \in Leads(D(1), D(0))
    BY <2>1, <2>4, LeadsConcat
  <2>6. (fs \o fd) \o w \in Leads(D(1), D(0))
    BY <2>1, <2>4, <2>5, LeadsConcat
  <2>7. ((fs \o fd) \o w) \o c \in Leads(D(1), D(0))
    BY <2>1, <2>4, <2>6, LeadsConcat
  <2>8. (((fs \o fd) \o w) \o c) \o v \in Leads(D(1), D(0))
    BY <2>1, <2>4, <2>7, LeadsConcat
  <2>9. ((((fs \o fd) \o w) \o c) \o v) \o b \in Leads(D(1), D(0))
    BY <2>1, <2>4, <2>8, LeadsConcat
  <2>10. (((((fs \o fd) \o w) \o c) \o v) \o b) \o fd \in Leads(D(1), D(0))
    BY <2>1, <2>4, <2>9, LeadsConcat
  <2>11. ((((((fs \o fd) \o w) \o c) \o v) \o b) \o fd) \o fs \in Leads(D(2), D(0))
    BY <2>1, <2>4, <2>10, LeadsConcat
  <2>12. (((((((fs \o fd) \o w) \o c) \o v) \o b) \o fd) \o fs) \o LogStorage \in Leads(D(2), D(0))
    BY <2>1, <2>3, <2>11, LeadsConcat
  <2>13. ((((((((fs \o fd) \o w) \o c) \o v) \o b) \o fd) \o fs) \o LogStorage) \o n
             \in Leads(D(0), D(0))
    BY <2>1, <2>4, <2>12, LeadsConcat
  <2>14. Exit = ((((((((fs \o fd) \o w) \o c) \o v) \o b) \o fd) \o fs) \o LogStorage) \o n
    BY Zenon DEF Exit, fs, fd, w, c, v, b, n
  <2>15. Exit \in Leads(D(0), D(0))
    BY <2>13, <2>14
  <2>. QED  BY <2>15 DEF D
<1>2. ASSUME NEW s \in Texts(t) PROVE s \in Down(t, s, 0)
  <2>1. s \in Seq(Instructions)
    BY TextIs
  <2>2. Exits(s) \in Int
    BY <2>1, NumbersAre
  <2>3. Exits(s) = Exits(s) - 0
    BY <2>2
  <2>. QED  BY <2>3 DEF Down
<1>3. ASSUME NEW s \in Texts(t) PROVE Exit \o s \in Texts(t) /\ Same(Exit \o s, s)
  <2>1. Exit \o s \in Down(t, s, 0)
    BY <1>1, <1>2 DEF Leads
  <2>2. Exits(s) \in Int
    BY TextIs, NumbersAre
  <2>. QED  BY <2>1, <2>2 DEF Down, Same
<1>4. Exit \in Seq(Instructions)
  BY <1>1, TextEmpty DEF Leads
<1>. QED  BY <1>3, <1>4 DEF Plain

\* The handler: it logs and leaves.
LEMMA PlainTerminate ==
    ASSUME NEW t
    PROVE  Terminate \in Plain(t, {})
<1>1. {} \in SUBSET Created
  OBVIOUS
<1>. QED  BY <1>1, PlainLogEntry, PlainExit, PlainConcat DEF Terminate

-----------------------------------------------------------------------------
(***************************************************************************)
(* The programs of the threads.                                            *)
(***************************************************************************)
\* What is left outside of all sections but those of held, with nothing half
\* created and the members of RT in place.
Blank(t, held) ==
    {s \in Texts(t) :
        /\ Exits(s) = 0
        /\ \A o \in Created : Count(s, "create", o) = 0
        /\ \A m \in Mutexes : Held(s, m) = IF m \in held THEN 1 ELSE 0}

\* They are programs, and the empty one holds nothing.
LEMMA BlankIs ==
    ASSUME NEW t
    PROVE  /\ \A held : Blank(t, held) \in SUBSET Seq(Instructions)
           /\ << >> \in Blank(t, {})
<1>1. \A s \in Texts(t) : s \in Seq(Instructions)
  BY TextIs
<1>2. << >> \in Texts(t)
  BY TextEmpty
<1>3. \A what, on : Count(<< >>, what, on) = 0
  BY CountEmpty
<1>4. Exits(<< >>) = 0 /\ \A m : Held(<< >>, m) = 0
  BY <1>3 DEF Exits, Held
<1>. QED  BY <1>1, <1>2, <1>3, <1>4 DEF Blank

\* A plain program leaves them as they are.
LEMMA PlainLeads ==
    ASSUME NEW t, NEW held, NEW objects \in SUBSET Created, NEW p \in Plain(t, objects)
    PROVE  p \in Leads(Blank(t, held), Blank(t, held))
<1>1. p \in Seq(Instructions)
  BY DEF Plain
<1>2. ASSUME NEW s \in Blank(t, held) PROVE p \o s \in Blank(t, held)
  <2>1. s \in Texts(t) /\ \A o \in objects : Count(s, "create", o) = 0
    BY DEF Blank
  <2>2. p \o s \in Texts(t) /\ Same(p \o s, s)
    BY <2>1 DEF Plain
  <2>. QED  BY <2>2 DEF Blank, Same
<1>. QED  BY <1>1, <1>2 DEF Leads

\* The database is asked for outside of all sections, but that of Update.
LEMMA DBLeads ==
    ASSUME NEW t
    PROVE  DB \in Leads(Blank(t, OfDB(t) \ {"DB"}), Blank(t, OfDB(t) \ {"DB"}))
<1>. DEFINE B == Blank(t, OfDB(t) \ {"DB"})
            lock == Do("lock", "DB")
            unlock == Do("unlock", "DB")
            look == Do("ifnull", "DB")
<1>1. /\ "DB" \in Mutexes /\ "DB" \in Created /\ "DB" \in Names
      /\ Guard("DB") = "DB" /\ Nested("DB") \in SUBSET Created
      /\ "DB" \in OfDB(t)
  BY DEF Mutexes, Created, Names, Guard, Nested, Objects, Statics, OfDB
<1>2. "ifnull" \in Words /\ "lock" \in Words /\ "unlock" \in Words
  BY DEF Words
<1>3. lock \in Seq(Instructions) /\ unlock \in Seq(Instructions) /\ look \in Seq(Instructions)
  BY <1>1, <1>2 DEF Do, Instructions, Names
<1>4. ASSUME NEW s \in B
      PROVE  lock \o (look \o (unlock \o s)) \in B
  <2>1. /\ s \in Texts(t) /\ Exits(s) = 0
        /\ \A o \in Created : Count(s, "create", o) = 0
        /\ \A m \in Mutexes : Held(s, m) = IF m \in OfDB(t) \ {"DB"} THEN 1 ELSE 0
    BY DEF Blank
  <2>2. /\ unlock \o s \in Texts(t)
        /\ \A k \in Mutexes : Held(unlock \o s, k) = Held(s, k) + (IF k = "DB" THEN 1 ELSE 0)
        /\ Exits(unlock \o s) = Exits(s)
        /\ \A o \in Created : Count(unlock \o s, "create", o) = Count(s, "create", o)
    BY <1>1, <2>1, UnlockIs
  <2>. HIDE DEF lock, unlock
  <2>3. \A m \in Mutexes : Held(unlock \o s, m) = IF m \in OfDB(t) THEN 1 ELSE 0
    BY <1>1, <2>1, <2>2
  <2>4. HeadOK([what |-> "ifnull", on |-> "DB"], unlock \o s, t)
    <3>1. Held(unlock \o s, "DB") = 1
      BY <1>1, <2>3
    <3>. QED  BY <1>1, <2>1, <2>2, <2>3, <3>1 DEF HeadOK
  <2>5. look \o (unlock \o s) \in Texts(t) /\ Same(look \o (unlock \o s), unlock \o s)
    BY <1>1, <1>2, <2>2, <2>4, SilentIs
  <2>. HIDE DEF look
  <2>6. /\ \A k \in Mutexes : Held(look \o (unlock \o s), k)
                                 = Held(s, k) + (IF k = "DB" THEN 1 ELSE 0)
        /\ Exits(look \o (unlock \o s)) = Exits(s)
        /\ \A o \in Created :
              Count(look \o (unlock \o s), "create", o) = Count(s, "create", o)
    BY <2>2, <2>5 DEF Same
  <2>7. lock \o (look \o (unlock \o s)) \in Texts(t) /\ Same(lock \o (look \o (unlock \o s)), s)
    BY <1>1, <2>1, <2>5, <2>6, LockIs DEF lock
  <2>. QED  BY <2>1, <2>7 DEF Same, Blank
<1>5. B \in SUBSET Seq(Instructions)
  BY BlankIs
<1>. HIDE DEF B
<1>6. (lock \o look) \o unlock \in Leads(B, B)
  <2>. HIDE DEF lock, look, unlock
  <2>1. (lock \o look) \o unlock \in Seq(Instructions)
        /\ \A s \in Seq(Instructions) : Pieces(lock, look, unlock, s)
    BY <1>3, SectionIs
  <2>2. ASSUME NEW s \in B PROVE ((lock \o look) \o unlock) \o s \in B
    <3>1. Pieces(lock, look, unlock, s)
      BY <1>5, <2>1
    <3>. QED  BY <1>4, <3>1 DEF Pieces
  <2>. QED  BY <2>1, <2>2 DEF Leads
<1>7. DB = (lock \o look) \o unlock
  BY DEF DB, Instance, Section
<1>. QED  BY <1>6, <1>7 DEF B

\* The section of Update, with the path that it looks for.
LEMMA WorkerLeads ==
    ASSUME NEW t
    PROVE  /\ Do("unlock", "WorkerMutex") \in Leads(Blank(t, {}), Blank(t, {"WorkerMutex"}))
           /\ Do("lock", "WorkerMutex") \in Leads(Blank(t, {"WorkerMutex"}), Blank(t, {}))
           /\ Static("TEMP_FILE") \in Leads(Blank(t, {"WorkerMutex"}), Blank(t, {"WorkerMutex"}))
<1>1. /\ "WorkerMutex" \in Mutexes /\ "WorkerMutex" \in Names
      /\ "TEMP_FILE" \in Created /\ "TEMP_FILE" \in Names /\ "TEMP_FILE" # "DB"
      /\ Guard("TEMP_FILE") = "WorkerMutex" /\ Nested("TEMP_FILE") \in SUBSET Created
  BY DEF Mutexes, Created, Names, Guard, Nested, Objects, Statics
<1>2. "ifnull" \in Words /\ "lock" \in Words /\ "unlock" \in Words
  BY DEF Words
<1>3. /\ Do("lock", "WorkerMutex") \in Seq(Instructions)
      /\ Do("unlock", "WorkerMutex") \in Seq(Instructions)
      /\ Do("ifnull", "TEMP_FILE") \in Seq(Instructions)
  BY <1>1, <1>2 DEF Do, Instructions, Names
<1>4. ASSUME NEW s \in Blank(t, {})
      PROVE  Do("unlock", "WorkerMutex") \o s \in Blank(t, {"WorkerMutex"})
  <2>. DEFINE all == Do("unlock", "WorkerMutex") \o s
  <2>1. /\ s \in Texts(t) /\ Exits(s) = 0
        /\ \A o \in Created : Count(s, "create", o) = 0
        /\ \A m \in Mutexes : Held(s, m) = 0
    BY DEF Blank
  <2>2. /\ all \in Texts(t)
        /\ \A k \in Mutexes : Held(all, k) = Held(s, k) + (IF k = "WorkerMutex" THEN 1 ELSE 0)
        /\ Exits(all) = Exits(s)
        /\ \A o \in Created : Count(all, "create", o) = Count(s, "create", o)
    BY <1>1, <2>1, UnlockIs
  <2>. HIDE DEF all
  <2>3. \A m \in Mutexes : Held(all, m) = IF m \in {"WorkerMutex"} THEN 1 ELSE 0
    BY <2>1, <2>2
  <2>4. all \in Blank(t, {"WorkerMutex"})
    BY <2>1, <2>2, <2>3 DEF Blank
  <2>. QED  BY <2>4 DEF all
<1>5. ASSUME NEW s \in Blank(t, {"WorkerMutex"})
      PROVE  Do("lock", "WorkerMutex") \o s \in Blank(t, {})
  <2>1. << >> \in Blank(t, {}) /\ << >> \in Texts(t)
    BY BlankIs, TextEmpty
  <2>2. /\ s \in Texts(t) /\ Exits(s) = 0
        /\ \A o \in Created : Count(s, "create", o) = 0
        /\ \A m \in Mutexes : Held(s, m) = IF m = "WorkerMutex" THEN 1 ELSE 0
    BY DEF Blank
  <2>3. /\ Exits(<< >>) = 0
        /\ \A o \in Created : Count(<< >>, "create", o) = 0
        /\ \A m \in Mutexes : Held(<< >>, m) = 0
    BY <2>1 DEF Blank
  <2>4. \A m \in Mutexes : Held(s, m) = Held(<< >>, m) + (IF m = "WorkerMutex" THEN 1 ELSE 0)
    BY <2>2, <2>3
  <2>5. /\ Do("lock", "WorkerMutex") \o s \in Texts(t)
        /\ Same(Do("lock", "WorkerMutex") \o s, << >>)
    BY <1>1, <2>1, <2>2, <2>3, <2>4, LockIs
  <2>. QED  BY <2>3, <2>5 DEF Same, Blank
<1>6. ASSUME NEW s \in Blank(t, {"WorkerMutex"})
      PROVE  Do("ifnull", "TEMP_FILE") \o s \in Blank(t, {"WorkerMutex"})
  <2>1. /\ s \in Texts(t) /\ Held(s, "WorkerMutex") = 1
        /\ \A o \in Created : Count(s, "create", o) = 0
    BY <1>1 DEF Blank
  <2>2. HeadOK([what |-> "ifnull", on |-> "TEMP_FILE"], s, t)
    BY <1>1, <2>1 DEF HeadOK
  <2>3. /\ Do("ifnull", "TEMP_FILE") \o s \in Texts(t)
        /\ Same(Do("ifnull", "TEMP_FILE") \o s, s)
    BY <1>1, <1>2, <2>1, <2>2, SilentIs
  <2>. QED  BY <2>3 DEF Same, Blank
<1>. QED  BY <1>3, <1>4, <1>5, <1>6 DEF Leads, Static

\* The HTTP server is started outside of all sections.
LEMMA StartLeads ==
    ASSUME NEW t
    PROVE  Do("start", None) \in Leads(Blank(t, {}), Blank(t, {}))
<1>1. "start" \in Words /\ None \in Names
  BY NamesAre DEF Words
<1>2. Do("start", None) \in Seq(Instructions)
  BY <1>1 DEF Do, Instructions, Names
<1>3. ASSUME NEW s \in Blank(t, {})
      PROVE  Do("start", None) \o s \in Blank(t, {})
  <2>1. s \in Texts(t) /\ Exits(s) = 0 /\ \A m \in Mutexes : Held(s, m) = 0
    BY DEF Blank
  <2>2. HeadOK([what |-> "start", on |-> None], s, t)
    BY <2>1 DEF HeadOK
  <2>3. Do("start", None) \o s \in Texts(t) /\ Same(Do("start", None) \o s, s)
    BY <1>1, <2>1, <2>2, SilentIs
  <2>. QED  BY <2>3 DEF Same, Blank
<1>. QED  BY <1>2, <1>3 DEF Leads

\* The thread of the worker is created under its mutex.
LEMMA SpawnLeads ==
    ASSUME NEW t
    PROVE  Do("spawn", Cron) \in Leads(Blank(t, {"WorkerMutex"}), Blank(t, {"WorkerMutex"}))
<1>1. "spawn" \in Words /\ Cron \in Names
  BY NamesAre DEF Words
<1>2. Do("spawn", Cron) \in Seq(Instructions)
  BY <1>1 DEF Do, Instructions, Names
<1>3. ASSUME NEW s \in Blank(t, {"WorkerMutex"})
      PROVE  Do("spawn", Cron) \o s \in Blank(t, {"WorkerMutex"})
  <2>1. /\ s \in Texts(t) /\ Exits(s) = 0
        /\ \A o \in Created : Count(s, "create", o) = 0
        /\ \A m \in Mutexes : Held(s, m) = IF m = "WorkerMutex" THEN 1 ELSE 0
    BY DEF Blank
  <2>2. HeadOK([what |-> "spawn", on |-> Cron], s, t)
    BY <2>1 DEF HeadOK
  <2>3. Do("spawn", Cron) \o s \in Texts(t) /\ Same(Do("spawn", Cron) \o s, s)
    BY <1>1, <2>1, <2>2, SilentIs
  <2>. QED  BY <2>3 DEF Same, Blank
<1>. QED  BY <1>2, <1>3 DEF Leads

\* Start leaves everything as it found it outside of all sections.
LEMMA WorkerStartLeads ==
    ASSUME NEW t
    PROVE  Start \in Leads(Blank(t, {}), Blank(t, {}))
<1>. DEFINE E == Blank(t, {})
            W == Blank(t, {"WorkerMutex"})
            lock == Do("lock", "WorkerMutex")
            unlock == Do("unlock", "WorkerMutex")
            spawn == Do("spawn", Cron)
<1>1. E \in SUBSET Seq(Instructions) /\ W \in SUBSET Seq(Instructions)
  BY BlankIs
<1>2. lock \in Leads(W, E) /\ unlock \in Leads(E, W) /\ spawn \in Leads(W, W)
  BY WorkerLeads, SpawnLeads
<1>3. LogEntry \in Leads(W, W)
  <2>1. {} \in SUBSET Created
    OBVIOUS
  <2>. QED  BY <2>1, PlainLogEntry, PlainLeads
<1>4. Start = (lock \o (LogEntry \o spawn)) \o unlock
  BY DEF Start, Section
<1>. HIDE DEF E, W, lock, unlock, spawn
<1>5. LogEntry \o spawn \in Leads(W, W)
  BY <1>1, <1>2, <1>3, LeadsConcat
<1>6. lock \o (LogEntry \o spawn) \in Leads(W, E)
  BY <1>1, <1>2, <1>5, LeadsConcat
<1>7. (lock \o (LogEntry \o spawn)) \o unlock \in Leads(E, E)
  BY <1>1, <1>2, <1>6, LeadsConcat
<1>. QED  BY <1>4, <1>7 DEF E

\* A program that leads somewhere from the end is there.
LEMMA LeadsFromEnd ==
    ASSUME NEW t, NEW B, NEW p \in Leads(Blank(t, {}), B)
    PROVE  p \in B
<1>1. << >> \in Blank(t, {})
  BY BlankIs
<1>2. p \in Seq(Instructions) /\ p \o << >> \in B
  BY <1>1 DEF Leads
<1>3. p \o << >> = p
  BY <1>2, ConcatEmptySeq
<1>. QED  BY <1>2, <1>3

\* The pieces that leave everything as they found it.
LEMMA PiecesLead ==
    ASSUME NEW t, NEW held
    PROVE  /\ \A p \in {LogStorage, LogEntry, Exit, Terminate, Storage, DBTables,
                        StockUpdateWorker, TokenClient, TokenServer} :
                 p \in Leads(Blank(t, held), Blank(t, held))
           /\ \A what \in {"initialize", "download", "serve", "stop"} :
                 Do(what, None) \in Leads(Blank(t, held), Blank(t, held))
<1>. DEFINE B == Blank(t, held)
<1>1. /\ {} \in SUBSET Created
      /\ \A o \in Objects : {o} \in SUBSET Created
      /\ \A o \in {"Storage", "DBTables", "StockUpdateWorker", "TokenClient", "TokenServer"} :
            o \in Objects \ {"DB"}
      /\ None \in Names
  BY NamesAre DEF Objects
<1>2. /\ LogStorage \in Plain(t, {}) /\ LogEntry \in Plain(t, {})
      /\ Exit \in Plain(t, {}) /\ Terminate \in Plain(t, {})
  BY PlainLogStorage, PlainLogEntry, PlainExit, PlainTerminate
<1>3. \A o \in Objects \ {"DB"} : Instance(o) \in Leads(B, B)
  <2>1. \A o \in Objects \ {"DB"} : Instance(o) \in Plain(t, {o})
    BY PlainInstance
  <2>. QED  BY <1>1, <2>1, PlainLeads
<1>4. LogEntry \in Leads(B, B) /\ Exit \in Leads(B, B) /\ Terminate \in Leads(B, B)
      /\ LogStorage \in Leads(B, B)
  BY <1>1, <1>2, PlainLeads
<1>5. \A what \in {"initialize", "download", "serve", "stop"} : Do(what, None) \in Leads(B, B)
  <2>1. \A what \in {"initialize", "download", "serve", "stop"} : Do(what, None) \in Plain(t, {})
    BY <1>1, PlainDo
  <2>. QED  BY <1>1, <2>1, PlainLeads
<1>. HIDE DEF B
<1>6. Storage \in Leads(B, B) /\ DBTables \in Leads(B, B) /\ StockUpdateWorker \in Leads(B, B)
      /\ TokenClient \in Leads(B, B) /\ TokenServer \in Leads(B, B)
  BY <1>1, <1>3 DEF Storage, DBTables, StockUpdateWorker, TokenClient, TokenServer
<1>. QED  BY <1>4, <1>5, <1>6 DEF B

\* main.
LEMMA MainIs ==
    ASSUME NEW gotLock \in BOOLEAN
    PROVE  MainProgram(gotLock) \in Blank(Main, {})
<1>. DEFINE B == Blank(Main, {})
<1>1. B \in SUBSET Seq(Instructions)
  BY BlankIs
<1>2. DB \in Leads(B, B)
  <2>1. OfDB(Main) \ {"DB"} = {}
    BY ThreadAssumption DEF OfDB
  <2>. QED  BY <2>1, DBLeads
<1>. DEFINE init == LogInitialize
            start == Do("start", None)
            serve == Do("serve", None)
            stop == Do("stop", None)
<1>3. serve \in Leads(B, B) /\ stop \in Leads(B, B) /\ start \in Leads(B, B)
      /\ Start \in Leads(B, B)
  BY PiecesLead, StartLeads, WorkerStartLeads
<1>4. /\ LogEntry \in Leads(B, B) /\ Exit \in Leads(B, B)
      /\ LogStorage \in Leads(B, B) /\ Do("initialize", None) \in Leads(B, B)
      /\ Storage \in Leads(B, B) /\ DBTables \in Leads(B, B) /\ StockUpdateWorker \in Leads(B, B)
  BY PiecesLead
<1>. DEFINE body == IF gotLock THEN InitTables \o StockUpdateWorker \o Start ELSE << >>
<1>5. body \in Leads(B, B)
  <2>1. << >> \in Leads(B, B)
    <3>1. << >> \in Plain(Main, {}) /\ {} \in SUBSET Created
      BY PlainEmpty
    <3>. QED  BY <3>1, PlainLeads
  <2>. HIDE DEF B
  <2>2. InitTables \in Leads(B, B)
    BY <1>1, <1>2, <1>4, LeadsConcat DEF InitTables
  <2>3. InitTables \o StockUpdateWorker \in Leads(B, B)
    BY <1>1, <1>4, <2>2, LeadsConcat
  <2>4. (InitTables \o StockUpdateWorker) \o Start \in Leads(B, B)
    BY <1>1, <1>3, <2>3, LeadsConcat
  <2>. QED  BY <2>1, <2>4
<1>6. MainProgram(gotLock) =
          (((((((Storage \o init) \o LogEntry) \o LogEntry) \o body) \o LogEntry) \o start)
              \o serve) \o stop \o Exit
  BY DEF MainProgram
<1>. HIDE DEF B, init, start, serve, stop, body
<1>7. (Storage \o init) \o LogEntry \in Leads(B, B)
  <2>1. init \in Leads(B, B)
    BY <1>1, <1>4, LeadsConcat DEF init, LogInitialize
  <2>2. Storage \o init \in Leads(B, B)
    BY <1>1, <1>4, <2>1, LeadsConcat
  <2>. QED  BY <1>1, <1>4, <2>2, LeadsConcat
<1>8. ((Storage \o init) \o LogEntry) \o LogEntry \in Leads(B, B)
  BY <1>1, <1>4, <1>7, LeadsConcat
<1>9. (((Storage \o init) \o LogEntry) \o LogEntry) \o body \in Leads(B, B)
  BY <1>1, <1>5, <1>8, LeadsConcat
<1>10. ((((Storage \o init) \o LogEntry) \o LogEntry) \o body) \o LogEntry \in Leads(B, B)
  BY <1>1, <1>4, <1>9, LeadsConcat
<1>11. (((((Storage \o init) \o LogEntry) \o LogEntry) \o body) \o LogEntry) \o start
           \in Leads(B, B)
  BY <1>1, <1>3, <1>10, LeadsConcat
<1>12. ((((((Storage \o init) \o LogEntry) \o LogEntry) \o body) \o LogEntry) \o start)
           \o serve \in Leads(B, B)
  BY <1>1, <1>3, <1>11, LeadsConcat
<1>13. (((((((Storage \o init) \o LogEntry) \o LogEntry) \o body) \o LogEntry) \o start)
           \o serve) \o stop \in Leads(B, B)
  BY <1>1, <1>3, <1>12, LeadsConcat
<1>14. MainProgram(gotLock) \in Leads(B, B)
  BY <1>1, <1>4, <1>6, <1>13, LeadsConcat
<1>. QED  BY <1>14, LeadsFromEnd DEF B

\* A round of the worker, and the two requests.
LEMMA RoundIs == CronRound \in Blank(Cron, {})
<1>. DEFINE E == Blank(Cron, {})
            W == Blank(Cron, {"WorkerMutex"})
            lock == Do("lock", "WorkerMutex")
            unlock == Do("unlock", "WorkerMutex")
<1>1. E \in SUBSET Seq(Instructions) /\ W \in SUBSET Seq(Instructions)
  BY BlankIs
<1>2. lock \in Leads(W, E) /\ unlock \in Leads(E, W) /\ Static("TEMP_FILE") \in Leads(W, W)
  BY WorkerLeads
<1>3. DB \in Leads(W, W)
  <2>1. OfDB(Cron) \ {"DB"} = {"WorkerMutex"}
    BY DEF OfDB
  <2>. QED  BY <2>1, DBLeads
<1>. DEFINE download == Do("download", None)
<1>4. DBTables \in Leads(W, W) /\ LogEntry \in Leads(W, W) /\ download \in Leads(W, W)
  BY PiecesLead
<1>5. Update = (((Static("TEMP_FILE") \o download) \o DB) \o DBTables) \o LogEntry
  BY DEF Update
<1>. HIDE DEF E, W, lock, unlock, download
<1>6. Update \in Leads(W, W)
  <2>1. Static("TEMP_FILE") \o download \in Leads(W, W)
    BY <1>1, <1>2, <1>4, LeadsConcat
  <2>2. (Static("TEMP_FILE") \o download) \o DB \in Leads(W, W)
    BY <1>1, <1>3, <2>1, LeadsConcat
  <2>3. ((Static("TEMP_FILE") \o download) \o DB) \o DBTables \in Leads(W, W)
    BY <1>1, <1>4, <2>2, LeadsConcat
  <2>4. (((Static("TEMP_FILE") \o download) \o DB) \o DBTables) \o LogEntry \in Leads(W, W)
    BY <1>1, <1>4, <2>3, LeadsConcat
  <2>. QED  BY <1>5, <2>4
<1>7. lock \o Update \in Leads(W, E)
  BY <1>1, <1>2, <1>6, LeadsConcat
<1>8. (lock \o Update) \o unlock \in Leads(E, E)
  BY <1>1, <1>2, <1>7, LeadsConcat
<1>9. CronRound \in Leads(E, E)
  BY <1>8 DEF CronRound, Section, lock, unlock
<1>. QED  BY <1>9, LeadsFromEnd DEF E

\* The two requests of the public API.
LEMMA RequestsAre ==
    ASSUME NEW t, t # Cron
    PROVE  RequestQuotes \in Blank(t, {}) /\ RequestToken \in Blank(t, {})
<1>. DEFINE B == Blank(t, {})
<1>1. B \in SUBSET Seq(Instructions)
  BY BlankIs
<1>2. DB \in Leads(B, B)
  <2>1. OfDB(t) \ {"DB"} = {}
    BY DEF OfDB
  <2>. QED  BY <2>1, DBLeads
<1>3. TokenClient \in Leads(B, B) /\ DBTables \in Leads(B, B) /\ TokenServer \in Leads(B, B)
  BY PiecesLead
<1>. HIDE DEF B
<1>4. TokenClient \o DB \in Leads(B, B)
  BY <1>1, <1>2, <1>3, LeadsConcat
<1>5. RequestQuotes \in Leads(B, B)
  BY <1>1, <1>3, <1>4, LeadsConcat DEF RequestQuotes
<1>. QED  BY <1>3, <1>5, LeadsFromEnd DEF B, RequestToken

\* main returns, at once or with a message.
LEMMA ReturnsAre ==
    ASSUME NEW t
    PROVE  Exit \in Blank(t, {}) /\ LogEntry \o Exit \in Blank(t, {})
<1>. DEFINE B == Blank(t, {})
<1>1. B \in SUBSET Seq(Instructions)
  BY BlankIs
<1>2. Exit \in Leads(B, B) /\ LogEntry \in Leads(B, B)
  BY PiecesLead
<1>. HIDE DEF B
<1>3. LogEntry \o Exit \in Leads(B, B)
  BY <1>1, <1>2, LeadsConcat
<1>. QED  BY <1>2, <1>3, LeadsFromEnd DEF B

\* What the exception leaves holds the mutexes that were held but for the one
\* of DB.
LEMMA AfterThrowIs ==
    ASSUME NEW t
    PROVE  AfterThrow(t) \in Blank(t, OfDB(t) \ {"DB"})
<1>1. CASE t = Main
  <2>1. AfterThrow(t) = LogEntry \o Exit /\ OfDB(t) \ {"DB"} = {}
    BY <1>1, ThreadAssumption DEF AfterThrow, OfDB
  <2>. QED  BY <2>1, ReturnsAre
<1>2. CASE t # Main /\ t = Cron
  <2>. DEFINE E == Blank(t, {})
              W == Blank(t, {"WorkerMutex"})
  <2>1. AfterThrow(t) = LogEntry \o Do("unlock", "WorkerMutex")
        /\ OfDB(t) \ {"DB"} = {"WorkerMutex"}
    BY <1>2 DEF AfterThrow, OfDB
  <2>2. E \in SUBSET Seq(Instructions) /\ W \in SUBSET Seq(Instructions)
    BY BlankIs
  <2>3. Do("unlock", "WorkerMutex") \in Leads(E, W) /\ LogEntry \in Leads(W, W)
    BY WorkerLeads, PiecesLead
  <2>. HIDE DEF E, W
  <2>4. LogEntry \o Do("unlock", "WorkerMutex") \in Leads(E, W)
    BY <2>2, <2>3, LeadsConcat
  <2>. QED  BY <2>1, <2>4, LeadsFromEnd DEF E, W
<1>3. CASE t # Main /\ t # Cron
  <2>1. AfterThrow(t) = << >> /\ OfDB(t) \ {"DB"} = {}
    BY <1>3 DEF AfterThrow, OfDB
  <2>. QED  BY <2>1, BlankIs
<1>. QED  BY <1>1, <1>2, <1>3

\* What the exception of a thread that cannot be created leaves holds WorkerMutex.
LEMMA UnspawnedIs ==
    ASSUME NEW t
    PROVE  Do("unlock", "WorkerMutex") \o LogEntry \o Exit \in Blank(t, {"WorkerMutex"})
<1>. DEFINE E == Blank(t, {})
            W == Blank(t, {"WorkerMutex"})
            unlock == Do("unlock", "WorkerMutex")
<1>1. E \in SUBSET Seq(Instructions) /\ W \in SUBSET Seq(Instructions)
  BY BlankIs
<1>2. unlock \in Leads(E, W) /\ LogEntry \in Leads(E, E) /\ Exit \in Leads(E, E)
  BY WorkerLeads, PiecesLead
<1>. HIDE DEF E, W, unlock
<1>3. unlock \o LogEntry \in Leads(E, W)
  BY <1>1, <1>2, LeadsConcat
<1>4. (unlock \o LogEntry) \o Exit \in Leads(E, W)
  BY <1>1, <1>2, <1>3, LeadsConcat
<1>. QED  BY <1>4, LeadsFromEnd DEF E, W, unlock

-----------------------------------------------------------------------------
(***************************************************************************)
(* The bodies behind ifnull.                                               *)
(***************************************************************************)
\* The creation of an object in front of what is left.
LEMMA CreateIs ==
    ASSUME NEW t, NEW s \in Texts(t), NEW o \in Created,
           HeadOK([what |-> "create", on |-> o], s, t)
    PROVE  LET all == Do("create", o) \o s
           IN  /\ all \in Texts(t)
               /\ \A m \in Mutexes : Held(all, m) = Held(s, m)
               /\ Exits(all) = Exits(s)
               /\ \A x \in Created : Count(all, "create", x)
                                         = Count(s, "create", x) + (IF x = o THEN 1 ELSE 0)
<1>. DEFINE i == [what |-> "create", on |-> o]
            all == <<i>> \o s
<1>1. "create" \in Words /\ o \in Names
  BY NamesAre DEF Words
<1>2. i \in Instructions /\ i.what = "create" /\ i.on = o
  BY <1>1 DEF Instructions, Names
<1>3. s \in Seq(Instructions) /\ RestOK(s)
  BY TextIs
<1>4. /\ \A m : Held(s, m) \in Int
      /\ Exits(s) \in Int
      /\ \A x : Count(s, "create", x) \in Nat
  BY <1>3, NumbersAre
<1>5. /\ \A m : Held(all, m) = Held(s, m)
      /\ Exits(all) = Exits(s)
      /\ \A x : Count(all, "create", x)
                    = Count(s, "create", x) + (IF x = o THEN 1 ELSE 0)
  <2>1. /\ \A m : Held(all, m) = Held(s, m)
                       + (IF "create" = "unlock" /\ o = m THEN 1 ELSE 0)
                       - (IF "create" = "lock" /\ o = m THEN 1 ELSE 0)
        /\ Exits(all) = Exits(s)
                       + (IF "create" = "free" /\ o = "Storage" THEN 1 ELSE 0)
                       - (IF "create" = "end" /\ o = None THEN 2 ELSE 0)
        /\ \A x : Count(all, "create", x) = Count(s, "create", x)
                       + (IF "create" = "create" /\ o = x THEN 1 ELSE 0)
    BY <1>1, <1>3, EffectIs
  <2>. HIDE DEF all
  <2>. QED  BY <1>4, <2>1
<1>6. HeadOK(i, s, t)
  OBVIOUS
<1>. HIDE DEF i
<1>7. Held(s, Guard(o)) >= 1
  BY <1>2, <1>6 DEF HeadOK
<1>8. RestOK(all)
  <2>. HIDE DEF all
  <2>1. \A x \in Created : Count(all, "create", x) > 0 => Held(all, Guard(x)) >= 1
    BY <1>3, <1>4, <1>5, <1>7 DEF RestOK
  <2>. QED  BY <1>3, <1>5, <2>1 DEF RestOK
<1>9. all \in Texts(t)
  BY <1>2, <1>6, <1>8, TextCons
<1>. HIDE DEF all
<1>. QED  BY <1>5, <1>9 DEF Do, all, i

\* What the creation of an object adds to a program: the object.
Adds(s, r, object) ==
    /\ \A m \in Mutexes : Held(s, m) = Held(r, m)
    /\ Exits(s) = Exits(r)
    /\ \A o \in Created : Count(s, "create", o)
                              = Count(r, "create", o) + (IF o = object THEN 1 ELSE 0)

\* Where an object may be looked for it may be created, the paths that it needs
\* and their Storage looked for before.
LEMMA CreationIs ==
    ASSUME NEW t, NEW s \in Texts(t), NEW o \in Created,
           HeadOK([what |-> "ifnull", on |-> o], s, t)
    PROVE  Creation(o) \o s \in Texts(t) /\ Adds(Creation(o) \o s, s, o)
<1>. DEFINE made == Do("create", o) \o s
<1>1. /\ Held(s, Guard(o)) >= 1
      /\ \A x \in Nested(o) : Count(s, "create", x) = 0
      /\ o = "DB" => /\ Exits(s) = 0
                     /\ \A m \in Mutexes : Held(s, m) = IF m \in OfDB(t) THEN 1 ELSE 0
  BY DEF HeadOK
<1>2. HeadOK([what |-> "create", on |-> o], s, t)
  BY <1>1 DEF HeadOK
<1>3. made \in Texts(t) /\ Adds(made, s, o)
  BY <1>2, CreateIs DEF Adds
<1>4. Do("create", o) \in Seq(Instructions) /\ s \in Seq(Instructions)
  <2>1. "create" \in Words /\ o \in Names
    BY NamesAre DEF Words
  <2>2. [what |-> "create", on |-> o] \in Instructions
    BY <2>1 DEF Instructions, Names
  <2>3. Do("create", o) \in Seq(Instructions)
    BY <2>2 DEF Do
  <2>. QED  BY <2>3, TextIs
<1>5. CASE o = "DB"
  <2>. DEFINE look == Do("ifnull", "DB_FILE")
  <2>1. /\ "DB_FILE" \in Created /\ "DB_FILE" \in Names /\ Guard("DB_FILE") = "DB"
        /\ "DB_FILE" # "DB" /\ Nested("DB_FILE") = {"DB_FILE", "Storage"}
        /\ Nested("DB") = {"DB", "DB_FILE", "Storage"} /\ Guard("DB") = "DB"
        /\ "DB_FILE" # "Storage" /\ "Storage" # "DB" /\ "Storage" \in Created
        /\ "DB" \in Mutexes
    BY DEF Created, Names, Guard, Nested, Objects, Statics, Mutexes
  <2>2. "ifnull" \in Words
    BY DEF Words
  <2>3. look \in Seq(Instructions)
    BY <2>1, <2>2 DEF Do, Instructions, Names
  <2>4. HeadOK([what |-> "ifnull", on |-> "DB_FILE"], made, t)
    <3>1. Held(s, "DB") >= 1 /\ Count(s, "create", "DB_FILE") = 0
          /\ Count(s, "create", "Storage") = 0
      BY <1>1, <1>5, <2>1
    <3>2. Held(made, "DB") >= 1 /\ Count(made, "create", "DB_FILE") = 0
          /\ Count(made, "create", "Storage") = 0
      <4>. HIDE DEF made
      <4>. QED  BY <1>3, <1>5, <2>1, <3>1 DEF Adds
    <3>. HIDE DEF made
    <3>. QED  BY <2>1, <3>2 DEF HeadOK
  <2>5. look \o made \in Texts(t) /\ Same(look \o made, made)
    BY <1>3, <2>1, <2>2, <2>4, SilentIs
  <2>. HIDE DEF look
  <2>6. Adds(look \o made, s, o)
    <3>. HIDE DEF made
    <3>. QED  BY <1>3, <2>5 DEF Same, Adds
  <2>7. Creation(o) = look \o Do("create", o)
    <3>1. (CASE o = "DB" -> Static("DB_FILE")
             [] o \in Statics -> Storage
             [] OTHER -> << >>) = look
      BY <1>5 DEF Static, look, Statics
    <3>. QED  BY <3>1 DEF Creation
  <2>8. Creation(o) \o s = look \o made
    <3>. DEFINE make == Do("create", o)
    <3>1. make \in Seq(Instructions)
      BY <1>4
    <3>2. Creation(o) = look \o make /\ made = make \o s
      BY <2>7
    <3>. HIDE DEF make, made
    <3>3. s \in Seq(Instructions)
      BY <1>4
    <3>4. \A p, q, r \in Seq(Instructions) : (p \o q) \o r = p \o (q \o r)
      BY ConcatAssociative
    <3>5. (look \o make) \o s = look \o (make \o s)
      BY <2>3, <3>1, <3>3, <3>4
    <3>. QED  BY <3>2, <3>5
  <2>. QED  BY <2>5, <2>6, <2>8
<1>6. CASE o \in Statics
  <2>1. /\ o # "DB" /\ o # "Storage" /\ Nested(o) = {o, "Storage"}
        /\ "Storage" \in Created /\ "Storage" \in Objects \ {"DB"}
    BY <1>6 DEF Nested, Statics, Objects, Created
  <2>2. Storage \in Plain(t, {"Storage"})
    BY <2>1, PlainInstance DEF Storage
  <2>3. Count(made, "create", "Storage") = 0
    <3>1. Count(s, "create", "Storage") = 0
      BY <1>1, <2>1
    <3>. HIDE DEF made
    <3>. QED  BY <1>3, <2>1, <3>1 DEF Adds
  <2>. HIDE DEF made
  <2>4. Storage \o made \in Texts(t) /\ Same(Storage \o made, made)
    BY <1>3, <2>2, <2>3 DEF Plain
  <2>5. Adds(Storage \o made, s, o)
    BY <1>3, <2>4 DEF Same, Adds
  <2>6. Creation(o) = Storage \o Do("create", o)
    BY <1>6, <2>1 DEF Creation
  <2>7. Storage \in Seq(Instructions)
    BY <2>2 DEF Plain
  <2>8. Creation(o) \o s = Storage \o made
    BY <1>4, <2>6, <2>7, ConcatAssociative DEF made
  <2>. QED  BY <2>4, <2>5, <2>8
<1>7. CASE o # "DB" /\ o \notin Statics
  <2>1. Creation(o) = << >> \o Do("create", o)
    BY <1>7 DEF Creation
  <2>2. Creation(o) = Do("create", o)
    BY <1>4, <2>1, ConcatEmptySeq
  <2>. QED  BY <1>3, <2>2
<1>. QED  BY <1>5, <1>6, <1>7

-----------------------------------------------------------------------------
(***************************************************************************)
(* The inductive invariant.                                                *)
(***************************************************************************)
\* The types, as TypeOK has them.
Types ==
    /\ todo \in [Threads -> Seq(Instructions)]
    /\ holder \in [Mutexes -> Threads \cup {None}]
    /\ alive \subseteq Created \cup {"cron"}
    /\ created \in [Created -> 0..2]
    /\ initialized \in BOOLEAN
    /\ signal \in {"none", "pending", "taken"}
    /\ ended \in {"no", "exit", "abort"}

\* Every thread has a text left.
Written == \A t \in Threads : todo[t] \in Texts(t)

\* A thread holds what its text gives back and no more.
Holding == \A t \in Threads, m \in Mutexes :
               Held(todo[t], m) = IF holder[m] = t THEN 1 ELSE 0

\* What was created is alive, and nobody is about to create it again.
Once ==
    ~Leaving => \A o \in Created :
        /\ created[o] = IF o \in alive THEN 1 ELSE 0
        /\ \A t \in Threads : Count(todo[t], "create", o) > 0 => o \notin alive

Inv == Types /\ Written /\ Holding /\ Once

\* The two forms of leaving.
LEMMA LeavingIs ==
    /\ Types => (Leaving <=> ended # "no" \/ \E t \in Threads : Exits(todo[t]) < 0)
    /\ Types' => (Leaving' <=> ended' # "no" \/ \E t \in Threads : Exits(todo'[t]) < 0)
<1>1. ASSUME NEW s \in Seq(Instructions)
      PROVE  2 * Count(s, "end", None) > Count(s, "free", "Storage") <=> Exits(s) < 0
  <2>1. Count(s, "end", None) \in Nat /\ Count(s, "free", "Storage") \in Nat
    BY CountType
  <2>. QED  BY <2>1 DEF Exits
<1>2. Types => \A t \in Threads : todo[t] \in Seq(Instructions)
  BY DEF Types
<1>3. Types' => \A t \in Threads : todo'[t] \in Seq(Instructions)
  BY DEF Types
<1>. QED  BY <1>1, <1>2, <1>3 DEF Leaving

\* The program of one thread becomes s.
LEMMA MoveIs ==
    ASSUME Types, Written, NEW t \in Threads, NEW s \in Texts(t),
           todo' = [todo EXCEPT ![t] = s]
    PROVE  /\ todo' \in [Threads -> Seq(Instructions)] /\ Written'
           /\ todo'[t] = s /\ \A u \in Threads : u # t => todo'[u] = todo[u]
<1>1. s \in Seq(Instructions)
  BY TextIs
<1>2. todo' \in [Threads -> Seq(Instructions)]
  BY <1>1 DEF Types
<1>3. todo'[t] = s /\ \A u \in Threads : u # t => todo'[u] = todo[u]
  BY DEF Types
<1>4. \A u \in Threads : todo'[u] \in Texts(u)
  BY <1>3 DEF Written
<1>. QED  BY <1>2, <1>3, <1>4 DEF Written

\* It becomes one with the same numbers.
LEMMA StepSame ==
    ASSUME Inv, NEW t \in Threads, NEW s \in Texts(t), Same(s, todo[t]),
           todo' = [todo EXCEPT ![t] = s],
           holder' = holder, created' = created, alive' \in {alive, alive \cup {"cron"}},
           initialized' \in BOOLEAN, signal' \in {"none", "pending", "taken"},
           ended = "no" \/ ended' = ended, ended' \in {"no", "exit", "abort"}
    PROVE  Inv'
<1>. USE DEF Inv
<1>1. /\ todo' \in [Threads -> Seq(Instructions)] /\ Written'
      /\ todo'[t] = s /\ \A u \in Threads : u # t => todo'[u] = todo[u]
  BY MoveIs
<1>2. Types'
  BY <1>1 DEF Types
<1>3. \A u \in Threads : Same(todo'[u], todo[u])
  <2>1. \A u \in Threads : u # t => Same(todo'[u], todo[u])
    BY <1>1 DEF Same
  <2>. QED  BY <1>1, <2>1
<1>4. Holding'
  BY <1>3 DEF Same, Holding
<1>5. ~Leaving' => ~Leaving
  BY <1>2, <1>3, LeavingIs DEF Same
<1>6. "cron" \notin Created
  BY DEF Created, Objects, Statics
<1>7. Once'
  <2>. SUFFICES ASSUME ~Leaving', NEW o \in Created
                PROVE  /\ created'[o] = IF o \in alive' THEN 1 ELSE 0
                       /\ \A u \in Threads : Count(todo'[u], "create", o) > 0 => o \notin alive'
    BY DEF Once
  <2>1. o \in alive' <=> o \in alive
    BY <1>6
  <2>2. \A u \in Threads : Count(todo'[u], "create", o) = Count(todo[u], "create", o)
    BY <1>3 DEF Same
  <2>3. /\ created[o] = IF o \in alive THEN 1 ELSE 0
        /\ \A u \in Threads : Count(todo[u], "create", o) > 0 => o \notin alive
    BY <1>5 DEF Once
  <2>. QED  BY <2>1, <2>2, <2>3
<1>. QED  BY <1>1, <1>2, <1>4, <1>7

\* What is known of a thread that is at an instruction.
LEMMA AtIs ==
    ASSUME Inv, NEW t \in Threads, NEW what \in Words, At(t, what)
    PROVE  LET on == Instruction(t).on
               rest == Tail(todo[t])
           IN  /\ ended = "no"
               /\ on \in Names /\ HeadOK([what |-> what, on |-> on], rest, t)
               /\ rest \in Texts(t) /\ todo[t] \in Seq(Instructions) /\ rest \in Seq(Instructions)
               /\ RestOK(todo[t]) /\ RestOK(rest)
               /\ \A m : Held(todo[t], m) = Held(rest, m)
                             + (IF what = "unlock" /\ on = m THEN 1 ELSE 0)
                             - (IF what = "lock" /\ on = m THEN 1 ELSE 0)
               /\ Exits(todo[t]) = Exits(rest)
                             + (IF what = "free" /\ on = "Storage" THEN 1 ELSE 0)
                             - (IF what = "end" /\ on = None THEN 2 ELSE 0)
               /\ \A o : Count(todo[t], "create", o) = Count(rest, "create", o)
                             + (IF what = "create" /\ on = o THEN 1 ELSE 0)
<1>. DEFINE i == Head(todo[t])
            on == Instruction(t).on
            rest == Tail(todo[t])
<1>1. ended = "no" /\ todo[t] # << >> /\ i.what = what /\ on = i.on
  BY DEF At, Instruction
<1>2. todo[t] \in Texts(t)
  BY DEF Inv, Written
<1>3. /\ todo[t] \in Seq(Instructions) /\ RestOK(todo[t])
      /\ i \in Instructions /\ rest \in Texts(t)
      /\ todo[t] = <<i>> \o rest /\ HeadOK(i, rest, t)
  BY <1>1, <1>2, TextIs
<1>4. rest \in Seq(Instructions) /\ RestOK(rest)
  BY <1>3, TextIs
<1>. HIDE DEF i, on, rest
<1>5. i = [what |-> what, on |-> on] /\ on \in Names
  BY <1>1, <1>3 DEF Instructions, Names
<1>6. LET all == <<[what |-> what, on |-> on]>> \o rest
      IN  /\ \A m : Held(all, m) = Held(rest, m)
                        + (IF what = "unlock" /\ on = m THEN 1 ELSE 0)
                        - (IF what = "lock" /\ on = m THEN 1 ELSE 0)
          /\ Exits(all) = Exits(rest)
                        + (IF what = "free" /\ on = "Storage" THEN 1 ELSE 0)
                        - (IF what = "end" /\ on = None THEN 2 ELSE 0)
          /\ \A o : Count(all, "create", o) = Count(rest, "create", o)
                        + (IF what = "create" /\ on = o THEN 1 ELSE 0)
  BY <1>4, <1>5, EffectIs
<1>7. todo[t] = <<[what |-> what, on |-> on]>> \o rest
  BY <1>3, <1>5
<1>8. HeadOK([what |-> what, on |-> on], rest, t)
  BY <1>3, <1>5
<1>. QED  BY <1>1, <1>3, <1>4, <1>5, <1>6, <1>7, <1>8 DEF on, rest

\* An instruction without effect on the numbers is done.
LEMMA DoneIs ==
    ASSUME Inv, NEW t \in Threads,
           NEW what \in Words \ {"lock", "unlock", "create", "free", "end"}, At(t, what)
    PROVE  Tail(todo[t]) \in Texts(t) /\ Same(Tail(todo[t]), todo[t])
<1>. DEFINE on == Instruction(t).on
            rest == Tail(todo[t])
<1>1. what \in Words
  OBVIOUS
<1>2. /\ rest \in Texts(t) /\ rest \in Seq(Instructions)
      /\ \A m : Held(todo[t], m) = Held(rest, m)
                    + (IF what = "unlock" /\ on = m THEN 1 ELSE 0)
                    - (IF what = "lock" /\ on = m THEN 1 ELSE 0)
      /\ Exits(todo[t]) = Exits(rest)
                    + (IF what = "free" /\ on = "Storage" THEN 1 ELSE 0)
                    - (IF what = "end" /\ on = None THEN 2 ELSE 0)
      /\ \A o : Count(todo[t], "create", o) = Count(rest, "create", o)
                    + (IF what = "create" /\ on = o THEN 1 ELSE 0)
  BY <1>1, AtIs
<1>3. /\ \A m : Held(rest, m) \in Int
      /\ Exits(rest) \in Int
      /\ \A o : Count(rest, "create", o) \in Nat
  BY <1>2, NumbersAre
<1>. HIDE DEF on, rest
<1>4. Same(rest, todo[t])
  BY <1>2, <1>3 DEF Same
<1>. QED  BY <1>2, <1>4 DEF rest

-----------------------------------------------------------------------------
(***************************************************************************)
(* The steps.                                                              *)
(***************************************************************************)
\* A mutex that nobody holds.
LEMMA LockKeeps ==
    ASSUME Inv, NEW t \in Threads, Lock(t)
    PROVE  Inv'
<1>. DEFINE m == Instruction(t).on
            rest == Tail(todo[t])
<1>1. /\ At(t, "lock") /\ holder[m] = None /\ holder' = [holder EXCEPT ![m] = t]
      /\ todo' = [todo EXCEPT ![t] = rest]
      /\ UNCHANGED <<alive, created, initialized, signal, ended>>
  BY DEF Lock, Done
<1>2. "lock" \in Words
  BY DEF Words
<1>3. /\ HeadOK([what |-> "lock", on |-> m], rest, t)
      /\ rest \in Texts(t) /\ rest \in Seq(Instructions)
      /\ \A k : Held(todo[t], k) = Held(rest, k)
                    + (IF "lock" = "unlock" /\ m = k THEN 1 ELSE 0)
                    - (IF "lock" = "lock" /\ m = k THEN 1 ELSE 0)
      /\ Exits(todo[t]) = Exits(rest)
                    + (IF "lock" = "free" /\ m = "Storage" THEN 1 ELSE 0)
                    - (IF "lock" = "end" /\ m = None THEN 2 ELSE 0)
      /\ \A o : Count(todo[t], "create", o) = Count(rest, "create", o)
                    + (IF "lock" = "create" /\ m = o THEN 1 ELSE 0)
  BY <1>1, <1>2, AtIs
<1>. HIDE DEF m, rest
<1>4. /\ \A k : Held(rest, k) \in Int
      /\ Exits(rest) \in Int
      /\ \A o : Count(rest, "create", o) \in Nat
  BY <1>3, NumbersAre
<1>5. m \in Mutexes
  BY <1>3 DEF HeadOK
<1>6. /\ \A k : Held(rest, k) = Held(todo[t], k) + (IF m = k THEN 1 ELSE 0)
      /\ Exits(rest) = Exits(todo[t])
      /\ \A o : Count(rest, "create", o) = Count(todo[t], "create", o)
  BY <1>3, <1>4
<1>7. /\ todo' \in [Threads -> Seq(Instructions)] /\ Written'
      /\ todo'[t] = rest /\ \A u \in Threads : u # t => todo'[u] = todo[u]
  BY <1>1, <1>3, MoveIs DEF Inv
<1>8. None \notin Threads
  BY ThreadAssumption DEF Threads
<1>9. Types'
  BY <1>1, <1>5, <1>7 DEF Inv, Types
<1>10. Holding'
  <2>1. /\ holder'[m] = t /\ \A k \in Mutexes : k # m => holder'[k] = holder[k]
    BY <1>1, <1>5 DEF Inv, Types
  <2>2. \A u \in Threads, k \in Mutexes : Held(todo[u], k) = IF holder[k] = u THEN 1 ELSE 0
    BY DEF Inv, Holding
  <2>3. ASSUME NEW u \in Threads, NEW k \in Mutexes
        PROVE  Held(todo'[u], k) = IF holder'[k] = u THEN 1 ELSE 0
    <3>1. CASE u = t /\ k = m
      BY <1>1, <1>5, <1>6, <1>7, <1>8, <2>1, <2>2, <3>1
    <3>2. CASE u = t /\ k # m
      <4>1. Held(rest, k) = Held(todo[t], k) + 0
        BY <1>6, <3>2
      <4>2. Held(todo[t], k) = IF holder[k] = t THEN 1 ELSE 0
        BY <2>2
      <4>. QED  BY <1>7, <2>1, <3>2, <4>1, <4>2
    <3>3. CASE u # t
      BY <1>1, <1>5, <1>7, <1>8, <2>1, <2>2, <3>3
    <3>. QED  BY <3>1, <3>2, <3>3
  <2>. QED  BY <2>3 DEF Holding
<1>11. Once'
  <2>1. \A u \in Threads : /\ Exits(todo'[u]) = Exits(todo[u])
                           /\ \A o : Count(todo'[u], "create", o) = Count(todo[u], "create", o)
    BY <1>6, <1>7
  <2>2. ~Leaving' => ~Leaving
    BY <1>1, <1>9, <2>1, LeavingIs DEF Inv
  <2>. QED  BY <1>1, <2>1, <2>2 DEF Inv, Once
<1>. QED  BY <1>7, <1>9, <1>10, <1>11 DEF Inv

\* A thread gives back what it holds.
LEMMA UnlockKeeps ==
    ASSUME Inv, NEW t \in Threads, Unlock(t)
    PROVE  Inv'
<1>. DEFINE m == Instruction(t).on
            rest == Tail(todo[t])
<1>1. /\ At(t, "unlock") /\ holder' = [holder EXCEPT ![m] = None]
      /\ todo' = [todo EXCEPT ![t] = rest]
      /\ UNCHANGED <<alive, created, initialized, signal, ended>>
  BY DEF Unlock, Done
<1>2. "unlock" \in Words
  BY DEF Words
<1>3. /\ HeadOK([what |-> "unlock", on |-> m], rest, t)
      /\ rest \in Texts(t) /\ rest \in Seq(Instructions) /\ RestOK(rest)
      /\ \A k : Held(todo[t], k) = Held(rest, k)
                    + (IF "unlock" = "unlock" /\ m = k THEN 1 ELSE 0)
                    - (IF "unlock" = "lock" /\ m = k THEN 1 ELSE 0)
      /\ Exits(todo[t]) = Exits(rest)
                    + (IF "unlock" = "free" /\ m = "Storage" THEN 1 ELSE 0)
                    - (IF "unlock" = "end" /\ m = None THEN 2 ELSE 0)
      /\ \A o : Count(todo[t], "create", o) = Count(rest, "create", o)
                    + (IF "unlock" = "create" /\ m = o THEN 1 ELSE 0)
  BY <1>1, <1>2, AtIs
<1>. HIDE DEF m, rest
<1>4. /\ \A k : Held(rest, k) \in Int
      /\ Exits(rest) \in Int
      /\ \A o : Count(rest, "create", o) \in Nat
  BY <1>3, NumbersAre
<1>5. m \in Mutexes
  BY <1>3 DEF HeadOK
<1>6. /\ \A k : Held(rest, k) = Held(todo[t], k) - (IF m = k THEN 1 ELSE 0)
      /\ Exits(rest) = Exits(todo[t])
      /\ \A o : Count(rest, "create", o) = Count(todo[t], "create", o)
  BY <1>3, <1>4
<1>7. /\ todo' \in [Threads -> Seq(Instructions)] /\ Written'
      /\ todo'[t] = rest /\ \A u \in Threads : u # t => todo'[u] = todo[u]
  BY <1>1, <1>3, MoveIs DEF Inv
<1>8. None \notin Threads
  BY ThreadAssumption DEF Threads
<1>9. Types'
  BY <1>1, <1>5, <1>7 DEF Inv, Types
<1>10. Holding'
  <2>1. /\ holder'[m] = None /\ \A k \in Mutexes : k # m => holder'[k] = holder[k]
    BY <1>1, <1>5 DEF Inv, Types
  <2>2. \A u \in Threads, k \in Mutexes : Held(todo[u], k) = IF holder[k] = u THEN 1 ELSE 0
    BY DEF Inv, Holding
  <2>3. holder[m] = t /\ Held(rest, m) = 0
    <3>1. Held(rest, m) >= 0 /\ Held(rest, m) = Held(todo[t], m) - 1
      BY <1>3, <1>5, <1>6 DEF RestOK
    <3>2. Held(todo[t], m) = IF holder[m] = t THEN 1 ELSE 0
      BY <1>5, <2>2
    <3>. QED  BY <3>1, <3>2
  <2>4. ASSUME NEW u \in Threads, NEW k \in Mutexes
        PROVE  Held(todo'[u], k) = IF holder'[k] = u THEN 1 ELSE 0
    <3>1. CASE u = t /\ k = m
      BY <1>7, <1>8, <2>1, <2>3, <3>1
    <3>2. CASE u = t /\ k # m
      <4>1. Held(rest, k) = Held(todo[t], k) - 0
        BY <1>6, <3>2
      <4>2. Held(todo[t], k) = IF holder[k] = t THEN 1 ELSE 0
        BY <2>2
      <4>. QED  BY <1>7, <2>1, <3>2, <4>1, <4>2
    <3>3. CASE u # t
      BY <1>7, <1>8, <2>1, <2>2, <2>3, <3>3
    <3>. QED  BY <3>1, <3>2, <3>3
  <2>. QED  BY <2>4 DEF Holding
<1>11. Once'
  <2>1. \A u \in Threads : /\ Exits(todo'[u]) = Exits(todo[u])
                           /\ \A o : Count(todo'[u], "create", o) = Count(todo[u], "create", o)
    BY <1>6, <1>7
  <2>2. ~Leaving' => ~Leaving
    BY <1>1, <1>9, <2>1, LeavingIs DEF Inv
  <2>. QED  BY <1>1, <2>1, <2>2 DEF Inv, Once
<1>. QED  BY <1>7, <1>9, <1>10, <1>11 DEF Inv

\* It is looked for under its mutex, so nobody else creates it.
LEMMA IfNullKeeps ==
    ASSUME Inv, NEW t \in Threads, IfNull(t)
    PROVE  Inv'
<1>. DEFINE object == Instruction(t).on
            rest == Tail(todo[t])
<1>1. /\ At(t, "ifnull")
      /\ todo' = [todo EXCEPT ![t] = IF object \in alive THEN rest ELSE Creation(object) \o rest]
      /\ UNCHANGED <<holder, alive, created, initialized, signal, ended>>
  BY DEF IfNull
<1>2. "ifnull" \in Words \ {"lock", "unlock", "create", "free", "end"}
  BY DEF Words
<1>3. /\ rest \in Texts(t) /\ Same(rest, todo[t])
      /\ HeadOK([what |-> "ifnull", on |-> object], rest, t)
  BY <1>1, <1>2, AtIs, DoneIs
<1>. HIDE DEF object, rest
<1>4. CASE object \in alive
  <2>1. todo' = [todo EXCEPT ![t] = rest]
    BY <1>1, <1>4
  <2>. QED  BY <1>1, <1>3, <2>1, StepSame DEF Inv, Types
<1>5. CASE object \notin alive
  <2>. DEFINE s == Creation(object) \o rest
  <2>1. object \in Created
    BY <1>3 DEF HeadOK
  <2>2. s \in Texts(t) /\ Adds(s, rest, object)
    BY <1>3, <2>1, CreationIs
  <2>3. todo' = [todo EXCEPT ![t] = s]
    BY <1>1, <1>5
  <2>. HIDE DEF s
  <2>4. /\ todo' \in [Threads -> Seq(Instructions)] /\ Written'
        /\ todo'[t] = s /\ \A u \in Threads : u # t => todo'[u] = todo[u]
    BY <2>2, <2>3, MoveIs DEF Inv
  <2>5. Types'
    BY <1>1, <2>4 DEF Inv, Types
  <2>6. \A u \in Threads :
            /\ \A m \in Mutexes : Held(todo'[u], m) = Held(todo[u], m)
            /\ Exits(todo'[u]) = Exits(todo[u])
            /\ \A o \in Created : o # object =>
                   Count(todo'[u], "create", o) = Count(todo[u], "create", o)
    <3>1. \A o \in Created : Count(rest, "create", o) \in Nat
      <4>1. rest \in Seq(Instructions)
        BY <1>3, TextIs
      <4>. QED  BY <4>1, NumbersAre
    <3>2. /\ \A m \in Mutexes : Held(s, m) = Held(todo[t], m)
          /\ Exits(s) = Exits(todo[t])
          /\ \A o \in Created : o # object =>
                 Count(s, "create", o) = Count(todo[t], "create", o)
      BY <1>3, <2>2, <3>1 DEF Same, Adds
    <3>. QED  BY <2>4, <3>2
  <2>7. Holding'
    BY <1>1, <2>6 DEF Inv, Holding
  <2>8. Once'
    <3>1. ~Leaving' => ~Leaving
      BY <1>1, <2>5, <2>6, LeavingIs DEF Inv
    <3>. SUFFICES ASSUME ~Leaving', NEW o \in Created
                  PROVE  /\ created'[o] = IF o \in alive' THEN 1 ELSE 0
                         /\ \A u \in Threads : Count(todo'[u], "create", o) > 0 => o \notin alive'
      BY DEF Once
    <3>2. /\ created[o] = IF o \in alive THEN 1 ELSE 0
          /\ \A u \in Threads : Count(todo[u], "create", o) > 0 => o \notin alive
      BY <3>1 DEF Inv, Once
    <3>3. CASE o = object
      BY <1>1, <1>5, <3>2, <3>3
    <3>4. CASE o # object
      BY <1>1, <2>6, <3>2, <3>4
    <3>. QED  BY <3>3, <3>4
  <2>. QED  BY <2>4, <2>5, <2>7, <2>8 DEF Inv
<1>. QED  BY <1>4, <1>5

\* The creation of an object that does not exist, and that no other thread is
\* about to create.
LEMMA CreateKeeps ==
    ASSUME Inv, NEW t \in Threads, Create(t)
    PROVE  Inv'
<1>. DEFINE object == Instruction(t).on
            rest == Tail(todo[t])
<1>1. /\ At(t, "create") /\ alive' = alive \cup {object}
      /\ created' = [created EXCEPT ![object] = IF @ < 2 THEN @ + 1 ELSE @]
      /\ todo' = [todo EXCEPT ![t] = rest]
      /\ UNCHANGED <<holder, initialized, signal, ended>>
  BY DEF Create, Done
<1>2. "create" \in Words
  BY DEF Words
<1>3. /\ HeadOK([what |-> "create", on |-> object], rest, t)
      /\ rest \in Texts(t) /\ rest \in Seq(Instructions) /\ RestOK(todo[t])
      /\ \A k : Held(todo[t], k) = Held(rest, k)
                    + (IF "create" = "unlock" /\ object = k THEN 1 ELSE 0)
                    - (IF "create" = "lock" /\ object = k THEN 1 ELSE 0)
      /\ Exits(todo[t]) = Exits(rest)
                    + (IF "create" = "free" /\ object = "Storage" THEN 1 ELSE 0)
                    - (IF "create" = "end" /\ object = None THEN 2 ELSE 0)
      /\ \A o : Count(todo[t], "create", o) = Count(rest, "create", o)
                    + (IF "create" = "create" /\ object = o THEN 1 ELSE 0)
  BY <1>1, <1>2, AtIs
<1>. HIDE DEF object, rest
<1>4. /\ \A k : Held(rest, k) \in Int
      /\ Exits(rest) \in Int
      /\ \A o : Count(rest, "create", o) \in Nat
  BY <1>3, NumbersAre
<1>5. object \in Created /\ Count(rest, "create", object) = 0
  BY <1>3 DEF HeadOK, Nested
<1>6. /\ \A k : Held(rest, k) = Held(todo[t], k)
      /\ Exits(rest) = Exits(todo[t])
      /\ \A o : o # object => Count(rest, "create", o) = Count(todo[t], "create", o)
      /\ Count(todo[t], "create", object) = 1
  BY <1>3, <1>4, <1>5
<1>7. /\ todo' \in [Threads -> Seq(Instructions)] /\ Written'
      /\ todo'[t] = rest /\ \A u \in Threads : u # t => todo'[u] = todo[u]
  BY <1>1, <1>3, MoveIs DEF Inv
<1>8. Types'
  <2>1. alive' \subseteq Created \cup {"cron"}
    BY <1>1, <1>5 DEF Inv, Types
  <2>2. created' \in [Created -> 0..2]
    BY <1>1, <1>5 DEF Inv, Types
  <2>. QED  BY <1>1, <1>7, <2>1, <2>2 DEF Inv, Types
<1>9. Holding'
  BY <1>1, <1>6, <1>7 DEF Inv, Holding
<1>10. ASSUME NEW u \in Threads, u # t
       PROVE  ~(Count(todo[u], "create", object) > 0)
  <2>. SUFFICES ASSUME Count(todo[u], "create", object) > 0 PROVE FALSE
    OBVIOUS
  <2>1. Guard(object) \in Mutexes
    BY <1>5, MutexesAre
  <2>2. Held(todo[t], Guard(object)) >= 1
    BY <1>3, <1>5, <1>6 DEF RestOK
  <2>3. Held(todo[u], Guard(object)) >= 1
    <3>1. RestOK(todo[u])
      BY TextIs DEF Inv, Written
    <3>. QED  BY <1>5, <3>1 DEF RestOK
  <2>4. holder[Guard(object)] = t /\ holder[Guard(object)] = u
    <3>1. /\ Held(todo[t], Guard(object)) = IF holder[Guard(object)] = t THEN 1 ELSE 0
          /\ Held(todo[u], Guard(object)) = IF holder[Guard(object)] = u THEN 1 ELSE 0
      BY <2>1 DEF Inv, Holding
    <3>. QED  BY <2>2, <2>3, <3>1
  <2>. QED  BY <1>10, <2>4
<1>11. Once'
  <2>1. ~Leaving' => ~Leaving
    <3>1. \A u \in Threads : Exits(todo'[u]) = Exits(todo[u])
      BY <1>6, <1>7
    <3>. QED  BY <1>1, <1>8, <3>1, LeavingIs DEF Inv
  <2>. SUFFICES ASSUME ~Leaving', NEW o \in Created
                PROVE  /\ created'[o] = IF o \in alive' THEN 1 ELSE 0
                       /\ \A u \in Threads : Count(todo'[u], "create", o) > 0 => o \notin alive'
    BY DEF Once
  <2>2. /\ created[o] = IF o \in alive THEN 1 ELSE 0
        /\ \A u \in Threads : Count(todo[u], "create", o) > 0 => o \notin alive
    BY <2>1 DEF Inv, Once
  <2>3. CASE o = object
    <3>1. created[o] = 0
      BY <1>6, <2>2, <2>3
    <3>2. created'[o] = 1 /\ o \in alive'
      BY <1>1, <1>5, <2>3, <3>1 DEF Inv, Types
    <3>3. ASSUME NEW u \in Threads PROVE ~(Count(todo'[u], "create", o) > 0)
      <4>1. CASE u = t
        BY <1>5, <1>7, <2>3, <4>1
      <4>2. CASE u # t
        BY <1>7, <1>10, <2>3, <4>2
      <4>. QED  BY <4>1, <4>2
    <3>. QED  BY <3>2, <3>3
  <2>4. CASE o # object
    <3>1. created'[o] = created[o] /\ (o \in alive' <=> o \in alive)
      BY <1>1, <1>5, <2>4 DEF Inv, Types
    <3>2. \A u \in Threads : Count(todo'[u], "create", o) = Count(todo[u], "create", o)
      BY <1>6, <1>7, <2>4
    <3>. QED  BY <2>2, <3>1, <3>2
  <2>. QED  BY <2>3, <2>4
<1>. QED  BY <1>7, <1>8, <1>9, <1>11 DEF Inv

\* The exception leaves the section of DB, and the members are as they were.
LEMMA CreateThrowsKeeps ==
    ASSUME Inv, NEW t \in Threads, CreateThrows(t)
    PROVE  Inv'
<1>. DEFINE rest == Tail(todo[t])
            s == AfterThrow(t)
<1>1. /\ At(t, "create") /\ Instruction(t).on = "DB"
      /\ todo' = [todo EXCEPT ![t] = s]
      /\ holder' = [holder EXCEPT !["DB"] = None]
      /\ UNCHANGED <<alive, created, initialized, signal, ended>>
  BY DEF CreateThrows
<1>2. "create" \in Words
  BY DEF Words
<1>3. /\ HeadOK([what |-> "create", on |-> "DB"], rest, t)
      /\ rest \in Seq(Instructions)
      /\ \A k : Held(todo[t], k) = Held(rest, k)
                    + (IF "create" = "unlock" /\ "DB" = k THEN 1 ELSE 0)
                    - (IF "create" = "lock" /\ "DB" = k THEN 1 ELSE 0)
      /\ Exits(todo[t]) = Exits(rest)
                    + (IF "create" = "free" /\ "DB" = "Storage" THEN 1 ELSE 0)
                    - (IF "create" = "end" /\ "DB" = None THEN 2 ELSE 0)
  BY <1>1, <1>2, AtIs
<1>. HIDE DEF rest
<1>4. (\A k : Held(rest, k) \in Int) /\ Exits(rest) \in Int
  BY <1>3, NumbersAre
<1>5. Exits(rest) = 0 /\ \A m \in Mutexes : Held(rest, m) = IF m \in OfDB(t) THEN 1 ELSE 0
  BY <1>3 DEF HeadOK
<1>6. /\ \A m \in Mutexes : Held(todo[t], m) = IF m \in OfDB(t) THEN 1 ELSE 0
      /\ Exits(todo[t]) = 0
  BY <1>3, <1>4, <1>5
<1>7. /\ s \in Texts(t) /\ Exits(s) = 0
      /\ \A o \in Created : Count(s, "create", o) = 0
      /\ \A m \in Mutexes : Held(s, m) = IF m \in OfDB(t) \ {"DB"} THEN 1 ELSE 0
  BY AfterThrowIs DEF Blank
<1>. HIDE DEF s
<1>8. /\ todo' \in [Threads -> Seq(Instructions)] /\ Written'
      /\ todo'[t] = s /\ \A u \in Threads : u # t => todo'[u] = todo[u]
  BY <1>1, <1>7, MoveIs DEF Inv
<1>9. "DB" \in Mutexes /\ "DB" \in OfDB(t) /\ None \notin Threads
  BY NamesAre, ThreadAssumption DEF OfDB, Threads
<1>10. Types'
  BY <1>1, <1>8, <1>9 DEF Inv, Types
<1>11. Holding'
  <2>1. holder'["DB"] = None /\ \A k \in Mutexes : k # "DB" => holder'[k] = holder[k]
    BY <1>1, <1>9 DEF Inv, Types
  <2>2. \A u \in Threads, k \in Mutexes : Held(todo[u], k) = IF holder[k] = u THEN 1 ELSE 0
    BY DEF Inv, Holding
  <2>3. holder["DB"] = t
    <3>1. Held(todo[t], "DB") = 1
      BY <1>6, <1>9
    <3>. QED  BY <1>9, <2>2, <3>1
  <2>4. ASSUME NEW u \in Threads, NEW k \in Mutexes
        PROVE  Held(todo'[u], k) = IF holder'[k] = u THEN 1 ELSE 0
    <3>1. CASE u = t /\ k = "DB"
      BY <1>7, <1>8, <1>9, <2>1, <3>1
    <3>2. CASE u = t /\ k # "DB"
      <4>1. Held(s, k) = Held(todo[t], k)
        BY <1>6, <1>7, <3>2
      <4>. QED  BY <1>8, <2>1, <2>2, <3>2, <4>1
    <3>3. CASE u # t
      BY <1>8, <1>9, <2>1, <2>2, <2>3, <3>3
    <3>. QED  BY <3>1, <3>2, <3>3
  <2>. QED  BY <2>4 DEF Holding
<1>12. Once'
  <2>1. ~Leaving' => ~Leaving
    <3>1. \A u \in Threads : Exits(todo'[u]) = Exits(todo[u])
      BY <1>6, <1>7, <1>8
    <3>. QED  BY <1>1, <1>10, <3>1, LeavingIs DEF Inv
  <2>. SUFFICES ASSUME ~Leaving', NEW o \in Created
                PROVE  /\ created'[o] = IF o \in alive' THEN 1 ELSE 0
                       /\ \A u \in Threads : Count(todo'[u], "create", o) > 0 => o \notin alive'
    BY DEF Once
  <2>2. /\ created[o] = IF o \in alive THEN 1 ELSE 0
        /\ \A u \in Threads : Count(todo[u], "create", o) > 0 => o \notin alive
    BY <2>1 DEF Inv, Once
  <2>3. \A u \in Threads : Count(todo'[u], "create", o) > 0 => Count(todo[u], "create", o) > 0
    BY <1>7, <1>8
  <2>. QED  BY <1>1, <2>2, <2>3
<1>. QED  BY <1>8, <1>10, <1>11, <1>12 DEF Inv

\* A step of the teardown, after which the process is on its way out.
LEMMA FreeKeeps ==
    ASSUME Inv, NEW t \in Threads, Free(t)
    PROVE  Inv'
<1>. DEFINE on == Instruction(t).on
            rest == Tail(todo[t])
<1>1. /\ At(t, "free") /\ alive' = alive \ {on}
      /\ todo' = [todo EXCEPT ![t] = rest]
      /\ UNCHANGED <<holder, created, initialized, signal, ended>>
  BY DEF Free, Done
<1>2. "free" \in Words
  BY DEF Words
<1>3. /\ HeadOK([what |-> "free", on |-> on], rest, t)
      /\ rest \in Texts(t) /\ rest \in Seq(Instructions)
      /\ \A k : Held(todo[t], k) = Held(rest, k)
                    + (IF "free" = "unlock" /\ on = k THEN 1 ELSE 0)
                    - (IF "free" = "lock" /\ on = k THEN 1 ELSE 0)
  BY <1>1, <1>2, AtIs
<1>. HIDE DEF on, rest
<1>4. \A k : Held(rest, k) \in Int
  BY <1>3, NumbersAre
<1>5. Exits(rest) < 0 /\ \A k : Held(rest, k) = Held(todo[t], k)
  BY <1>3, <1>4 DEF HeadOK
<1>6. /\ todo' \in [Threads -> Seq(Instructions)] /\ Written'
      /\ todo'[t] = rest /\ \A u \in Threads : u # t => todo'[u] = todo[u]
  BY <1>1, <1>3, MoveIs DEF Inv
<1>7. Types'
  BY <1>1, <1>6 DEF Inv, Types
<1>8. Holding'
  BY <1>1, <1>5, <1>6 DEF Inv, Holding
<1>9. Once'
  BY <1>5, <1>6, <1>7, LeavingIs DEF Once
<1>. QED  BY <1>6, <1>7, <1>8, <1>9 DEF Inv

\* The process ends.
LEMMA EndKeeps ==
    ASSUME Inv, NEW t \in Threads, End(t)
    PROVE  Inv'
<1>. DEFINE on == Instruction(t).on
            rest == Tail(todo[t])
<1>1. /\ At(t, "end") /\ ended' = "exit"
      /\ todo' = [todo EXCEPT ![t] = rest]
      /\ UNCHANGED <<holder, alive, created, initialized, signal>>
  BY DEF End, Done
<1>2. "end" \in Words
  BY DEF Words
<1>3. /\ rest \in Texts(t) /\ rest \in Seq(Instructions)
      /\ \A k : Held(todo[t], k) = Held(rest, k)
                    + (IF "end" = "unlock" /\ on = k THEN 1 ELSE 0)
                    - (IF "end" = "lock" /\ on = k THEN 1 ELSE 0)
  BY <1>1, <1>2, AtIs
<1>. HIDE DEF on, rest
<1>4. \A k : Held(rest, k) \in Int
  BY <1>3, NumbersAre
<1>5. \A k : Held(rest, k) = Held(todo[t], k)
  BY <1>3, <1>4
<1>6. /\ todo' \in [Threads -> Seq(Instructions)] /\ Written'
      /\ todo'[t] = rest /\ \A u \in Threads : u # t => todo'[u] = todo[u]
  BY <1>1, <1>3, MoveIs DEF Inv
<1>7. Types'
  BY <1>1, <1>6 DEF Inv, Types
<1>8. Holding'
  BY <1>1, <1>5, <1>6 DEF Inv, Holding
<1>9. Once'
  BY <1>1, <1>7, LeavingIs DEF Once
<1>. QED  BY <1>6, <1>7, <1>8, <1>9 DEF Inv

\* The destructor of the worker adds a section and itself.
LEMMA DestroyKeeps ==
    ASSUME Inv, NEW t \in Threads, Destroy(t)
    PROVE  Inv'
<1>. DEFINE on == Instruction(t).on
            rest == Tail(todo[t])
            section == Section("WorkerMutex", Do("interrupt", Cron))
            free == Do("free", on)
<1>1. /\ At(t, "destroy")
      /\ \/ todo' = [todo EXCEPT ![t] = section \o free \o rest]
         \/ todo' = [todo EXCEPT ![t] = rest]
      /\ UNCHANGED <<holder, alive, created, initialized, signal, ended>>
  BY DEF Destroy, Done
<1>2. "destroy" \in Words \ {"lock", "unlock", "create", "free", "end"} /\ "free" \in Words
  BY DEF Words
<1>3. /\ rest \in Texts(t) /\ Same(rest, todo[t])
      /\ HeadOK([what |-> "destroy", on |-> on], rest, t)
  BY <1>1, <1>2, AtIs, DoneIs
<1>4. CASE todo' = [todo EXCEPT ![t] = rest]
  <2>. HIDE DEF rest
  <2>. QED  BY <1>1, <1>3, <1>4, StepSame DEF Inv, Types
<1>5. CASE todo' = [todo EXCEPT ![t] = section \o free \o rest]
  <2>1. on = "StockUpdateWorker" /\ Exits(rest) < 0
    BY <1>3 DEF HeadOK
  <2>2. on \in Names /\ on # "Storage"
    BY <2>1, NamesAre DEF Objects
  <2>3. HeadOK([what |-> "free", on |-> on], rest, t)
    BY <2>1 DEF HeadOK
  <2>4. free \o rest \in Texts(t) /\ Same(free \o rest, rest)
    BY <1>2, <1>3, <2>2, <2>3, SilentIs
  <2>5. section \in Plain(t, {})
    <3>1. {} \in SUBSET Created /\ "WorkerMutex" \in Mutexes /\ Cron \in Names
      BY NamesAre
    <3>2. Do("interrupt", Cron) \in Plain(t, {})
      BY <3>1, PlainDo
    <3>. QED  BY <3>1, <3>2, PlainSection
  <2>6. section \in Seq(Instructions) /\ free \in Seq(Instructions)
    <3>1. section \in Seq(Instructions)
      BY <2>5 DEF Plain
    <3>2. [what |-> "free", on |-> on] \in Instructions
      BY <1>2, <2>2 DEF Instructions, Names
    <3>3. free \in Seq(Instructions)
      BY <3>2 DEF Do
    <3>. QED  BY <3>1, <3>3
  <2>. HIDE DEF on, rest, section, free
  <2>7. section \o (free \o rest) \in Texts(t) /\ Same(section \o (free \o rest), free \o rest)
    BY <2>4, <2>5 DEF Plain
  <2>8. section \o free \o rest = section \o (free \o rest)
    <3>1. rest \in Seq(Instructions)
      BY <1>3, TextIs
    <3>. QED  BY <2>6, <3>1, ConcatAssociative
  <2>9. Same(section \o (free \o rest), todo[t])
    BY <1>3, <2>4, <2>7 DEF Same
  <2>. DEFINE s == section \o (free \o rest)
  <2>10. s \in Texts(t) /\ Same(s, todo[t]) /\ todo' = [todo EXCEPT ![t] = s]
    BY <1>5, <2>7, <2>8, <2>9
  <2>. HIDE DEF s
  <2>. QED  BY <1>1, <2>10, StepSame DEF Inv, Types
<1>. QED  BY <1>1, <1>4, <1>5

\* The server starts or main returns.
LEMMA ServerStartKeeps ==
    ASSUME Inv, NEW t \in Threads, ServerStart(t)
    PROVE  Inv'
<1>. DEFINE on == Instruction(t).on
            rest == Tail(todo[t])
<1>1. /\ At(t, "start")
      /\ \/ todo' = [todo EXCEPT ![t] = rest]
         \/ \E s \in {Exit, LogEntry \o Exit} : todo' = [todo EXCEPT ![t] = s]
      /\ UNCHANGED <<holder, alive, created, initialized, signal, ended>>
  BY DEF ServerStart, Done
<1>2. "start" \in Words \ {"lock", "unlock", "create", "free", "end"}
  BY DEF Words
<1>3. /\ rest \in Texts(t) /\ Same(rest, todo[t])
      /\ HeadOK([what |-> "start", on |-> on], rest, t)
      /\ RestOK(todo[t]) /\ todo[t] \in Seq(Instructions)
  BY <1>1, <1>2, AtIs, DoneIs
<1>. HIDE DEF on, rest
<1>4. CASE todo' = [todo EXCEPT ![t] = rest]
  BY <1>1, <1>3, <1>4, StepSame DEF Inv, Types
<1>5. ASSUME NEW s \in {Exit, LogEntry \o Exit}, todo' = [todo EXCEPT ![t] = s]
      PROVE  Inv'
  <2>1. s \in Blank(t, {})
    BY ReturnsAre
  <2>2. Exits(todo[t]) = 0 /\ \A m \in Mutexes : Held(todo[t], m) = 0
    BY <1>3 DEF HeadOK, Same
  <2>3. \A o \in Created : Count(todo[t], "create", o) = 0
    <3>1. \A o \in Created : Guard(o) \in Mutexes
      BY MutexesAre
    <3>2. \A o \in Created : Count(todo[t], "create", o) \in Nat
      BY <1>3, NumbersAre
    <3>. QED  BY <1>3, <2>2, <3>1, <3>2 DEF RestOK
  <2>4. s \in Texts(t) /\ Same(s, todo[t])
    BY <2>1, <2>2, <2>3 DEF Blank, Same
  <2>. QED  BY <1>1, <1>5, <2>4, StepSame DEF Inv, Types
<1>. QED  BY <1>1, <1>4, <1>5

\* The thread of the worker cannot be created.
LEMMA SpawnThrowsKeeps ==
    ASSUME Inv, NEW t \in Threads, SpawnThrows(t)
    PROVE  Inv'
<1>. DEFINE on == Instruction(t).on
            rest == Tail(todo[t])
            s == Do("unlock", "WorkerMutex") \o LogEntry \o Exit
<1>1. /\ At(t, "spawn")
      /\ todo' = [todo EXCEPT ![t] = s]
      /\ UNCHANGED <<holder, alive, created, initialized, signal, ended>>
  BY DEF SpawnThrows
<1>2. "spawn" \in Words \ {"lock", "unlock", "create", "free", "end"}
  BY DEF Words
<1>3. /\ Same(rest, todo[t]) /\ HeadOK([what |-> "spawn", on |-> on], rest, t)
      /\ RestOK(todo[t]) /\ todo[t] \in Seq(Instructions) /\ rest \in Texts(t)
  BY <1>1, <1>2, AtIs, DoneIs
<1>4. s \in Blank(t, {"WorkerMutex"})
  BY UnspawnedIs
<1>. HIDE DEF on, rest, s
<1>5. /\ Exits(todo[t]) = 0
      /\ \A o \in Created : Count(todo[t], "create", o) = 0
      /\ \A m \in Mutexes : Held(todo[t], m) = IF m = "WorkerMutex" THEN 1 ELSE 0
  BY <1>3 DEF HeadOK, Same
<1>6. s \in Texts(t) /\ Same(s, todo[t])
  BY <1>4, <1>5 DEF Blank, Same
<1>. QED  BY <1>1, <1>6, StepSame DEF Inv, Types

\* An instruction of a thread that changes no number.
LEMMA SilentKeeps ==
    ASSUME Inv, NEW t \in Threads,
           \/ Initialize(t) \/ AssertInitialized(t) \/ Interrupt(t) \/ Spawn(t)
           \/ Download(t) \/ Stop(t)
           \/ t = Main /\ WaitForShutdown
    PROVE  Inv'
<1>. DEFINE rest == Tail(todo[t])
            words == Words \ {"lock", "unlock", "create", "free", "end"}
<1>1. /\ "initialize" \in words /\ "assert" \in words /\ "interrupt" \in words
      /\ "spawn" \in words /\ "download" \in words /\ "stop" \in words /\ "serve" \in words
  BY DEF Words
<1>2. PICK what \in words : At(t, what)
  BY <1>1 DEF Initialize, AssertInitialized, Interrupt, Spawn, Download, Stop, WaitForShutdown, Serving
<1>3. rest \in Texts(t) /\ Same(rest, todo[t]) /\ ended = "no"
  BY <1>2, DoneIs DEF At
<1>. HIDE DEF words
<1>4. todo' = [todo EXCEPT ![t] = rest]
  BY DEF Initialize, AssertInitialized, Interrupt, Spawn, Download, Stop, WaitForShutdown, Done
<1>. HIDE DEF rest
<1>5. /\ holder' = holder /\ created' = created /\ alive' \in {alive, alive \cup {"cron"}}
      /\ initialized' \in BOOLEAN /\ signal' \in {"none", "pending", "taken"}
      /\ ended' \in {"no", "exit", "abort"}
  BY DEF Initialize, AssertInitialized, Interrupt, Spawn, Download, Stop, WaitForShutdown, Inv, Types
<1>. QED  BY <1>3, <1>4, <1>5, StepSame

\* A handler, a request and a round of the worker begin.
LEMMA BeginKeeps ==
    ASSUME Inv,
           \/ \E t \in Threads : Handle(t)
           \/ \E r \in Requests : Receive(r)
           \/ Wake
    PROVE  Inv'
<1>1. ASSUME NEW t \in Threads, Handle(t) PROVE Inv'
  <2>. DEFINE s == Terminate \o todo[t]
  <2>1. todo[t] \in Texts(t) /\ Terminate \in Plain(t, {})
    BY PlainTerminate DEF Inv, Written
  <2>2. s \in Texts(t) /\ Same(s, todo[t])
    BY <2>1 DEF Plain
  <2>3. /\ todo' = [todo EXCEPT ![t] = s] /\ signal' = "taken"
        /\ UNCHANGED <<holder, alive, created, initialized, ended>>
    BY <1>1 DEF Handle
  <2>. HIDE DEF s
  <2>. QED  BY <2>2, <2>3, StepSame DEF Inv, Types
<1>2. ASSUME NEW t \in Threads, NEW s \in Blank(t, {}), todo[t] = << >>,
             todo' = [todo EXCEPT ![t] = s],
             UNCHANGED <<holder, alive, created, initialized, signal, ended>>
      PROVE  Inv'
  <2>1. s \in Texts(t) /\ Same(s, << >>)
    BY BlankIs DEF Blank, Same
  <2>. QED  BY <1>2, <2>1, StepSame DEF Inv, Types
<1>3. ASSUME NEW r \in Requests, Receive(r) PROVE Inv'
  <2>1. r \in Threads /\ r # Cron
    BY ThreadAssumption DEF Threads
  <2>2. RequestQuotes \in Blank(r, {}) /\ RequestToken \in Blank(r, {})
    BY <2>1, RequestsAre
  <2>. QED  BY <1>2, <1>3, <2>1, <2>2 DEF Receive
<1>4. ASSUME Wake PROVE Inv'
  <2>1. Cron \in Threads
    BY DEF Threads
  <2>. QED  BY <1>2, <1>4, <2>1, RoundIs DEF Wake
<1>. QED  BY <1>1, <1>3, <1>4

\* Nothing exists at first, and main has its program.
LEMMA InvInit == Init => Inv
<1>. SUFFICES ASSUME Init PROVE Inv
  OBVIOUS
<1>1. PICK gotLock \in BOOLEAN :
          todo = [t \in Threads |-> IF t = Main THEN MainProgram(gotLock) ELSE << >>]
  BY DEF Init
<1>2. MainProgram(gotLock) \in Blank(Main, {}) /\ \A t : << >> \in Blank(t, {})
  BY MainIs, BlankIs
<1>3. \A t \in Threads : todo[t] \in Blank(t, {})
  BY <1>1, <1>2
<1>4. \A t \in Threads : todo[t] \in Seq(Instructions)
  BY <1>3, BlankIs
<1>5. Types
  <2>1. todo \in [Threads -> Seq(Instructions)]
    BY <1>1, <1>4
  <2>2. created \in [Created -> 0..2]
    BY DEF Init, Created
  <2>. QED  BY <2>1, <2>2 DEF Types, Init
<1>6. Written
  BY <1>3 DEF Written, Blank
<1>7. Holding
  <2>1. None \notin Threads
    BY ThreadAssumption DEF Threads
  <2>. QED  BY <1>3, <2>1 DEF Holding, Blank, Init
<1>8. Once
  <2>1. \A o \in Created : created[o] = 0 /\ o \notin alive
    BY DEF Init, Created
  <2>2. \A o \in Created, t \in Threads : Count(todo[t], "create", o) = 0
    BY <1>3 DEF Blank
  <2>. QED  BY <2>1, <2>2 DEF Once
<1>. QED  BY <1>5, <1>6, <1>7, <1>8 DEF Inv

\* Every step keeps the invariant, those of handlers and of the teardown included.
LEMMA InvNext == Inv /\ [Next]_vars => Inv'
<1>. SUFFICES ASSUME Inv, [Next]_vars PROVE Inv'
  OBVIOUS
<1>1. ASSUME NEW t \in Threads, Step(t) PROVE Inv'
  <2>1. CASE Lock(t)
    BY <2>1, LockKeeps
  <2>2. CASE Unlock(t)
    BY <2>2, UnlockKeeps
  <2>3. CASE \/ Initialize(t) \/ AssertInitialized(t) \/ Interrupt(t) \/ Spawn(t)
             \/ Download(t) \/ Stop(t)
    BY <2>3, SilentKeeps
  <2>4. CASE IfNull(t)
    BY <2>4, IfNullKeeps
  <2>5. CASE Create(t)
    BY <2>5, CreateKeeps
  <2>6. CASE CreateThrows(t)
    BY <2>6, CreateThrowsKeeps
  <2>7. CASE Free(t)
    BY <2>7, FreeKeeps
  <2>8. CASE Destroy(t)
    BY <2>8, DestroyKeeps
  <2>9. CASE ServerStart(t)
    BY <2>9, ServerStartKeeps
  <2>10. CASE End(t)
    BY <2>10, EndKeeps
  <2>11. CASE SpawnThrows(t)
    BY <2>11, SpawnThrowsKeeps
  <2>. QED
    BY <1>1, <2>1, <2>2, <2>3, <2>4, <2>5, <2>6, <2>7, <2>8, <2>9, <2>10, <2>11 DEF Step
<1>2. CASE \/ \E t \in Threads : Handle(t)
           \/ \E r \in Requests : Receive(r)
           \/ Wake
  BY <1>2, BeginKeeps
<1>3. CASE Kill
  <2>1. /\ UNCHANGED <<todo, holder, alive, created, initialized, ended>>
        /\ signal' \in {"none", "pending", "taken"}
    BY <1>3 DEF Kill
  <2>2. Types' /\ Written' /\ Holding'
    BY <2>1 DEF Inv, Types, Written, Holding
  <2>3. Leaving' <=> Leaving
    BY <2>1, <2>2, LeavingIs DEF Inv
  <2>. QED  BY <2>1, <2>2, <2>3 DEF Inv, Once
<1>4. CASE WaitForShutdown
  <2>1. Main \in Threads
    BY DEF Threads
  <2>. QED  BY <1>4, <2>1, SilentKeeps
<1>5. CASE UNCHANGED vars
  <2>1. UNCHANGED <<todo, holder, alive, created, initialized, signal, ended>>
    BY <1>5 DEF vars
  <2>2. Types' /\ Written' /\ Holding'
    BY <2>1 DEF Inv, Types, Written, Holding
  <2>3. Leaving' <=> Leaving
    BY <2>1, <2>2, LeavingIs DEF Inv
  <2>. QED  BY <2>1, <2>2, <2>3 DEF Inv, Once
<1>. QED  BY <1>1, <1>2, <1>3, <1>4, <1>5 DEF Next

-----------------------------------------------------------------------------
\* The state keeps its type, and a mutex is held by the thread inside its
\* section and by no other, in handlers and in the teardown as well.
THEOREM StateTypes == Spec => []TypeOK
<1>1. Inv => TypeOK
  <2>. SUFFICES ASSUME Inv PROVE TypeOK
    OBVIOUS
  <2>1. todo \in [Threads -> Seq(Instructions)] /\ \A t \in Threads : todo[t] \in Seq(Instructions)
    BY DEF Inv, Types
  <2>2. /\ holder \in [Mutexes -> Threads \cup {None}]
        /\ alive \subseteq Objects \cup Statics \cup {"cron"}
        /\ created \in [Objects \cup Statics -> 0..2]
        /\ initialized \in BOOLEAN
        /\ signal \in {"none", "pending", "taken"}
        /\ ended \in {"no", "exit", "abort"}
    BY DEF Inv, Types, Created
  <2>3. ASSUME NEW t \in Threads, NEW m \in Mutexes
        PROVE  holder[m] = t <=> Count(todo[t], "unlock", m) > Count(todo[t], "lock", m)
    <3>1. Count(todo[t], "unlock", m) \in Nat /\ Count(todo[t], "lock", m) \in Nat
      BY <2>1, CountType
    <3>2. Count(todo[t], "unlock", m) - Count(todo[t], "lock", m)
              = IF holder[m] = t THEN 1 ELSE 0
      BY DEF Inv, Holding, Held
    <3>. QED  BY <3>1, <3>2
  <2>. QED  BY <2>1, <2>2, <2>3 DEF TypeOK
<1>. QED  BY <1>1, InvInit, InvNext, PTL DEF Spec

\* However the threads ask for the members of RT, and however often the database
\* fails to open, each is created once.
THEOREM CreatedOnce == Spec => []OneInstance
<1>1. Inv => OneInstance
  <2>. SUFFICES ASSUME Inv, ~Leaving, NEW o \in DOMAIN created PROVE created[o] <= 1
    BY DEF OneInstance
  <2>1. o \in Created
    BY DEF Inv, Types
  <2>. QED  BY <2>1 DEF Inv, Once
<1>. QED  BY <1>1, InvInit, InvNext, PTL DEF Spec
=============================================================================
