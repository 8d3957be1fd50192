-------------------------- MODULE DashboardProofs --------------------------
(***************************************************************************)
(* Proofs about module Dashboard: the order of the list is a strict total  *)
(* one, a page is the rows whose rank lies in its window, ranks only grow  *)
(* while rows arrive, and the readings of a snapshot bound each other      *)
(* because what they count only grows.                                     *)
(***************************************************************************)
EXTENDS Dashboard, SequenceTheorems, FiniteSetTheorems, FunctionTheorems, TLAPS

----------------------------------------------------------------------------
(* The order of times.                                                     *)

\* The end of a text, character by character.
LEMMA TailIs ==
  ASSUME NEW d \in Seq(0..9)
  PROVE  LET t == Tail3339(d) IN
         /\ t \in Seq(Nat) /\ Len(d) \in Nat
         /\ Len(d) = 0 => Len(t) = 1 /\ t[1] = 90
         /\ Len(d) # 0 => /\ Len(t) = Len(d) + 2 /\ t[1] = 46 /\ t[Len(d) + 2] = 90
                          /\ \A i \in 1..Len(d) : t[i + 1] = 48 + d[i]
<1> DEFINE n == Len(d)
           mid == [i \in DOMAIN d |-> 48 + d[i]]
<1>1. n \in Nat /\ DOMAIN d = 1..n /\ \A i \in 1..n : d[i] \in 0..9
  BY LenProperties, ElementOfSeq
<1>2. mid \in Seq(Nat) /\ Len(mid) = n /\ \A i \in 1..n : mid[i] = 48 + d[i]
  <2>1. mid \in [1..n -> Nat]
    BY <1>1
  <2> QED BY <1>1, <2>1, SeqDef, LenProperties
<1>3. /\ <<46>> \in Seq(Nat) /\ Len(<<46>>) = 1 /\ <<46>>[1] = 46
      /\ <<90>> \in Seq(Nat) /\ Len(<<90>>) = 1 /\ <<90>>[1] = 90
  OBVIOUS
<1>4. CASE n = 0
  <2>1. d = <<>>
    BY <1>1, <1>4, EmptySeq
  <2>2. Tail3339(d) = <<90>>
    BY <2>1 DEF Tail3339
  <2> QED BY <1>1, <1>3, <1>4, <2>2
<1>5. CASE n # 0
  <2> DEFINE point == <<46>>
             zed   == <<90>>
  <2>1. d # <<>>
    BY <1>1, <1>5
  <2>2. Tail3339(d) = (point \o mid) \o zed
    BY <2>1 DEF Tail3339
  <2>3. /\ point \in Seq(Nat) /\ Len(point) = 1 /\ point[1] = 46
        /\ zed \in Seq(Nat) /\ Len(zed) = 1 /\ zed[1] = 90
    BY <1>3
  <2> HIDE DEF mid, point, zed
  <2>4. /\ point \o mid \in Seq(Nat) /\ Len(point \o mid) = Len(point) + Len(mid)
        /\ \A i \in 1..Len(point) + Len(mid) :
             (point \o mid)[i] = IF i <= Len(point) THEN point[i] ELSE mid[i - Len(point)]
    <3>1. point \in Seq(Nat) /\ mid \in Seq(Nat)
      BY <1>2, <2>3
    <3> QED BY ONLY <3>1, ConcatProperties
  <2> DEFINE pm == point \o mid
  <2>5. /\ pm \in Seq(Nat) /\ Len(pm) = n + 1 /\ pm[1] = 46
        /\ \A i \in 1..n : pm[i + 1] = 48 + d[i]
    <3>1. \A i \in 1..n : i + 1 \in 1..1 + n /\ (i + 1) - 1 = i /\ ~(i + 1 <= 1)
      BY <1>1
    <3>2. 1 \in 1..1 + n /\ n + 1 = 1 + n
      BY <1>1
    <3> QED BY <1>2, <2>3, <2>4, <3>1, <3>2
  <2> HIDE DEF pm
  <2>6. /\ pm \o zed \in Seq(Nat) /\ Len(pm \o zed) = Len(pm) + Len(zed)
        /\ \A i \in 1..Len(pm) + Len(zed) :
             (pm \o zed)[i] = IF i <= Len(pm) THEN pm[i] ELSE zed[i - Len(pm)]
    <3>1. pm \in Seq(Nat) /\ zed \in Seq(Nat)
      BY <2>3, <2>5
    <3> QED BY ONLY <3>1, ConcatProperties
  <2> DEFINE t == pm \o zed
  <2>7. /\ t \in Seq(Nat) /\ Len(t) = n + 2 /\ t[1] = 46 /\ t[n + 2] = 90
        /\ \A i \in 1..n : t[i + 1] = 48 + d[i]
    <3>1. /\ \A i \in 1..n : i + 1 \in 1..(n + 1) + 1 /\ i + 1 <= n + 1
          /\ 1 \in 1..(n + 1) + 1 /\ 1 <= n + 1
          /\ n + 2 \in 1..(n + 1) + 1 /\ (n + 2) - (n + 1) = 1 /\ ~(n + 2 <= n + 1)
          /\ (n + 1) + 1 = n + 2
      BY <1>1
    <3> HIDE DEF n
    <3> QED BY <2>3, <2>5, <2>6, <3>1
  <2> HIDE DEF t, n
  <2>8. Tail3339(d) = t
    BY <2>2 DEF t, pm
  <2> QED BY <1>1, <1>5, <2>7, <2>8 DEF n
<1> QED BY <1>4, <1>5

\* The least of a set of natural numbers.
LEMMA LeastOfNaturals ==
  ASSUME NEW T, T \subseteq Nat, T # {}
  PROVE \E m \in T : \A k \in T : m <= k
<1> DEFINE R == StrictSubsetOrdering(Nat)
           F == FiniteSubsetsOf(Nat)
           U == {0 .. m : m \in T}
<1>1. IsWellFoundedOn(R, F)
  BY FS_StrictSubsetOrderingWellFounded
<1>2. U \subseteq F /\ U # {}
  <2>1. \A m \in T : IsFiniteSet(0 .. m) /\ 0 .. m \in SUBSET Nat
    BY FS_Interval
  <2> QED
    BY <2>1 DEF FiniteSubsetsOf
<1>3. \E x \in U : \A y \in U : ~ (<<y, x>> \in R)
  <2> HIDE DEF R, F, U
  <2> QED BY <1>1, <1>2, WFMin
<1>4. \A x, y \in Nat : x < y => <<0 .. x, 0 .. y>> \in R
  BY DEF StrictSubsetOrdering
<1>5. PICK m \in T : \A k \in T : ~ (<<0 .. k, 0 .. m>> \in R)
  <2> HIDE DEF R
  <2> QED
    BY <1>3
<1>6. ASSUME NEW k \in T PROVE m <= k
  <2>1. ~ (k < m)
    BY <1>4, <1>5
  <2> QED
    BY <2>1
<1> QED BY <1>6

\* No text is the beginning of another: two that differ are in some order.
LEMMA TailsDiffer ==
  ASSUME NEW d \in Seq(0..9), NEW e \in Seq(0..9), d # e
  PROVE  \/ SmallerText(Tail3339(d), Tail3339(e))
         \/ SmallerText(Tail3339(e), Tail3339(d))
<1> DEFINE s == Tail3339(d)
           t == Tail3339(e)
<1>1. /\ s \in Seq(Nat) /\ t \in Seq(Nat) /\ Len(d) \in Nat /\ Len(e) \in Nat
      /\ DOMAIN s = 1..Len(s) /\ DOMAIN t = 1..Len(t) /\ Len(s) \in Nat /\ Len(t) \in Nat
      /\ \A i \in 1..Len(d) : d[i] \in 0..9
      /\ \A i \in 1..Len(e) : e[i] \in 0..9
      /\ \A i \in 1..Len(s) : s[i] \in Nat
      /\ \A i \in 1..Len(t) : t[i] \in Nat
  BY TailIs, LenProperties, ElementOfSeq
<1>2. \E i \in DOMAIN s \cap DOMAIN t : s[i] # t[i]
  <2>1. CASE Len(d) = 0 \/ Len(e) = 0
    <3>1. ~(Len(d) = 0 /\ Len(e) = 0)
      BY EmptySeq
    <3>2. /\ Len(s) >= 1 /\ s[1] = IF Len(d) = 0 THEN 90 ELSE 46
          /\ Len(t) >= 1 /\ t[1] = IF Len(e) = 0 THEN 90 ELSE 46
      <4>1. Len(s) >= 1 /\ s[1] = IF Len(d) = 0 THEN 90 ELSE 46
        BY <1>1, TailIs
      <4>2. Len(t) >= 1 /\ t[1] = IF Len(e) = 0 THEN 90 ELSE 46
        BY <1>1, TailIs
      <4> QED BY <4>1, <4>2
    <3> HIDE DEF s, t
    <3>3. 1 \in DOMAIN s \cap DOMAIN t /\ s[1] # t[1]
      BY <1>1, <2>1, <3>1, <3>2
    <3> QED BY <3>3
  <2>2. CASE Len(d) # 0 /\ Len(e) # 0
    <3>1. /\ Len(s) = Len(d) + 2 /\ s[Len(d) + 2] = 90
          /\ Len(t) = Len(e) + 2 /\ t[Len(e) + 2] = 90
          /\ \A i \in 1..Len(d) : s[i + 1] = 48 + d[i]
          /\ \A i \in 1..Len(e) : t[i + 1] = 48 + e[i]
      <4>1. /\ Len(s) = Len(d) + 2 /\ s[Len(d) + 2] = 90
            /\ \A i \in 1..Len(d) : s[i + 1] = 48 + d[i]
        BY <2>2, TailIs
      <4>2. /\ Len(t) = Len(e) + 2 /\ t[Len(e) + 2] = 90
            /\ \A i \in 1..Len(e) : t[i + 1] = 48 + e[i]
        BY <2>2, TailIs
      <4> QED BY <4>1, <4>2
    <3> HIDE DEF s, t
    <3>5. Len(d) \in Nat /\ Len(e) \in Nat /\ Len(s) = Len(d) + 2 /\ Len(t) = Len(e) + 2
      BY <1>1, <3>1
    <3>2. CASE Len(d) < Len(e)
      <4>1. Len(d) + 2 \in 1..Len(s) /\ Len(d) + 2 \in 1..Len(t) /\ Len(d) + 1 \in 1..Len(e)
        BY <3>2, <3>5
      <4>2. (Len(d) + 1) + 1 = Len(d) + 2 /\ e[Len(d) + 1] \in 0..9
        BY <1>1, <3>5, <4>1
      <4>3. t[Len(d) + 2] = 48 + e[Len(d) + 1]
        BY <3>1, <4>1, <4>2
      <4>4. t[Len(d) + 2] # 90
        <5>1. \A x \in 0..9 : 48 + x # 90
          OBVIOUS
        <5> QED BY <4>2, <4>3, <5>1
      <4>5. Len(d) + 2 \in DOMAIN s \cap DOMAIN t
        BY <1>1, <4>1
      <4>6. s[Len(d) + 2] # t[Len(d) + 2]
        BY <3>1, <4>4
      <4> QED BY <4>5, <4>6
    <3>3. CASE Len(e) < Len(d)
      <4>1. Len(e) + 2 \in 1..Len(s) /\ Len(e) + 2 \in 1..Len(t) /\ Len(e) + 1 \in 1..Len(d)
        BY <3>3, <3>5
      <4>2. (Len(e) + 1) + 1 = Len(e) + 2 /\ d[Len(e) + 1] \in 0..9
        BY <1>1, <4>1
      <4>3. s[Len(e) + 2] = 48 + d[Len(e) + 1]
        BY <3>1, <4>1, <4>2
      <4>4. s[Len(e) + 2] # 90
        <5>1. \A x \in 0..9 : 48 + x # 90
          OBVIOUS
        <5> QED BY <4>2, <4>3, <5>1
      <4>5. Len(e) + 2 \in DOMAIN s \cap DOMAIN t
        BY <1>1, <4>1
      <4>6. s[Len(e) + 2] # t[Len(e) + 2]
        BY <3>1, <4>4
      <4> QED BY <4>5, <4>6
    <3>4. CASE Len(d) = Len(e)
      <4>1. PICK i \in 1..Len(d) : d[i] # e[i]
        BY <3>4, SeqEqual
      <4>2. i + 1 \in 1..Len(s) /\ i + 1 \in 1..Len(t)
        BY <1>1, <3>1, <3>4
      <4>3. s[i + 1] = 48 + d[i] /\ t[i + 1] = 48 + e[i] /\ d[i] \in 0..9 /\ e[i] \in 0..9
        BY <1>1, <3>1, <3>4
      <4>4. s[i + 1] # t[i + 1]
        <5>1. \A a, b \in 0..9 : 48 + a = 48 + b => a = b
          OBVIOUS
        <5> QED BY <4>1, <4>3, <5>1
      <4> QED BY <1>1, <4>2, <4>4
    <3> QED BY <1>1, <3>2, <3>3, <3>4
  <2> QED BY <2>1, <2>2
<1> HIDE DEF s, t
<1> DEFINE differ == {i \in DOMAIN s \cap DOMAIN t : s[i] # t[i]}
<1>3. PICK i \in differ : \A j \in differ : i <= j
  <2>1. differ # {} /\ differ \subseteq Nat
    BY <1>1, <1>2
  <2> HIDE DEF differ
  <2> QED BY <2>1, LeastOfNaturals
<1>4. i \in 1..Len(s) /\ i \in 1..Len(t) /\ s[i] # t[i]
  BY <1>1, <1>3
<1>5. \A j \in 1..(i - 1) : s[j] = t[j]
  <2> SUFFICES ASSUME NEW j \in 1..(i - 1), s[j] # t[j] PROVE FALSE
    OBVIOUS
  <2>1. j \in 1..Len(s) /\ j \in 1..Len(t) /\ j < i
    BY <1>1, <1>4
  <2>2. j \in differ
    BY <1>1, <2>1
  <2> QED BY <1>1, <1>3, <1>4, <2>1, <2>2
<1>6. s[i] < t[i] \/ t[i] < s[i]
  BY <1>1, <1>4
<1>7. SmallerText(s, t) \/ SmallerText(t, s)
  BY <1>1, <1>4, <1>5, <1>6 DEF SmallerText
<1> QED BY <1>7 DEF s, t

\* Character by character: nothing is smaller than itself, and the smaller of
\* the smaller is smaller.
LEMMA TextOrder ==
  ASSUME NEW s \in Seq(Nat), NEW t \in Seq(Nat), NEW u \in Seq(Nat)
  PROVE  /\ ~SmallerText(s, s)
         /\ SmallerText(s, t) /\ SmallerText(t, u) => SmallerText(s, u)
<1>1. /\ DOMAIN s = 1..Len(s) /\ DOMAIN t = 1..Len(t) /\ DOMAIN u = 1..Len(u)
      /\ Len(s) \in Nat /\ Len(t) \in Nat /\ Len(u) \in Nat
      /\ \A i \in 1..Len(s) : s[i] \in Nat
      /\ \A i \in 1..Len(t) : t[i] \in Nat
      /\ \A i \in 1..Len(u) : u[i] \in Nat
  BY LenProperties, ElementOfSeq
<1>2. ~SmallerText(s, s)
  BY <1>1 DEF SmallerText
<1>3. ASSUME SmallerText(s, t), SmallerText(t, u) PROVE SmallerText(s, u)
  <2>1. PICK i \in DOMAIN s \cap DOMAIN t : s[i] < t[i] /\ \A j \in 1..(i - 1) : s[j] = t[j]
    BY <1>3 DEF SmallerText
  <2>2. PICK h \in DOMAIN t \cap DOMAIN u : t[h] < u[h] /\ \A j \in 1..(h - 1) : t[j] = u[j]
    BY <1>3 DEF SmallerText
  <2>3. /\ i \in 1..Len(s) /\ i \in 1..Len(t) /\ h \in 1..Len(t) /\ h \in 1..Len(u)
        /\ i \in Nat /\ h \in Nat
    BY <1>1, <2>1, <2>2
  <2>4. CASE i < h
    <3>1. i \in 1..Len(u) /\ t[i] = u[i]
      BY <1>1, <2>2, <2>3, <2>4
    <3>2. \A j \in 1..(i - 1) : s[j] = u[j]
      <4>1. \A j \in 1..(i - 1) : j \in 1..(h - 1)
        BY <2>3, <2>4
      <4> QED BY <2>1, <2>2, <4>1
    <3> QED BY <1>1, <2>1, <2>3, <3>1, <3>2 DEF SmallerText
  <2>5. CASE i >= h
    <3>1. h \in 1..Len(s) /\ s[h] < u[h]
      <4>1. h \in 1..Len(s)
        BY <1>1, <2>3, <2>5
      <4>2. CASE h = i
        BY <1>1, <2>1, <2>2, <2>3, <4>1, <4>2
      <4>3. CASE h < i
        <5>1. h \in 1..(i - 1)
          BY <2>3, <4>3
        <5> QED BY <2>1, <2>2, <4>1, <5>1
      <4> QED BY <2>3, <2>5, <4>2, <4>3
    <3>2. \A j \in 1..(h - 1) : s[j] = u[j]
      <4>1. \A j \in 1..(h - 1) : j \in 1..(i - 1)
        BY <2>3, <2>5
      <4> QED BY <2>1, <2>2, <4>1
    <3> QED BY <1>1, <2>3, <3>1, <3>2 DEF SmallerText
  <2> QED BY <2>3, <2>4, <2>5
<1> QED BY <1>2, <1>3

\* Times as texts are in a strict total order, which is one of seconds first.
LEMMA TimeOrder ==
  ASSUME NEW s \in Time, NEW t \in Time, NEW u \in Time
  PROVE  /\ ~TextBefore(s, s)
         /\ TextBefore(s, t) /\ TextBefore(t, u) => TextBefore(s, u)
         /\ s = t \/ TextBefore(s, t) \/ TextBefore(t, s)
         /\ TextBefore(s, t) => s.sec <= t.sec
<1>1. /\ s.sec \in Int /\ t.sec \in Int /\ u.sec \in Int
      /\ s.digits \in Seq(0..9) /\ t.digits \in Seq(0..9) /\ u.digits \in Seq(0..9)
      /\ (s.sec = t.sec /\ s.digits = t.digits => s = t)
  BY DEF Time
<1>2. /\ Tail3339(s.digits) \in Seq(Nat) /\ Tail3339(t.digits) \in Seq(Nat)
      /\ Tail3339(u.digits) \in Seq(Nat)
  BY <1>1, TailIs
<1>3. ~TextBefore(s, s)
  BY <1>1, <1>2, TextOrder DEF TextBefore
<1>4. TextBefore(s, t) /\ TextBefore(t, u) => TextBefore(s, u)
  BY <1>1, <1>2, TextOrder DEF TextBefore
<1>5. s = t \/ TextBefore(s, t) \/ TextBefore(t, s)
  <2>1. CASE s.digits = t.digits
    BY <1>1, <2>1 DEF TextBefore
  <2>2. CASE s.digits # t.digits
    BY <1>1, <2>2, TailsDiffer DEF TextBefore
  <2> QED BY <2>1, <2>2
<1>6. TextBefore(s, t) => s.sec <= t.sec
  BY <1>1 DEF TextBefore
<1> QED BY <1>3, <1>4, <1>5, <1>6

----------------------------------------------------------------------------
(* The tables.                                                             *)

Job == [status : {"none", "pending", "processing", "done", "failed"}, attempts : 0..MaxAttempts]

\* How a handler stores a row.
Unprocessed(row) == /\ row.status \notin {"source_written", "failed"}
                    /\ row.authorized \/ row.status = "ignored"

\* Every message has its row of either table; who is not authorized is still
\* ignored or has got a job after all, and without a job nobody is processed.
RowsInv ==
  /\ rows \in Seq(Row) /\ Len(rows) <= MaxRows
  /\ jobs \in Seq(Job) /\ Len(jobs) = Len(rows)
  /\ \A id \in Ids : jobs[id] # NoJob \/ Unprocessed(rows[id])

\* The ids are finitely many, and each names a row.
LEMMA IdsFinite ==
  ASSUME RowsInv
  PROVE  /\ Ids = 1..Len(rows) /\ DOMAIN jobs = Ids /\ Len(rows) \in Nat
         /\ IsFiniteSet(Ids) /\ Cardinality(Ids) = Len(rows)
         /\ \A id \in Ids : rows[id] \in Row /\ rows[id].time \in Time /\ jobs[id] \in Job
<1>1. /\ Ids = 1..Len(rows) /\ DOMAIN jobs = Ids /\ Len(rows) \in Nat
      /\ \A id \in Ids : rows[id] \in Row /\ jobs[id] \in Job
  BY LenProperties, ElementOfSeq DEF RowsInv, Ids
<1>2. IsFiniteSet(1..Len(rows)) /\ Cardinality(1..Len(rows)) = Len(rows)
  <2> DEFINE n == Len(rows)
  <2>1. n \in Int /\ n >= 0 /\ 1 \in Int
    BY <1>1
  <2> HIDE DEF n
  <2>2. IsFiniteSet(1..n) /\ Cardinality(1..n) = IF 1 > n THEN 0 ELSE n - 1 + 1
    BY ONLY <2>1, FS_Interval
  <2>3. Cardinality(1..n) = n
    BY <2>1, <2>2
  <2> QED BY <2>2, <2>3 DEF n
<1> QED BY <1>1, <1>2 DEF Row

----------------------------------------------------------------------------
(* The order of the list, and ranks in it.                                 *)

\* Rows are listed in a strict total order, one of seconds first.
LEMMA ListOrder ==
  ASSUME RowsInv, NEW i \in Ids, NEW j \in Ids, NEW k \in Ids
  PROVE  /\ ~ListedBefore(i, i)
         /\ ListedBefore(i, j) /\ ListedBefore(j, k) => ListedBefore(i, k)
         /\ i = j \/ ListedBefore(i, j) \/ ListedBefore(j, i)
         /\ ListedBefore(i, j) => IF query.desc THEN rows[i].time.sec >= rows[j].time.sec
                                  ELSE rows[i].time.sec <= rows[j].time.sec
<1> DEFINE Earlier(a, b) == \/ TextBefore(rows[a].time, rows[b].time)
                            \/ rows[a].time = rows[b].time /\ a < b
<1>1. /\ i \in Nat /\ j \in Nat /\ k \in Nat
      /\ rows[i].time \in Time /\ rows[j].time \in Time /\ rows[k].time \in Time
  BY IdsFinite
<1>2. ASSUME NEW a \in Ids, NEW b \in Ids, NEW c \in Ids
      PROVE  /\ ~Earlier(a, a)
             /\ Earlier(a, b) /\ Earlier(b, c) => Earlier(a, c)
             /\ a = b \/ Earlier(a, b) \/ Earlier(b, a)
             /\ Earlier(a, b) => rows[a].time.sec <= rows[b].time.sec
  <2> DEFINE s == rows[a].time
             t == rows[b].time
             u == rows[c].time
  <2>1. /\ a \in Nat /\ b \in Nat /\ c \in Nat /\ s \in Time /\ t \in Time /\ u \in Time
    BY IdsFinite
  <2> HIDE DEF s, t, u
  <2>2. /\ ~TextBefore(s, s)
        /\ TextBefore(s, t) /\ TextBefore(t, u) => TextBefore(s, u)
        /\ s = t \/ TextBefore(s, t) \/ TextBefore(t, s)
        /\ TextBefore(s, t) => s.sec <= t.sec
    BY <2>1, TimeOrder
  <2>3. s.sec \in Int
    BY <2>1 DEF Time
  <2>4. /\ Earlier(a, b) <=> TextBefore(s, t) \/ (s = t /\ a < b)
        /\ Earlier(b, a) <=> TextBefore(t, s) \/ (t = s /\ b < a)
        /\ Earlier(b, c) <=> TextBefore(t, u) \/ (t = u /\ b < c)
        /\ Earlier(a, c) <=> TextBefore(s, u) \/ (s = u /\ a < c)
        /\ Earlier(a, a) <=> TextBefore(s, s) \/ (s = s /\ a < a)
        /\ rows[a].time.sec = s.sec /\ rows[b].time.sec = t.sec
    BY DEF s, t, u
  <2> HIDE DEF Earlier
  <2> QED BY <2>1, <2>2, <2>3, <2>4
<1>3. \A a, b \in Ids : ListedBefore(a, b) <=> IF query.desc THEN Earlier(b, a) ELSE Earlier(a, b)
  BY DEF ListedBefore
<1> HIDE DEF Earlier
<1>4. CASE query.desc
  <2>1. \A x, y \in Int : x <= y => y >= x
    OBVIOUS
  <2>2. rows[i].time.sec \in Int /\ rows[j].time.sec \in Int
    BY <1>1 DEF Time
  <2> QED BY <1>2, <1>3, <1>4, <2>1, <2>2
<1>5. CASE ~query.desc
  BY <1>2, <1>3, <1>5
<1> QED BY <1>4, <1>5

\* The list matches finitely many rows, each with fewer than all ahead of it.
LEMMA RankBounds ==
  ASSUME RowsInv
  PROVE  /\ Matching \subseteq Ids /\ IsFiniteSet(Matching)
         /\ Cardinality(Matching) \in Nat /\ Cardinality(Matching) <= Len(rows)
         /\ \A id \in Matching : /\ Rank(id) \in Nat /\ Rank(id) < Cardinality(Matching)
                                /\ IsFiniteSet({other \in Matching : ListedBefore(other, id)})
<1>1. Matching \subseteq Ids
  BY DEF Matching
<1>2. IsFiniteSet(Matching) /\ Cardinality(Matching) \in Nat /\ Cardinality(Matching) <= Len(rows)
  BY <1>1, IdsFinite, FS_Subset, FS_CardinalityType
<1>3. ASSUME NEW id \in Matching
      PROVE  /\ Rank(id) \in Nat /\ Rank(id) < Cardinality(Matching)
             /\ IsFiniteSet({other \in Matching : ListedBefore(other, id)})
  <2> DEFINE ahead == {other \in Matching : ListedBefore(other, id)}
  <2>1. id \notin ahead /\ ahead \subseteq Matching
    BY <1>1, ListOrder
  <2>2. Rank(id) = Cardinality(ahead)
    BY DEF Rank
  <2> HIDE DEF ahead
  <2>3. /\ IsFiniteSet(ahead) /\ Cardinality(ahead) <= Cardinality(Matching)
        /\ Cardinality(Matching) # Cardinality(ahead)
    BY <1>2, <1>3, <2>1, FS_Subset
  <2>4. Cardinality(ahead) \in Nat
    BY <2>3, FS_CardinalityType
  <2> QED BY <1>2, <2>2, <2>3, <2>4 DEF ahead
<1> QED BY <1>1, <1>2, <1>3

\* Whoever is listed before another has the smaller rank, and the other way round.
LEMMA RankOrder ==
  ASSUME RowsInv, NEW i \in Matching, NEW j \in Matching
  PROVE  /\ Rank(i) < Rank(j) <=> ListedBefore(i, j)
         /\ Rank(i) = Rank(j) => i = j
<1>1. Matching \subseteq Ids /\ i \in Ids /\ j \in Ids
  BY RankBounds
<1>2. ASSUME NEW a \in Matching, NEW b \in Matching, ListedBefore(a, b) PROVE Rank(a) < Rank(b)
  <2> DEFINE A == {other \in Matching : ListedBefore(other, a)}
             B == {other \in Matching : ListedBefore(other, b)}
  <2>1. A \subseteq B /\ a \in B /\ a \notin A
    BY <1>1, <1>2, ListOrder
  <2>2. /\ Rank(a) = Cardinality(A) /\ Rank(b) = Cardinality(B) /\ IsFiniteSet(B)
        /\ Rank(a) \in Nat /\ Rank(b) \in Nat
    BY RankBounds DEF Rank
  <2> HIDE DEF A, B
  <2>3. Cardinality(A) <= Cardinality(B) /\ Cardinality(B) # Cardinality(A)
    BY <2>1, <2>2, FS_Subset
  <2> QED BY <2>2, <2>3
<1>3. Rank(i) \in Nat /\ Rank(j) \in Nat
  BY RankBounds
<1>4. i = j \/ ListedBefore(i, j) \/ ListedBefore(j, i)
  BY <1>1, ListOrder
<1>5. ListedBefore(i, j) => Rank(i) < Rank(j)
  BY <1>2
<1>6. ListedBefore(j, i) => Rank(j) < Rank(i)
  BY <1>2
<1> QED BY <1>3, <1>4, <1>5, <1>6

\* Every rank is somebody's: the window of a page is filled.
LEMMA RowAtRank ==
  ASSUME RowsInv
  PROVE  /\ \A n \in 0..Cardinality(Matching) - 1 : RowAt(n) \in Matching /\ Rank(RowAt(n)) = n
         /\ \A id \in Matching : RowAt(Rank(id)) = id
<1> DEFINE c == Cardinality(Matching)
           f == [id \in Matching |-> Rank(id)]
<1>1. /\ c \in Nat /\ IsFiniteSet(Matching)
      /\ \A id \in Matching : Rank(id) \in Nat /\ Rank(id) < c
  BY RankBounds
<1>2. IsFiniteSet(0..c - 1) /\ Cardinality(0..c - 1) = c
  <2>1. c \in Nat /\ 0 \in Int /\ c - 1 \in Int
    BY <1>1
  <2> HIDE DEF c
  <2>2. IsFiniteSet(0..c - 1) /\ Cardinality(0..c - 1) = IF 0 > c - 1 THEN 0 ELSE c - 1 - 0 + 1
    BY ONLY <2>1, FS_Interval
  <2> QED BY <2>1, <2>2
<1>3. f \in [Matching -> 0..c - 1]
  BY <1>1
<1>4. \A i, j \in Matching : f[i] = f[j] => i = j
  BY RankOrder
<1>5. \A n \in 0..c - 1 : \E id \in Matching : f[id] = n
  <2> HIDE DEF f, c
  <2>1. f \in Injection(Matching, 0..c - 1)
    BY <1>3, <1>4 DEF Injection, IsInjective
  <2>2. f \in Surjection(Matching, 0..c - 1)
    BY <1>2, <2>1, FS_Injection DEF c
  <2> QED BY <2>2 DEF Surjection
<1>6. ASSUME NEW n \in 0..c - 1 PROVE RowAt(n) \in Matching /\ Rank(RowAt(n)) = n
  <2>1. \E id \in Matching : Rank(id) = n
    BY <1>5
  <2> QED BY <2>1 DEF RowAt
<1>7. ASSUME NEW id \in Matching PROVE RowAt(Rank(id)) = id
  <2>1. RowAt(Rank(id)) \in Matching /\ Rank(RowAt(Rank(id))) = Rank(id)
    BY DEF RowAt
  <2> QED BY <2>1, RankOrder
<1> QED BY <1>6, <1>7

----------------------------------------------------------------------------
(* The writers: what they never take back.                                 *)

Unauthorized == {id \in Ids : ~rows[id].authorized}

Write ==
  \/ \E row \in Arrivals : Arrive(row)
  \/ \E id \in Ids : \/ CreateJob(id) \/ Claim(id) \/ MarkWritten(id)
                     \/ EndJob(id) \/ FailMessage(id)

\* No row leaves or changes its time, type or sender, no job is lost, and no
\* attempt is uncounted.
Grows ==
  /\ Ids \subseteq Ids'
  /\ \A id \in Ids : /\ rows'[id].time = rows[id].time /\ rows'[id].type = rows[id].type
                     /\ rows'[id].authorized = rows[id].authorized
                     /\ jobs[id] # NoJob => jobs'[id] # NoJob
                     /\ jobs[id].attempts <= jobs'[id].attempts

\* A job is set: it is there afterwards, with at least the attempts it had.
LEMMA JobSet ==
  ASSUME RowsInv, NEW id \in Ids, NEW status, NEW attempts, SetJob(id, status, attempts), UNCHANGED rows,
         status \in {"pending", "processing", "done", "failed"},
         attempts \in 0..MaxAttempts, jobs[id].attempts <= attempts
  PROVE  RowsInv' /\ Grows
<1>1. /\ DOMAIN jobs = Ids /\ \A i \in Ids : jobs[i] \in Job
      /\ Ids' = Ids /\ Ids = 1..Len(rows) /\ Len(jobs) = Len(rows)
  BY IdsFinite DEF Ids, RowsInv
<1> DEFINE job == [status |-> status, attempts |-> attempts]
<1>2. job \in Job /\ job # NoJob /\ job.attempts = attempts
  BY DEF Job, NoJob
<1>3. jobs' = [jobs EXCEPT ![id] = job]
  BY DEF SetJob
<1> HIDE DEF job
<1>4. jobs' \in Seq(Job) /\ Len(jobs') = Len(jobs)
  BY <1>1, <1>2, <1>3, ExceptSeq DEF RowsInv
<1>5. \A i \in Ids : jobs'[i] = IF i = id THEN job ELSE jobs[i]
  BY <1>1, <1>3
<1>6. \A i \in Ids : jobs[i].attempts \in Nat /\ jobs[i].attempts <= jobs[i].attempts
  BY <1>1, DashboardAssumption DEF Job
<1>7. RowsInv'
  BY <1>1, <1>2, <1>4, <1>5 DEF RowsInv, Unprocessed
<1>8. Grows
  BY <1>1, <1>2, <1>5, <1>6 DEF Grows
<1> QED BY <1>7, <1>8

\* A message's status is set: nothing else of it changes.
LEMMA StatusSet ==
  ASSUME RowsInv, NEW id \in Ids, NEW status \in Status, UNCHANGED jobs,
         rows' = [rows EXCEPT ![id].status = status], jobs[id] # NoJob
  PROVE  RowsInv' /\ Grows
<1>1. /\ \A i \in Ids : rows[i] \in Row /\ jobs[i] \in Job
      /\ Ids = 1..Len(rows) /\ rows \in Seq(Row) /\ DOMAIN rows = Ids
  BY IdsFinite DEF Ids, RowsInv
<1> DEFINE row == [rows[id] EXCEPT !.status = status]
<1>2. /\ row \in Row /\ row.time = rows[id].time /\ row.type = rows[id].type
      /\ row.authorized = rows[id].authorized
  BY <1>1 DEF Row
<1>3. rows' = [rows EXCEPT ![id] = row]
  OBVIOUS
<1> HIDE DEF row
<1>4. rows' \in Seq(Row) /\ Len(rows') = Len(rows)
  BY <1>1, <1>2, <1>3, ExceptSeq
<1>5. Ids' = Ids
  BY <1>1, <1>3 DEF Ids
<1>6. \A i \in Ids : rows'[i] = IF i = id THEN row ELSE rows[i]
  BY <1>1, <1>3
<1>7. \A i \in Ids : jobs[i].attempts \in Nat /\ jobs[i].attempts <= jobs[i].attempts
  BY <1>1, DashboardAssumption DEF Job
<1>8. RowsInv'
  BY <1>2, <1>4, <1>5, <1>6 DEF RowsInv
<1>9. Grows
  BY <1>2, <1>5, <1>6, <1>7 DEF Grows
<1> QED BY <1>8, <1>9

\* Every writer keeps the tables, and takes nothing back.
LEMMA WriteGrows ==
  ASSUME RowsInv, Write
  PROVE  RowsInv' /\ Grows /\ Written
<1>1. ASSUME NEW row \in Arrivals, Arrive(row) PROVE RowsInv' /\ Grows
  <2>1. /\ row \in Row /\ Unprocessed(row) /\ NoJob \in Job
        /\ MaxRows \in Nat /\ MaxCounted <= MaxRows
    BY DashboardAssumption DEF NoJob, Job, Unprocessed
  <2>2. /\ Ids = 1..Len(rows) /\ Len(rows) \in Nat /\ Len(jobs) = Len(rows)
        /\ \A id \in Ids : rows[id] \in Row /\ jobs[id] \in Job
    BY IdsFinite DEF RowsInv
  <2>3. /\ rows' \in Seq(Row) /\ Len(rows') = Len(rows) + 1
        /\ \A id \in Ids : rows'[id] = rows[id]
        /\ rows'[Len(rows) + 1] = row
    BY <1>1, <2>1, <2>2, AppendProperties DEF Arrive, RowsInv
  <2>4. /\ jobs' \in Seq(Job) /\ Len(jobs') = Len(rows) + 1
        /\ \A id \in Ids : jobs'[id] = jobs[id]
        /\ jobs'[Len(rows) + 1] = NoJob
    BY <1>1, <2>1, <2>2, AppendProperties DEF Arrive, RowsInv
  <2>5. Ids' = Ids \cup {Len(rows) + 1}
    <3>1. DOMAIN rows' = 1..Len(rows) + 1
      BY <2>3, LenProperties
    <3> QED BY <2>2, <3>1 DEF Ids
  <2>6. Len(rows) + 1 <= MaxRows
    BY <1>1, <2>1, <2>2, DashboardAssumption DEF Arrive
  <2>7. \A id \in Ids : jobs[id].attempts \in Nat /\ jobs[id].attempts <= jobs[id].attempts
    BY <2>2, DashboardAssumption DEF Job
  <2>8. RowsInv'
    BY <2>1, <2>3, <2>4, <2>5, <2>6 DEF RowsInv
  <2> QED BY <2>3, <2>4, <2>5, <2>7, <2>8 DEF Grows
<1>2. ASSUME NEW id \in Ids, CreateJob(id) \/ Claim(id) \/ MarkWritten(id) \/ EndJob(id) \/ FailMessage(id)
      PROVE  RowsInv' /\ Grows
  <2>1. jobs[id] \in Job /\ rows[id] \in Row /\ jobs[id].attempts \in 0..MaxAttempts /\ MaxAttempts \in Nat
    BY IdsFinite, DashboardAssumption DEF Job
  <2>2. NoJob.status = "none"
    BY DEF NoJob
  <2>3. CASE CreateJob(id)
    <3>1. SetJob(id, "pending", 0) /\ UNCHANGED rows /\ jobs[id].attempts = 0
      BY <2>3 DEF CreateJob, NoJob
    <3> QED BY <2>1, <3>1, JobSet
  <2>4. CASE Claim(id)
    <3>1. SetJob(id, "processing", jobs[id].attempts + 1) /\ UNCHANGED rows /\ jobs[id].attempts < MaxAttempts
      BY <2>4 DEF Claim
    <3>2. jobs[id].attempts + 1 \in 0..MaxAttempts /\ jobs[id].attempts <= jobs[id].attempts + 1
      BY <2>1, <3>1
    <3> QED BY <3>1, <3>2, JobSet
  <2>5. CASE MarkWritten(id)
    <3>1. jobs[id] # NoJob /\ UNCHANGED jobs /\ rows' = [rows EXCEPT ![id].status = "source_written"]
      BY <2>2, <2>5 DEF MarkWritten
    <3>2. "source_written" \in Status
      BY DEF Status
    <3> QED BY <3>1, <3>2, StatusSet
  <2>6. CASE EndJob(id)
    <3>1. PICK status \in {"done", "pending", "failed"} : SetJob(id, status, jobs[id].attempts)
      BY <2>6 DEF EndJob
    <3>2. UNCHANGED rows
      BY <2>6 DEF EndJob
    <3>3. jobs[id].attempts <= jobs[id].attempts
      BY <2>1
    <3> QED BY <2>1, <3>1, <3>2, <3>3, JobSet
  <2>7. CASE FailMessage(id)
    <3>1. jobs[id] # NoJob /\ UNCHANGED jobs /\ rows' = [rows EXCEPT ![id].status = "failed"]
      BY <2>2, <2>7 DEF FailMessage
    <3>2. "failed" \in Status
      BY DEF Status
    <3> QED BY <3>1, <3>2, StatusSet
  <2> QED BY <1>2, <2>3, <2>4, <2>5, <2>6, <2>7
<1>3. Written
  BY DEF Write, Arrive, CreateJob, Claim, MarkWritten, EndJob, FailMessage
<1> QED BY <1>1, <1>2, <1>3 DEF Write

----------------------------------------------------------------------------
(* The walk.                                                               *)

\* Where the page being read starts in the list.
Start == (query.page - 1) * query.perPage

WalkedFilter == query.filter \in {"all", "type"}

\* Only a page that shows rows has a next one, so pages start within the
\* table or one page behind it; and of the rows owed none is listed before
\* the page to be read, nor on or before the one that was.
WalkInv ==
  /\ query \in [page : Nat \ {0}, perPage : 1..StoreMaxPerPage, desc : BOOLEAN,
                filter : Filters \cup {"all"}]
  /\ reader \in {"idle", "count", "rows", "page", "snapshot"}
  /\ Start \in Nat /\ query.page - 1 <= Start /\ Start < MaxRows + query.perPage
  /\ reader \in {"idle", "snapshot"} => page = <<>> /\ owed = {}
  /\ page \in Seq(Nat) /\ Len(page) <= query.perPage /\ Range(page) \subseteq Ids
  /\ owed \subseteq Ids
  /\ reader = "page" /\ page # <<>> => Start < MaxRows
  /\ ListedBySecond
  /\ WalkedFilter =>
       /\ owed \subseteq Matching
       /\ \A id \in owed : Rank(id) >= IF reader = "page" THEN Start + query.perPage ELSE Start
       /\ reader = "page" /\ page = <<>> => owed = {}

\* While rows arrive and change, those the walk matches still do, and none
\* moves towards the head of the list.
LEMMA RanksGrow ==
  ASSUME RowsInv, RowsInv', Grows, UNCHANGED query, WalkedFilter
  PROVE  /\ Matching \subseteq Matching'
         /\ \A id \in Matching : Rank(id) <= Rank(id)' /\ Rank(id)' \in Nat
<1>1. /\ Ids \subseteq Ids' /\ Matching \subseteq Ids
      /\ \A id \in Ids : rows'[id].time = rows[id].time /\ rows'[id].type = rows[id].type
  BY DEF Grows, Matching
<1>2. Matching \subseteq Matching'
  BY <1>1 DEF Matching, WalkedFilter
<1>3. \A i, j \in Ids : ListedBefore(i, j) => ListedBefore(i, j)'
  BY <1>1 DEF ListedBefore
<1>4. ASSUME NEW id \in Matching PROVE Rank(id) <= Rank(id)' /\ Rank(id)' \in Nat
  <2> DEFINE A == {other \in Matching : ListedBefore(other, id)}
             B == {other \in Matching' : ListedBefore(other, id)'}
  <2>1. A \subseteq B
    BY <1>1, <1>2, <1>3
  <2>2. IsFiniteSet(B) /\ Rank(id)' \in Nat
    <3>1. B \subseteq Ids'
      BY DEF Matching
    <3>2. IsFiniteSet(Ids')
      <4>1. Ids' = 1..Len(rows') /\ Len(rows') \in Nat
        BY LenProperties DEF RowsInv, Ids
      <4> QED BY <4>1, FS_Interval
    <3> HIDE DEF B
    <3>3. IsFiniteSet(B) /\ Cardinality(B) \in Nat
      BY <3>1, <3>2, FS_Subset, FS_CardinalityType
    <3> QED BY <3>3 DEF B, Rank
  <2>3. Rank(id) = Cardinality(A) /\ Rank(id)' = Cardinality(B)
    BY DEF Rank
  <2> HIDE DEF A, B
  <2> QED BY <2>1, <2>2, <2>3, FS_Subset
<1> QED BY <1>2, <1>4

\* The numbers of a walk: the next page starts where this one ends, and no
\* page's start overflows.
LEMMA PageNumbers ==
  ASSUME WalkInv
  PROVE  /\ query.page \in Nat \ {0} /\ query.perPage \in 1..StoreMaxPerPage /\ query.perPage \in Nat
         /\ Offset = Start
         /\ (query.page + 1 - 1) * query.perPage = Start + query.perPage
         /\ Start < MaxRows =>
              /\ AtLeastOne((query.page + 1) % Word) = query.page + 1
              /\ query.page + 1 - 1 <= Start + query.perPage
<1>1. /\ query.page \in Nat \ {0} /\ query.perPage \in 1..StoreMaxPerPage
      /\ Start \in Nat /\ query.page - 1 <= Start /\ Start < MaxRows + query.perPage
  BY DEF WalkInv
<1>2. /\ MaxRows \in Nat /\ StoreMaxPerPage \in Nat \ {0} /\ Word \in Nat /\ MaxRows + StoreMaxPerPage < Word
  BY DashboardAssumption
<1>3. \A n, w \in Nat : n < w => n % w = n
  OBVIOUS
<1>4. query.perPage \in Nat /\ query.perPage >= 1
  BY <1>1, <1>2
<1>5. Offset = Start
  <2>1. Start < Word
    BY <1>1, <1>2, <1>4
  <2> QED BY <1>1, <1>2, <1>3, <2>1 DEF Offset, Start
<1>6. (query.page + 1 - 1) * query.perPage = Start + query.perPage
  <2>1. \A a, b \in Int : (a + 1) * b = a * b + b
    OBVIOUS
  <2>2. query.page + 1 - 1 = (query.page - 1) + 1 /\ query.page - 1 \in Int /\ query.perPage \in Int
    BY <1>1, <1>4
  <2> QED BY <2>1, <2>2 DEF Start
<1>7. ASSUME Start < MaxRows
      PROVE  /\ AtLeastOne((query.page + 1) % Word) = query.page + 1
             /\ query.page + 1 - 1 <= Start + query.perPage
  <2>1. query.page + 1 < Word /\ query.page + 1 \in Nat /\ query.page + 1 - 1 <= Start + query.perPage
    BY <1>1, <1>2, <1>4, <1>7
  <2>2. (query.page + 1) % Word = query.page + 1
    BY <1>2, <1>3, <2>1
  <2> QED BY <1>1, <2>1, <2>2 DEF AtLeastOne
<1> QED BY <1>1, <1>4, <1>5, <1>6, <1>7

\* What is shown is in order, and what is owed stays owed, while rows change.
LEMMA WalkWritten ==
  ASSUME RowsInv, RowsInv', Grows, Written, WalkInv
  PROVE  WalkInv'
<1>1. UNCHANGED <<reader, query, page, owed>>
  BY DEF Written, walk
<1>2. Start' = Start /\ (WalkedFilter' <=> WalkedFilter)
  BY <1>1 DEF Start, WalkedFilter
<1>3. /\ Ids \subseteq Ids' /\ Range(page) \subseteq Ids
      /\ \A id \in Ids : rows'[id].time = rows[id].time
  BY DEF Grows, WalkInv
<1>4. ListedBySecond'
  <2>1. \A i \in DOMAIN page : page[i] \in Ids
    BY <1>3 DEF Range
  <2> QED BY <1>1, <1>3, <2>1 DEF ListedBySecond, WalkInv
<1>5. ASSUME WalkedFilter
      PROVE  /\ owed \subseteq Matching'
             /\ \A id \in owed : Rank(id)' >= IF reader = "page" THEN Start + query.perPage ELSE Start
             /\ reader = "page" /\ page = <<>> => owed = {}
  <2>1. /\ Matching \subseteq Matching'
        /\ \A id \in Matching : Rank(id) <= Rank(id)' /\ Rank(id)' \in Nat
    BY <1>1, <1>5, RanksGrow
  <2>2. \A id \in Matching : Rank(id) \in Nat
    BY RankBounds
  <2>3. /\ owed \subseteq Matching /\ (reader = "page" /\ page = <<>> => owed = {})
        /\ \A id \in owed : Rank(id) >= IF reader = "page" THEN Start + query.perPage ELSE Start
    BY <1>5 DEF WalkInv
  <2>4. Start \in Nat /\ query.perPage \in Nat
    BY PageNumbers DEF WalkInv
  <2>5. ASSUME NEW id \in owed
        PROVE  Rank(id)' >= IF reader = "page" THEN Start + query.perPage ELSE Start
    <3>1. /\ Rank(id) <= Rank(id)' /\ Rank(id)' \in Nat /\ Rank(id) \in Nat
          /\ Rank(id) >= IF reader = "page" THEN Start + query.perPage ELSE Start
      BY <2>1, <2>2, <2>3, <2>5
    <3> QED BY <2>4, <3>1
  <2> QED BY <2>1, <2>3, <2>5
<1> QED BY <1>1, <1>2, <1>3, <1>4, <1>5 DEF WalkInv

\* The page sizes asked for lie within the limits.
LEMMA PerPageBounds ==
  ASSUME NEW asked \in Asked
  PROVE  PerPage(asked) \in 1..StoreMaxPerPage
BY DashboardAssumption DEF PerPage, Clamp, Least, AtLeastOne

\* A walk begins, owing nothing yet; its first page owes every row it matches.
LEMMA WalkOpened ==
  ASSUME WalkInv, NEW asked \in Asked, NEW desc \in BOOLEAN, NEW filter \in Filters,
         OpenList(ViewKey, asked, desc, filter)
  PROVE  WalkInv'
<1>1. /\ query' = [page |-> 1, perPage |-> PerPage(asked), desc |-> desc, filter |-> filter]
      /\ reader = "idle" /\ reader' = "count" /\ UNCHANGED <<rows, jobs, page, owed>>
  BY DEF OpenList, tables
<1>2. /\ query' \in [page : Nat \ {0}, perPage : 1..StoreMaxPerPage, desc : BOOLEAN,
                     filter : Filters \cup {"all"}]
      /\ query'.page = 1 /\ query'.perPage \in 1..StoreMaxPerPage
  BY <1>1, PerPageBounds
<1>3. query'.perPage \in Nat /\ query'.perPage >= 1 /\ MaxRows \in Nat
  BY <1>2, DashboardAssumption
<1>4. Start' = 0
  <2>1. \A n \in Nat : (1 - 1) * n = 0
    OBVIOUS
  <2> QED BY <1>2, <1>3, <2>1 DEF Start
<1>5. page = <<>> /\ owed = {} /\ Len(<< >>) = 0 /\ DOMAIN << >> = {} /\ << >> \in Seq(Nat)
  BY <1>1 DEF WalkInv
<1>6. ListedBySecond' /\ Range(page)' = {}
  BY <1>1, <1>5 DEF ListedBySecond, Range
<1> QED BY <1>1, <1>2, <1>3, <1>4, <1>5, <1>6 DEF WalkInv

\* Counting sets what is owed, on the first page, and changes nothing else.
LEMMA WalkCounted ==
  ASSUME RowsInv, WalkInv, CountRows
  PROVE  WalkInv'
<1>1. /\ UNCHANGED <<rows, jobs, query, page>> /\ reader = "count" /\ reader' = "rows"
      /\ owed' = IF query.page = 1 THEN Matching ELSE owed
  BY DEF CountRows, tables
<1>2. /\ Start' = Start /\ (WalkedFilter' <=> WalkedFilter) /\ Ids' = Ids /\ Matching' = Matching
      /\ \A id : Rank(id)' = Rank(id)
  BY <1>1 DEF Start, WalkedFilter, Ids, Matching, Rank, ListedBefore
<1>3. ListedBySecond'
  BY <1>1 DEF ListedBySecond, WalkInv
<1>4. owed' \subseteq Ids
  BY <1>1, RankBounds DEF WalkInv
<1>5. WalkedFilter => owed' \subseteq Matching /\ \A id \in owed' : Rank(id) >= Start
  <2>1. CASE query.page = 1
    <3>1. Start = 0
      <4>1. \A n \in Nat : (1 - 1) * n = 0
        OBVIOUS
      <4> QED BY <2>1, <4>1, PageNumbers DEF Start
    <3>2. \A id \in Matching : Rank(id) >= 0
      <4>1. \A n \in Nat : n >= 0
        OBVIOUS
      <4> QED BY <4>1, RankBounds
    <3> QED BY <1>1, <2>1, <3>1, <3>2
  <2>2. CASE query.page # 1
    BY <1>1, <2>2 DEF WalkInv
  <2> QED BY <2>1, <2>2
<1> QED BY <1>1, <1>2, <1>3, <1>4, <1>5 DEF WalkInv

\* A page shows the rows of its window, so what is still owed comes after it.
LEMMA WalkRead ==
  ASSUME RowsInv, WalkInv, ReadRows
  PROVE  WalkInv'
<1> DEFINE c == Cardinality(Matching)
           n == Least(query.perPage, c - Start)
<1>1. /\ UNCHANGED <<rows, jobs, query>> /\ reader = "rows" /\ reader' = "page"
      /\ page' = [r \in 1..n |-> RowAt(Start + r - 1)]
      /\ owed' = owed \ Range(page')
  BY PageNumbers DEF ReadRows, tables
<1>2. /\ Start' = Start /\ (WalkedFilter' <=> WalkedFilter) /\ Ids' = Ids /\ Matching' = Matching
      /\ \A id : Rank(id)' = Rank(id)
  BY <1>1 DEF Start, WalkedFilter, Ids, Matching, Rank, ListedBefore
<1>3. /\ Start \in Nat /\ query.perPage \in Nat /\ query.perPage >= 1
      /\ c \in Nat /\ c <= Len(rows) /\ Len(rows) <= MaxRows /\ Len(rows) \in Nat /\ MaxRows \in Nat
      /\ Matching \subseteq Ids
      /\ \A id \in Matching : Rank(id) \in Nat /\ Rank(id) < c
      /\ Ids \subseteq Nat
  <2>1. Start \in Nat /\ query.perPage \in Nat /\ query.perPage \in 1..StoreMaxPerPage
    BY PageNumbers DEF WalkInv
  <2>2. query.perPage >= 1
    BY <2>1, DashboardAssumption
  <2>3. Len(rows) <= MaxRows /\ Len(rows) \in Nat /\ MaxRows \in Nat /\ Ids \subseteq Nat
    BY IdsFinite, DashboardAssumption DEF RowsInv
  <2> QED BY <2>1, <2>2, <2>3, RankBounds
<1>4. /\ n \in Int /\ n <= query.perPage /\ n <= c - Start
      /\ n = query.perPage \/ n = c - Start
  BY <1>3 DEF Least
<1> HIDE DEF n
<1>5. ASSUME NEW r \in 1..n
      PROVE  RowAt(Start + r - 1) \in Matching /\ Rank(RowAt(Start + r - 1)) = Start + r - 1
  <2>1. Start + r - 1 \in 0..c - 1
    BY <1>3, <1>4
  <2> QED BY <2>1, RowAtRank
<1> DEFINE N == IF n < 0 THEN 0 ELSE n
<1>6. /\ N \in Nat /\ 1..N = 1..n /\ N <= query.perPage
  <2>1. CASE n < 0
    BY <1>3, <1>4, <2>1
  <2>2. CASE ~(n < 0)
    BY <1>3, <1>4, <2>2
  <2> QED BY <2>1, <2>2
<1> HIDE DEF N
<1>7. /\ page' \in Seq(Nat) /\ Len(page') = N /\ DOMAIN page' = 1..n
      /\ \A r \in 1..n : page'[r] = RowAt(Start + r - 1)
  <2>1. page' \in [1..N -> Nat]
    BY <1>1, <1>3, <1>5, <1>6
  <2>2. page' \in Seq(Nat)
    BY <1>6, <2>1, SeqDef
  <2>3. Len(page') = N
    BY <1>6, <2>1, <2>2, LenProperties
  <2> QED BY <1>1, <2>2, <2>3
<1>8. Range(page') \subseteq Ids /\ owed' \subseteq Ids
  BY <1>1, <1>3, <1>5, <1>7 DEF Range, WalkInv
<1>9. page' # <<>> => Start < MaxRows
  <2> SUFFICES ASSUME page' # <<>> PROVE Start < MaxRows
    OBVIOUS
  <2>1. N # 0
    BY <1>7, EmptySeq
  <2>2. n >= 1
    BY <1>4, <2>1 DEF N
  <2> QED BY <1>3, <1>4, <2>2
<1>10. ListedBySecond'
  <2> SUFFICES ASSUME NEW i \in 1..n, NEW j \in 1..n, i < j
               PROVE  IF query.desc THEN rows[page'[i]].time.sec >= rows[page'[j]].time.sec
                      ELSE rows[page'[i]].time.sec <= rows[page'[j]].time.sec
    BY <1>1, <1>7 DEF ListedBySecond
  <2>1. /\ page'[i] \in Matching /\ Rank(page'[i]) = Start + i - 1
        /\ page'[j] \in Matching /\ Rank(page'[j]) = Start + j - 1
    BY <1>5, <1>7
  <2>2. Rank(page'[i]) < Rank(page'[j])
    BY <1>3, <1>4, <2>1
  <2>3. ListedBefore(page'[i], page'[j]) /\ page'[i] \in Ids /\ page'[j] \in Ids
    BY <1>3, <2>1, <2>2, RankOrder
  <2> QED BY <2>3, ListOrder
<1>11. ASSUME WalkedFilter
       PROVE  /\ owed' \subseteq Matching
              /\ \A id \in owed' : Rank(id) >= Start + query.perPage
              /\ page' = <<>> => owed' = {}
  <2>1. /\ owed' \subseteq Matching /\ owed' \subseteq owed
        /\ \A id \in owed : Rank(id) >= Start
    BY <1>1, <1>11 DEF WalkInv
  <2>2. ASSUME NEW id \in owed' PROVE Rank(id) >= Start + query.perPage
    <3> SUFFICES ASSUME ~(Rank(id) >= Start + query.perPage) PROVE FALSE
      OBVIOUS
    <3> DEFINE k == Rank(id)
               r == k - Start + 1
    <3>1. k \in Nat /\ k < c /\ k >= Start /\ RowAt(k) = id
      BY <1>3, <2>1, RowAtRank
    <3> HIDE DEF k
    <3>2. r \in 1..n /\ Start + r - 1 = k
      <4>1. k < Start + query.perPage
        BY <1>3, <3>1 DEF k
      <4> QED BY <1>3, <1>4, <3>1, <4>1
    <3>3. page'[r] = id /\ r \in DOMAIN page'
      BY <1>7, <3>1, <3>2
    <3>4. id \in Range(page')
      BY <3>3 DEF Range
    <3> QED BY <1>1, <3>4
  <2>3. ASSUME page' = <<>>, NEW id \in owed' PROVE FALSE
    <3>1. N = 0
      BY <1>7, <2>3, EmptySeq
    <3>2. c <= Start
      BY <1>3, <1>4, <3>1 DEF N
    <3> QED BY <1>3, <2>1, <2>2, <3>2
  <2> QED BY <2>1, <2>2, <2>3
<1> QED BY <1>1, <1>2, <1>6, <1>7, <1>8, <1>9, <1>10, <1>11 DEF WalkInv

\* The next page is asked for from one that shows rows.
LEMMA WalkFollowed ==
  ASSUME RowsInv, WalkInv, FollowNext
  PROVE  WalkInv'
<1>1. /\ UNCHANGED <<rows, jobs, page, owed>> /\ reader = "page" /\ reader' = "count"
      /\ page # <<>> /\ Start < MaxRows
      /\ query' = [query EXCEPT !.page = AtLeastOne((query.page + 1) % Word)]
  BY DEF FollowNext, tables, WalkInv
<1>2. /\ query.page + 1 \in Nat \ {0} /\ query.page + 1 - 1 <= Start + query.perPage
      /\ query' = [query EXCEPT !.page = query.page + 1]
  BY <1>1, PageNumbers
<1>3. /\ query' \in [page : Nat \ {0}, perPage : 1..StoreMaxPerPage, desc : BOOLEAN,
                     filter : Filters \cup {"all"}]
      /\ query'.page = query.page + 1 /\ query'.perPage = query.perPage
      /\ query'.desc = query.desc /\ query'.filter = query.filter
  BY <1>2 DEF WalkInv
<1>4. Start' = Start + query.perPage
  BY <1>3, PageNumbers DEF Start
<1>5. /\ (WalkedFilter' <=> WalkedFilter) /\ Ids' = Ids /\ Matching' = Matching
      /\ \A id : Rank(id)' = Rank(id)
  BY <1>1, <1>3 DEF WalkedFilter, Ids, Matching, Rank, ListedBefore
<1>6. ListedBySecond'
  BY <1>1, <1>3 DEF ListedBySecond, WalkInv
<1>7. /\ Start + query.perPage \in Nat /\ query'.page - 1 <= Start'
      /\ Start' < MaxRows + query.perPage
  <2>1. Start \in Nat /\ query.perPage \in Nat /\ query.page \in Nat /\ MaxRows \in Nat
    BY PageNumbers, DashboardAssumption DEF WalkInv
  <2>2. Start < MaxRows
    BY <1>1
  <2>3. query.page + 1 - 1 <= Start + query.perPage
    BY <1>2
  <2>4. query'.page - 1 = query.page + 1 - 1
    BY <1>3, <2>1
  <2> QED BY <1>4, <2>1, <2>2, <2>3, <2>4
<1> QED BY <1>1, <1>3, <1>4, <1>5, <1>6, <1>7 DEF WalkInv

\* A snapshot is no walk.
LEMMA WalkStays ==
  ASSUME WalkInv, StartSnapshot \/ NextStatement \/ UNCHANGED vars
  PROVE  WalkInv'
<1>1. /\ UNCHANGED <<rows, jobs, query, page, owed>>
      /\ \/ reader' = reader
         \/ reader = "idle" /\ reader' = "snapshot"
  BY DEF StartSnapshot, NextStatement, vars, tables, walk
<1>2. /\ Start' = Start /\ (WalkedFilter' <=> WalkedFilter) /\ Ids' = Ids /\ Matching' = Matching
      /\ \A id : Rank(id)' = Rank(id)
  BY <1>1 DEF Start, WalkedFilter, Ids, Matching, Rank, ListedBefore
<1>3. ListedBySecond'
  BY <1>1 DEF ListedBySecond, WalkInv
<1> QED BY <1>1, <1>2, <1>3 DEF WalkInv

----------------------------------------------------------------------------
(* Counting.                                                               *)

\* What a sum counts: one pair for each unit of each value.
Units(f) == UNION {{x} \X (1..f[x]) : x \in DOMAIN f}

\* The pairs, one by one.
LEMMA UnitsAre ==
  ASSUME NEW f
  PROVE  /\ SumOf(f) = Cardinality(Units(f))
         /\ \A p : p \in Units(f) <=> \E x \in DOMAIN f : \E n \in 1..f[x] : p = <<x, n>>
BY DEF SumOf, Units

\* A sum over more, of values no smaller, is no smaller.
LEMMA SumGrows ==
  ASSUME NEW f, NEW g, NEW N \in Nat, IsFiniteSet(DOMAIN g), DOMAIN f \subseteq DOMAIN g,
         \A x \in DOMAIN g : g[x] \in 0..N,
         \A x \in DOMAIN f : f[x] \in Nat /\ f[x] <= g[x]
  PROVE  SumOf(f) \in Nat /\ SumOf(g) \in Nat /\ SumOf(f) <= SumOf(g) /\ IsFiniteSet(Units(g))
<1>1. Units(f) \subseteq Units(g)
  <2> SUFFICES ASSUME NEW p \in Units(f) PROVE p \in Units(g)
    OBVIOUS
  <2>1. PICK x \in DOMAIN f : \E n \in 1..f[x] : p = <<x, n>>
    BY UnitsAre
  <2>2. PICK n \in 1..f[x] : p = <<x, n>>
    BY <2>1
  <2>3. x \in DOMAIN g /\ f[x] \in Nat /\ g[x] \in 0..N /\ f[x] <= g[x]
    OBVIOUS
  <2>4. n \in 1..g[x]
    BY <2>3
  <2> QED BY <2>2, <2>3, <2>4, UnitsAre
<1>2. Units(g) \subseteq (DOMAIN g) \X (1..N)
  <2> SUFFICES ASSUME NEW p \in Units(g) PROVE p \in (DOMAIN g) \X (1..N)
    OBVIOUS
  <2>1. PICK x \in DOMAIN g : \E n \in 1..g[x] : p = <<x, n>>
    BY UnitsAre
  <2>2. PICK n \in 1..g[x] : p = <<x, n>>
    BY <2>1
  <2>3. n \in 1..N
    OBVIOUS
  <2> QED BY <2>2, <2>3
<1>3. IsFiniteSet(1..N)
  BY FS_Interval
<1>4. IsFiniteSet((DOMAIN g) \X (1..N))
  BY <1>3, FS_Product
<1>5. IsFiniteSet(Units(g)) /\ IsFiniteSet(Units(f)) /\ Cardinality(Units(f)) <= Cardinality(Units(g))
  <2>1. IsFiniteSet(Units(g))
    BY <1>2, <1>4, FS_Subset
  <2> QED BY <1>1, <2>1, FS_Subset
<1>6. Cardinality(Units(f)) \in Nat /\ Cardinality(Units(g)) \in Nat
  BY <1>5, FS_CardinalityType
<1> QED BY <1>5, <1>6, UnitsAre

\* Not counting the first unit of each value loses at most as many as there are.
LEMMA SumWithoutFirst ==
  ASSUME NEW f, NEW g, NEW N \in Nat, IsFiniteSet(DOMAIN f), DOMAIN g = DOMAIN f,
         \A x \in DOMAIN f : f[x] \in 0..N /\ g[x] = AtLeastOne(f[x]) - 1
  PROVE  SumOf(f) \in Nat /\ SumOf(g) \in Nat /\ SumOf(f) <= SumOf(g) + Cardinality(DOMAIN f)
<1> DEFINE D     == DOMAIN f
           lasts == {<<x, f[x]>> : x \in D}
           last  == [x \in D |-> <<x, f[x]>>]
<1>1. \A x \in D : f[x] \in Nat /\ f[x] <= N /\ g[x] \in Nat /\ g[x] <= f[x] /\ g[x] >= f[x] - 1
  BY DEF AtLeastOne
<1>2. Units(f) \subseteq Units(g) \cup lasts
  <2> SUFFICES ASSUME NEW p \in Units(f), p \notin lasts PROVE p \in Units(g)
    OBVIOUS
  <2>1. PICK x \in D : \E n \in 1..f[x] : p = <<x, n>>
    BY UnitsAre
  <2>2. PICK n \in 1..f[x] : p = <<x, n>>
    BY <2>1
  <2>3. n # f[x]
    BY <2>2
  <2>4. n \in 1..g[x]
    BY <1>1, <2>3
  <2> QED BY <2>2, <2>4, UnitsAre
<1>3. /\ SumOf(f) \in Nat /\ SumOf(g) \in Nat
      /\ IsFiniteSet(Units(f)) /\ IsFiniteSet(Units(g))
  <2>1. \A x \in DOMAIN f : f[x] \in 0..N /\ g[x] \in 0..N
    BY <1>1
  <2>2. \A x \in DOMAIN f : f[x] \in Nat /\ g[x] \in Nat /\ f[x] <= f[x] /\ g[x] <= g[x]
    BY <1>1
  <2>3. SumOf(f) \in Nat /\ IsFiniteSet(Units(f))
    BY <2>1, <2>2, SumGrows
  <2>4. SumOf(g) \in Nat /\ IsFiniteSet(Units(g))
    BY <2>1, <2>2, SumGrows
  <2> QED BY <2>3, <2>4
<1>4. IsFiniteSet(lasts) /\ Cardinality(lasts) <= Cardinality(D)
  <2>1. last \in Surjection(D, lasts)
    BY DEF Surjection
  <2> HIDE DEF lasts, last
  <2> QED BY <2>1, FS_Surjection
<1>5. Cardinality(lasts) \in Nat /\ Cardinality(D) \in Nat
  BY <1>4, FS_CardinalityType
<1> HIDE DEF lasts, last
<1> DEFINE U == Units(g) \cup lasts
           B == Units(g) \cap lasts
<1>6. /\ IsFiniteSet(U) /\ Cardinality(U) = Cardinality(Units(g)) + Cardinality(lasts) - Cardinality(B)
      /\ Cardinality(B) \in Nat
  <2>1. IsFiniteSet(B)
    BY <1>3, FS_Intersection
  <2> QED BY <1>3, <1>4, <2>1, FS_Union, FS_CardinalityType
<1>7. Cardinality(Units(f)) <= Cardinality(U)
  BY <1>2, <1>6, FS_Subset
<1>8. SumOf(f) = Cardinality(Units(f)) /\ SumOf(g) = Cardinality(Units(g))
  BY UnitsAre
<1> HIDE DEF U, B
<1> QED BY <1>3, <1>4, <1>5, <1>6, <1>7, <1>8

\* The groups of a GROUP BY add up to what was grouped.
LEMMA GroupsAddUp ==
  ASSUME NEW label, IsFiniteSet(DOMAIN label)
  PROVE  SumOf(Grouped(label)) = Cardinality(DOMAIN label)
<1> DEFINE D    == DOMAIN label
           G(l) == {id \in D : label[id] = l}
           L    == Range(label)
           g    == Grouped(label)
           b    == [l \in L |-> CHOOSE f : f \in Bijection(1..Cardinality(G(l)), G(l))]
           P    == Units(g)
           h    == [p \in P |-> b[p[1]][p[2]]]
<1>1. DOMAIN g = L /\ \A l \in L : g[l] = Cardinality(G(l))
  BY DEF Grouped
<1>2. ASSUME NEW l \in L
      PROVE  b[l] \in Bijection(1..g[l], G(l))
  <2>1. IsFiniteSet(G(l))
    BY FS_Subset
  <2>2. ExistsBijection(1..Cardinality(G(l)), G(l))
    BY <2>1, FS_CardinalityType
  <2> QED BY <1>1, <2>2 DEF ExistsBijection
<1>3. ASSUME NEW l \in L
      PROVE  /\ b[l] \in [1..g[l] -> G(l)]
             /\ \A m, n \in 1..g[l] : b[l][m] = b[l][n] => m = n
             /\ \A id \in G(l) : \E n \in 1..g[l] : b[l][n] = id
  <2>1. b[l] \in Bijection(1..g[l], G(l))
    BY <1>2
  <2> HIDE DEF b, g, G
  <2> QED BY <2>1 DEF Bijection, Injection, Surjection, IsInjective
<1>4. \A p \in P : p[1] \in L /\ p[2] \in 1..g[p[1]] /\ p = <<p[1], p[2]>>
  BY <1>1, UnitsAre
<1> HIDE DEF b, g, P
<1>5. \A l \in L : \A n \in 1..g[l] : b[l][n] \in D /\ label[b[l][n]] = l
  <2> SUFFICES ASSUME NEW l \in L, NEW n \in 1..g[l] PROVE b[l][n] \in G(l)
    OBVIOUS
  <2> HIDE DEF G
  <2>1. b[l] \in [1..g[l] -> G(l)]
    BY <1>3
  <2> QED BY <2>1
<1>6. \A l \in L : \A m, n \in 1..g[l] : b[l][m] = b[l][n] => m = n
  BY <1>3
<1>7. \A id \in D : \E n \in 1..g[label[id]] : b[label[id]][n] = id
  <2> SUFFICES ASSUME NEW id \in D PROVE \E n \in 1..g[label[id]] : b[label[id]][n] = id
    OBVIOUS
  <2>1. label[id] \in L /\ id \in G(label[id])
    BY DEF Range
  <2>2. PICK l \in L : l = label[id]
    BY <2>1
  <2>3. \A i \in G(l) : \E n \in 1..g[l] : b[l][n] = i
    <3> HIDE DEF G, L, D
    <3> QED BY <1>3
  <2>4. id \in G(l)
    BY <2>1, <2>2
  <2>5. \E n \in 1..g[l] : b[l][n] = id
    <3> HIDE DEF G
    <3> QED BY <2>3, <2>4
  <2> QED BY <2>2, <2>5
<1> HIDE DEF G
<1>8. h \in [P -> D]
  <2>1. ASSUME NEW p \in P PROVE b[p[1]][p[2]] \in D
    BY <1>4, <1>5
  <2> QED BY <2>1
<1>9. ASSUME NEW p \in P, NEW q \in P, h[p] = h[q] PROVE p = q
  <2>1. label[h[p]] = p[1] /\ label[h[q]] = q[1]
    BY <1>4, <1>5
  <2>2. p[1] = q[1]
    BY <1>9, <2>1
  <2>3. b[p[1]][p[2]] = b[p[1]][q[2]] /\ p[2] \in 1..g[p[1]] /\ q[2] \in 1..g[p[1]]
    BY <1>4, <1>9, <2>2
  <2>4. p[2] = q[2]
    BY <1>4, <1>6, <2>3
  <2> QED BY <1>4, <2>2, <2>4
<1>10. ASSUME NEW id \in D PROVE \E p \in P : h[p] = id
  <2> DEFINE l == label[id]
  <2>1. l \in L
    BY DEF Range
  <2>2. PICK n \in 1..g[l] : b[l][n] = id
    BY <1>7
  <2>3. <<l, n>> \in P
    BY <1>1, <2>1, <2>2, UnitsAre DEF P
  <2>4. h[<<l, n>>] = id
    BY <2>2, <2>3
  <2> QED BY <2>3, <2>4
<1> HIDE DEF h, D
<1>11. h \in Injection(P, D)
  BY <1>8, <1>9 DEF Injection, IsInjective
<1>12. h \in Surjection(P, D)
  BY <1>8, <1>10 DEF Surjection
<1>13. Cardinality(P) = Cardinality(D)
  BY <1>11, <1>12, FS_Injection DEF D
<1> QED BY <1>13, UnitsAre DEF P, g, D

----------------------------------------------------------------------------
(* The snapshot.                                                           *)

Attempts == SumOf([id \in HasJob |-> jobs[id].attempts])

\* How many ignored, and how many processed messages a reading by status found.
Ignored(byStatus) == Counted(byStatus, "ignored")
Processed(byStatus) == Counted(byStatus, "source_written") + Counted(byStatus, "failed")

\* What the reading by status leaves over, jobs make up for.
ByStatusBounded(withJob) ==
  /\ Ignored(snapshot[6]) \in Nat /\ Processed(snapshot[6]) \in Nat
  /\ snapshot[1] <= snapshot[2] + Ignored(snapshot[6]) + withJob
  /\ Processed(snapshot[6]) <= withJob

\* Each reading is bounded by what there is now, or by a later reading, as far
\* as what it counts only grows.
SnapshotInv ==
  /\ snapshot \in Seq(Range(snapshot)) /\ Len(snapshot) <= 8
  /\ Len(snapshot) >= 1 => snapshot[1] \in Nat /\ snapshot[1] <= Cardinality(Ids)
  /\ Len(snapshot) >= 2 => snapshot[2] \in Nat /\ snapshot[1] <= snapshot[2] + Cardinality(Unauthorized)
  /\ Len(snapshot) >= 3 => snapshot[3] \in Nat /\ snapshot[3] <= Cardinality(HasJob)
  /\ Len(snapshot) >= 4 => snapshot[4] \in Nat /\ snapshot[4] <= Attempts
  /\ Len(snapshot) >= 5 => snapshot[5] \in Nat /\ snapshot[4] <= snapshot[5] + Cardinality(HasJob)
  /\ Len(snapshot) >= 6 =>
       /\ SumOf(snapshot[6]) \in Nat /\ SumOf(snapshot[6]) <= Cardinality(Ids)
       /\ snapshot[1] <= SumOf(snapshot[6])
       /\ ByStatusBounded(Cardinality(HasJob))
  /\ Len(snapshot) >= 7 => SumOf(snapshot[7]) \in Nat /\ SumOf(snapshot[6]) <= SumOf(snapshot[7])
  /\ Len(snapshot) >= 8 =>
       /\ SumOf(snapshot[8]) \in Nat /\ snapshot[3] <= SumOf(snapshot[8])
       /\ snapshot[4] <= snapshot[5] + SumOf(snapshot[8])
       /\ ByStatusBounded(SumOf(snapshot[8]))

\* A line of a grouped reading counts what it names, and a missing one nothing.
LEMMA LinesCount ==
  ASSUME NEW label, NEW l, IsFiniteSet(DOMAIN label)
  PROVE  Counted(Grouped(label), l) = Cardinality({id \in DOMAIN label : label[id] = l})
<1> DEFINE L == {id \in DOMAIN label : label[id] = l}
<1>1. /\ DOMAIN Grouped(label) = Range(label)
      /\ l \in Range(label) => Grouped(label)[l] = Cardinality(L)
  BY DEF Grouped
<1>2. L # {} => l \in Range(label)
  BY DEF Range
<1> HIDE DEF L
<1>3. CASE l \in Range(label)
  BY <1>1, <1>3 DEF Counted, L
<1>4. CASE l \notin Range(label)
  <2>1. L = {} /\ Cardinality(L) = 0
    BY <1>2, <1>4, FS_EmptySet
  <2>2. Counted(Grouped(label), l) = 0
    BY <1>1, <1>4 DEF Counted
  <2> QED BY <2>1, <2>2 DEF L
<1> QED BY <1>3, <1>4

\* What the statements count, at any one moment.
LEMMA CountsNow ==
  ASSUME RowsInv
  PROVE  /\ Cardinality(Ids) \in Nat /\ Cardinality(Unauthorized) \in Nat
         /\ Cardinality(HasJob) \in Nat /\ Attempts \in Nat
         /\ Reading("total") = Cardinality(Ids)
         /\ Reading("authorized") \in Nat
         /\ Cardinality(Ids) = Reading("authorized") + Cardinality(Unauthorized)
         /\ Reading("jobs") = Cardinality(HasJob) /\ Reading("attempts") = Attempts
         /\ Reading("retries") \in Nat /\ Attempts <= Reading("retries") + Cardinality(HasJob)
         /\ SumOf(Reading("by_status")) = Cardinality(Ids)
         /\ Ignored(Reading("by_status")) \in Nat /\ Processed(Reading("by_status")) \in Nat
         /\ Cardinality(Unauthorized) <= Ignored(Reading("by_status")) + Cardinality(HasJob)
         /\ Processed(Reading("by_status")) <= Cardinality(HasJob)
         /\ SumOf(Reading("by_type")) = Cardinality(Ids)
         /\ SumOf(Reading("jobs_by_status")) = Cardinality(HasJob)
<1>1. /\ IsFiniteSet(Ids) /\ Cardinality(Ids) \in Nat
      /\ Unauthorized \subseteq Ids /\ HasJob \subseteq Ids
      /\ \A id \in Ids : jobs[id].attempts \in 0..MaxAttempts
  BY IdsFinite, FS_CardinalityType DEF Unauthorized, HasJob, Job
<1>2. /\ IsFiniteSet(Unauthorized) /\ Cardinality(Unauthorized) \in Nat
      /\ IsFiniteSet(HasJob) /\ Cardinality(HasJob) \in Nat
  BY <1>1, FS_Subset, FS_CardinalityType
<1>3. /\ Reading("total") = Cardinality(Ids)
      /\ Reading("authorized") = Cardinality({id \in Ids : rows[id].authorized})
      /\ Reading("jobs") = Cardinality(HasJob)
      /\ Reading("attempts") = Attempts
      /\ Reading("retries") = SumOf([id \in HasJob |-> AtLeastOne(jobs[id].attempts) - 1])
      /\ Reading("by_status") = Grouped([id \in Ids |-> rows[id].status])
      /\ Reading("by_type") = Grouped([id \in Ids |-> rows[id].type])
      /\ Reading("jobs_by_status") = Grouped([id \in HasJob |-> jobs[id].status])
  BY DEF Reading, Attempts
<1>4. /\ Reading("authorized") \in Nat
      /\ Cardinality(Ids) = Reading("authorized") + Cardinality(Unauthorized)
  <2> DEFINE A == {id \in Ids : rows[id].authorized}
  <2>1. A \subseteq Ids /\ Unauthorized = Ids \ A /\ Ids \cap A = A
    BY DEF Unauthorized
  <2> HIDE DEF A
  <2>2. IsFiniteSet(A) /\ Cardinality(A) \in Nat
    BY <1>1, <2>1, FS_Subset, FS_CardinalityType
  <2>3. Cardinality(Ids \ A) = Cardinality(Ids) - Cardinality(Ids \cap A)
    BY <1>1, FS_Difference
  <2>4. Reading("authorized") = Cardinality(A)
    BY <1>3 DEF A
  <2>5. Cardinality(Unauthorized) = Cardinality(Ids) - Cardinality(A)
    BY <2>1, <2>3
  <2> QED BY <1>1, <2>2, <2>4, <2>5
<1>5. /\ Attempts \in Nat /\ Reading("retries") \in Nat
      /\ Attempts <= Reading("retries") + Cardinality(HasJob)
  <2> DEFINE f == [id \in HasJob |-> jobs[id].attempts]
             g == [id \in HasJob |-> AtLeastOne(jobs[id].attempts) - 1]
  <2>1. /\ DOMAIN f = HasJob /\ DOMAIN g = HasJob
        /\ \A id \in HasJob : f[id] \in 0..MaxAttempts /\ g[id] = AtLeastOne(f[id]) - 1
    BY <1>1
  <2>2. Attempts = SumOf(f) /\ Reading("retries") = SumOf(g)
    BY <1>3 DEF Attempts
  <2>3. MaxAttempts \in Nat
    BY DashboardAssumption
  <2> HIDE DEF f, g
  <2>4. SumOf(f) \in Nat /\ SumOf(g) \in Nat /\ SumOf(f) <= SumOf(g) + Cardinality(DOMAIN f)
    <3>1. IsFiniteSet(DOMAIN f) /\ DOMAIN g = DOMAIN f
      BY <1>2, <2>1
    <3>2. \A x \in DOMAIN f : f[x] \in 0..MaxAttempts /\ g[x] = AtLeastOne(f[x]) - 1
      BY <2>1
    <3> QED BY <2>3, <3>1, <3>2, SumWithoutFirst
  <2> QED BY <2>1, <2>2, <2>4
<1>6. /\ SumOf(Reading("by_status")) = Cardinality(Ids)
      /\ SumOf(Reading("by_type")) = Cardinality(Ids)
      /\ SumOf(Reading("jobs_by_status")) = Cardinality(HasJob)
  <2>1. ASSUME NEW D, IsFiniteSet(D), NEW f, DOMAIN f = D
        PROVE  SumOf(Grouped(f)) = Cardinality(D)
    BY <2>1, GroupsAddUp
  <2>2. /\ DOMAIN [id \in Ids |-> rows[id].status] = Ids
        /\ DOMAIN [id \in Ids |-> rows[id].type] = Ids
        /\ DOMAIN [id \in HasJob |-> jobs[id].status] = HasJob
    OBVIOUS
  <2>3. SumOf(Grouped([id \in Ids |-> rows[id].status])) = Cardinality(Ids)
    BY <1>1, <2>1, <2>2
  <2>4. SumOf(Grouped([id \in Ids |-> rows[id].type])) = Cardinality(Ids)
    BY <1>1, <2>1, <2>2
  <2>5. SumOf(Grouped([id \in HasJob |-> jobs[id].status])) = Cardinality(HasJob)
    BY <1>2, <2>1, <2>2
  <2> QED BY <1>3, <2>3, <2>4, <2>5
<1>7. /\ Ignored(Reading("by_status")) \in Nat /\ Processed(Reading("by_status")) \in Nat
      /\ Cardinality(Unauthorized) <= Ignored(Reading("by_status")) + Cardinality(HasJob)
      /\ Processed(Reading("by_status")) <= Cardinality(HasJob)
  <2> DEFINE label  == [id \in Ids |-> rows[id].status]
             In(l)  == {id \in Ids : rows[id].status = l}
  <2>1. DOMAIN label = Ids /\ \A l : {id \in DOMAIN label : label[id] = l} = In(l)
    OBVIOUS
  <2>2. Reading("by_status") = Grouped(label)
    BY <1>3
  <2> HIDE DEF label
  <2>3. \A l : Counted(Reading("by_status"), l) = Cardinality(In(l))
    BY <1>1, <2>1, <2>2, LinesCount
  <2>4. /\ In("ignored") \subseteq Ids /\ In("source_written") \subseteq Ids /\ In("failed") \subseteq Ids
        /\ In("source_written") \cap In("failed") = {}
        /\ In("source_written") \cup In("failed") \subseteq HasJob
        /\ Unauthorized \subseteq In("ignored") \cup HasJob
    BY DEF Unauthorized, HasJob, RowsInv, Unprocessed
  <2> DEFINE I == In("ignored")
             W == In("source_written")
             F == In("failed")
  <2>5. /\ Ignored(Reading("by_status")) = Cardinality(I)
        /\ Processed(Reading("by_status")) = Cardinality(W) + Cardinality(F)
    BY <2>3 DEF Ignored, Processed
  <2> HIDE DEF I, W, F
  <2>6. /\ I \subseteq Ids /\ W \subseteq Ids /\ F \subseteq Ids /\ W \cap F = {}
        /\ W \cup F \subseteq HasJob /\ Unauthorized \subseteq I \cup HasJob
    BY <2>4 DEF I, W, F
  <2>7. /\ IsFiniteSet(I) /\ Cardinality(I) \in Nat
        /\ IsFiniteSet(W) /\ Cardinality(W) \in Nat
        /\ IsFiniteSet(F) /\ Cardinality(F) \in Nat
    BY <1>1, <2>6, FS_Subset, FS_CardinalityType
  <2>8. Cardinality(Unauthorized) <= Cardinality(I) + Cardinality(HasJob)
    <3>1. /\ IsFiniteSet(I \cup HasJob)
          /\ Cardinality(I \cup HasJob) = Cardinality(I) + Cardinality(HasJob) - Cardinality(I \cap HasJob)
      BY <1>2, <2>7, FS_Union
    <3>2. Cardinality(I \cap HasJob) \in Nat
      BY <2>7, FS_Intersection, FS_CardinalityType
    <3>3. Cardinality(Unauthorized) <= Cardinality(I \cup HasJob)
      BY <2>6, <3>1, FS_Subset
    <3> QED BY <1>2, <2>7, <3>1, <3>2, <3>3
  <2>9. Cardinality(W) + Cardinality(F) <= Cardinality(HasJob)
    <3>1. Cardinality(W \cup F) = Cardinality(W) + Cardinality(F) - Cardinality(W \cap F)
      BY <2>7, FS_Union
    <3>2. Cardinality(W \cap F) = 0
      BY <2>6, FS_EmptySet
    <3>3. Cardinality(W \cup F) <= Cardinality(HasJob)
      BY <1>2, <2>6, FS_Subset
    <3> QED BY <2>7, <3>1, <3>2, <3>3
  <2> QED BY <2>5, <2>7, <2>8, <2>9
<1> QED BY <1>1, <1>2, <1>3, <1>4, <1>5, <1>6, <1>7

\* What the invariant compares the readings with only grows.
LEMMA CountsGrow ==
  ASSUME RowsInv, RowsInv', Grows
  PROVE  /\ Cardinality(Ids)' \in Nat /\ Cardinality(Ids) <= Cardinality(Ids)'
         /\ Cardinality(Unauthorized)' \in Nat /\ Cardinality(Unauthorized) <= Cardinality(Unauthorized)'
         /\ Cardinality(HasJob)' \in Nat /\ Cardinality(HasJob) <= Cardinality(HasJob)'
         /\ Attempts' \in Nat /\ Attempts <= Attempts'
<1>1. /\ Ids \subseteq Ids' /\ Unauthorized \subseteq Unauthorized' /\ HasJob \subseteq HasJob'
      /\ \A id \in Ids : jobs[id].attempts <= jobs'[id].attempts
  BY DEF Grows, Unauthorized, HasJob
<1>2. IsFiniteSet(Ids') /\ Unauthorized' \subseteq Ids' /\ HasJob' \subseteq Ids'
  <2>1. Ids' = 1..Len(rows') /\ Len(rows') \in Nat
    BY LenProperties DEF RowsInv, Ids
  <2>2. IsFiniteSet(Ids')
    BY <2>1, FS_Interval
  <2> QED BY <2>2 DEF Unauthorized, HasJob
<1>3. \A id \in Ids' : jobs'[id].attempts \in 0..MaxAttempts
  <2>1. /\ jobs' \in Seq(Job) /\ Len(jobs') = Len(rows') /\ Ids' = 1..Len(rows')
    BY LenProperties DEF RowsInv, Ids
  <2>2. \A id \in Ids' : jobs'[id] \in Job
    BY <2>1, ElementOfSeq
  <2> QED BY <2>2 DEF Job
<1>4. IsFiniteSet(Unauthorized') /\ IsFiniteSet(HasJob')
  BY <1>2, FS_Subset
<1>5. /\ Cardinality(Ids') \in Nat /\ Cardinality(Ids) <= Cardinality(Ids')
      /\ Cardinality(Unauthorized') \in Nat /\ Cardinality(Unauthorized) <= Cardinality(Unauthorized')
      /\ Cardinality(HasJob') \in Nat /\ Cardinality(HasJob) <= Cardinality(HasJob')
  BY <1>1, <1>2, <1>4, FS_Subset, FS_CardinalityType
<1>6. Attempts' \in Nat /\ Attempts <= Attempts'
  <2> DEFINE f == [id \in HasJob |-> jobs[id].attempts]
             g == [id \in HasJob' |-> jobs'[id].attempts]
  <2>1. HasJob \subseteq Ids /\ \A id \in Ids : jobs[id].attempts \in Nat
    BY IdsFinite, DashboardAssumption DEF HasJob, Job
  <2>2. /\ IsFiniteSet(DOMAIN g) /\ DOMAIN f \subseteq DOMAIN g
        /\ \A id \in DOMAIN g : g[id] \in 0..MaxAttempts
        /\ \A id \in DOMAIN f : f[id] \in Nat /\ f[id] <= g[id]
    BY <1>1, <1>2, <1>3, <1>4, <2>1
  <2>3. Attempts = SumOf(f) /\ Attempts' = SumOf(g)
    BY DEF Attempts, SumOf
  <2>4. MaxAttempts \in Nat
    BY DashboardAssumption
  <2> HIDE DEF f, g
  <2> QED BY <2>2, <2>3, <2>4, SumGrows
<1> QED BY <1>5, <1>6

\* So the bounds of the readings taken hold on while rows change.
LEMMA SnapshotWritten ==
  ASSUME RowsInv, RowsInv', Grows, UNCHANGED snapshot, SnapshotInv
  PROVE  SnapshotInv'
<1>1. /\ Cardinality(Ids) \in Nat /\ Cardinality(Unauthorized) \in Nat
      /\ Cardinality(HasJob) \in Nat /\ Attempts \in Nat
  BY CountsNow
<1>2. /\ Cardinality(Ids)' \in Nat /\ Cardinality(Ids) <= Cardinality(Ids)'
      /\ Cardinality(Unauthorized)' \in Nat /\ Cardinality(Unauthorized) <= Cardinality(Unauthorized)'
      /\ Cardinality(HasJob)' \in Nat /\ Cardinality(HasJob) <= Cardinality(HasJob)'
      /\ Attempts' \in Nat /\ Attempts <= Attempts'
  BY CountsGrow
<1>3. Len(snapshot) \in Nat
  BY LenProperties DEF SnapshotInv
<1>4. /\ snapshot' = snapshot /\ SumOf(snapshot[6])' = SumOf(snapshot[6]) /\ SumOf(snapshot[7])' = SumOf(snapshot[7])
      /\ SumOf(snapshot[8])' = SumOf(snapshot[8]) /\ Ignored(snapshot[6])' = Ignored(snapshot[6])
      /\ Processed(snapshot[6])' = Processed(snapshot[6])
  BY DEF SumOf, Ignored, Processed, Counted
<1>5. Len(snapshot) >= 1 => snapshot[1] \in Nat /\ snapshot[1] <= Cardinality(Ids)'
  <2>1. Len(snapshot) >= 1 => snapshot[1] \in Nat /\ snapshot[1] <= Cardinality(Ids)
    BY DEF SnapshotInv
  <2> QED BY <1>1, <1>2, <2>1
<1>6. Len(snapshot) >= 2 => snapshot[2] \in Nat /\ snapshot[1] <= snapshot[2] + Cardinality(Unauthorized)'
  <2> SUFFICES ASSUME Len(snapshot) >= 2
               PROVE  snapshot[2] \in Nat /\ snapshot[1] <= snapshot[2] + Cardinality(Unauthorized)'
    OBVIOUS
  <2>1. /\ snapshot[1] \in Nat /\ snapshot[2] \in Nat
        /\ snapshot[1] <= snapshot[2] + Cardinality(Unauthorized)
    <3>1. Len(snapshot) >= 1
      BY <1>3
    <3> QED BY <3>1 DEF SnapshotInv
  <2>2. /\ Cardinality(Unauthorized) \in Nat /\ Cardinality(Unauthorized)' \in Nat
        /\ Cardinality(Unauthorized) <= Cardinality(Unauthorized)'
    BY <1>1, <1>2
  <2> QED BY <2>1, <2>2
<1>7. Len(snapshot) >= 3 => snapshot[3] \in Nat /\ snapshot[3] <= Cardinality(HasJob)'
  <2>1. Len(snapshot) >= 3 => snapshot[3] \in Nat /\ snapshot[3] <= Cardinality(HasJob)
    BY DEF SnapshotInv
  <2> QED BY <1>1, <1>2, <2>1
<1>8. Len(snapshot) >= 4 => snapshot[4] \in Nat /\ snapshot[4] <= Attempts'
  <2>1. Len(snapshot) >= 4 => snapshot[4] \in Nat /\ snapshot[4] <= Attempts
    BY DEF SnapshotInv
  <2> QED BY <1>1, <1>2, <2>1
<1>9. Len(snapshot) >= 5 => snapshot[5] \in Nat /\ snapshot[4] <= snapshot[5] + Cardinality(HasJob)'
  <2> SUFFICES ASSUME Len(snapshot) >= 5
               PROVE  snapshot[5] \in Nat /\ snapshot[4] <= snapshot[5] + Cardinality(HasJob)'
    OBVIOUS
  <2>1. Len(snapshot) >= 4
    BY <1>3
  <2>2. snapshot[5] \in Nat /\ snapshot[4] <= snapshot[5] + Cardinality(HasJob)
    BY DEF SnapshotInv
  <2>3. snapshot[4] \in Nat
    BY <1>8, <2>1
  <2>4. /\ Cardinality(HasJob) \in Nat /\ Cardinality(HasJob)' \in Nat
        /\ Cardinality(HasJob) <= Cardinality(HasJob)'
    BY <1>1, <1>2
  <2> QED BY <2>2, <2>3, <2>4
<1>10. Len(snapshot) >= 6 => SumOf(snapshot[6]) \in Nat /\ SumOf(snapshot[6]) <= Cardinality(Ids)'
  BY <1>1, <1>2 DEF SnapshotInv
<1>11. snapshot \in Seq(Range(snapshot)) /\ Len(snapshot) <= 8
  BY DEF SnapshotInv
<1>12. Len(snapshot) >= 6 => snapshot[1] <= SumOf(snapshot[6]) /\ ByStatusBounded(Cardinality(HasJob)')
  <2> SUFFICES ASSUME Len(snapshot) >= 6
               PROVE  snapshot[1] <= SumOf(snapshot[6]) /\ ByStatusBounded(Cardinality(HasJob)')
    OBVIOUS
  <2>1. snapshot[1] <= SumOf(snapshot[6]) /\ ByStatusBounded(Cardinality(HasJob))
    BY DEF SnapshotInv
  <2>2. snapshot[1] \in Nat /\ snapshot[2] \in Nat
    <3>1. Len(snapshot) >= 1 /\ Len(snapshot) >= 2
      BY <1>3
    <3> QED BY <3>1 DEF SnapshotInv
  <2>3. /\ Cardinality(HasJob) \in Nat /\ Cardinality(HasJob)' \in Nat
        /\ Cardinality(HasJob) <= Cardinality(HasJob)'
    BY <1>1, <1>2
  <2> QED BY <2>1, <2>2, <2>3 DEF ByStatusBounded
<1>13. /\ Len(snapshot) >= 7 => SumOf(snapshot[7]) \in Nat /\ SumOf(snapshot[6]) <= SumOf(snapshot[7])
       /\ Len(snapshot) >= 8 => /\ SumOf(snapshot[8]) \in Nat /\ snapshot[3] <= SumOf(snapshot[8])
                                /\ snapshot[4] <= snapshot[5] + SumOf(snapshot[8])
                                /\ ByStatusBounded(SumOf(snapshot[8]))
  BY DEF SnapshotInv
<1> QED BY <1>4, <1>5, <1>6, <1>7, <1>8, <1>9, <1>10, <1>11, <1>12, <1>13 DEF SnapshotInv, ByStatusBounded

\* The statements by place, and their readings by name.
LEMMA StatementPlaces ==
  /\ Len(Statements) = 8
  /\ Statements[1] = "total" /\ Statements[2] = "authorized" /\ Statements[3] = "jobs"
  /\ Statements[4] = "attempts" /\ Statements[5] = "retries" /\ Statements[6] = "by_status"
  /\ Statements[7] = "by_type" /\ Statements[8] = "jobs_by_status"
  /\ Read("total") = snapshot[1] /\ Read("authorized") = snapshot[2] /\ Read("jobs") = snapshot[3]
  /\ Read("attempts") = snapshot[4] /\ Read("retries") = snapshot[5] /\ Read("by_status") = snapshot[6]
  /\ Read("by_type") = snapshot[7] /\ Read("jobs_by_status") = snapshot[8]
<1>1. /\ Len(Statements) = 8 /\ DOMAIN Statements = 1..8
      /\ Statements[1] = "total" /\ Statements[2] = "authorized" /\ Statements[3] = "jobs"
      /\ Statements[4] = "attempts" /\ Statements[5] = "retries" /\ Statements[6] = "by_status"
      /\ Statements[7] = "by_type" /\ Statements[8] = "jobs_by_status"
  BY DEF Statements
<1>2. ASSUME NEW name, NEW i \in 1..8, Statements[i] = name,
             \A j \in 1..8 : Statements[j] = name => j = i
      PROVE  Read(name) = snapshot[i]
  <2>1. (CHOOSE j \in DOMAIN Statements : Statements[j] = name) = i
    BY <1>1, <1>2
  <2> QED BY <2>1 DEF Read
<1>3. \A j \in 1..8 : j = 1 \/ j = 2 \/ j = 3 \/ j = 4 \/ j = 5 \/ j = 6 \/ j = 7 \/ j = 8
  OBVIOUS
<1>4. \A i, j \in 1..8 : Statements[i] = Statements[j] => i = j
  BY <1>1, <1>3
<1>5. \A i \in 1..8 : Read(Statements[i]) = snapshot[i]
  BY <1>2, <1>4
<1> QED BY <1>1, <1>5

\* Each statement reads what there is at its moment.
LEMMA SnapshotExtended ==
  ASSUME RowsInv, NextStatement, SnapshotInv
  PROVE  SnapshotInv'
<1> DEFINE n == Len(snapshot)
           e == Reading(Statements[n + 1])
           t == Append(snapshot, e)
           S == Range(snapshot) \cup {e}
<1>1. /\ snapshot \in Seq(Range(snapshot)) /\ n \in Nat /\ n < 8 /\ snapshot' = t
      /\ UNCHANGED <<rows, jobs>>
  BY StatementPlaces, LenProperties DEF SnapshotInv, NextStatement, tables
<1>2. snapshot \in Seq(S)
  <2>1. snapshot \in [1..n -> Range(snapshot)]
    BY <1>1, LenProperties DEF Range
  <2>2. snapshot \in [1..n -> S]
    BY <2>1
  <2> QED BY <1>1, <2>2, SeqDef
<1>3. /\ t \in Seq(S) /\ Len(t) = n + 1 /\ t[n + 1] = e
      /\ \A i \in 1..n : t[i] = snapshot[i]
  <2>1. e \in S
    OBVIOUS
  <2> HIDE DEF e, S
  <2> QED BY <1>1, <1>2, <2>1, AppendProperties
<1> HIDE DEF e, S, t
<1>4. t \in Seq(Range(t))
  <2>1. DOMAIN t = 1..n + 1
    BY <1>1, <1>3, LenProperties
  <2>2. t \in [1..n + 1 -> Range(t)]
    <3>1. t = [i \in 1..n + 1 |-> t[i]]
      BY <1>1, <1>3, SeqDef
    <3>2. \A i \in 1..n + 1 : t[i] \in Range(t)
      BY <2>1 DEF Range
    <3> QED BY <3>1, <3>2
  <2> QED BY <1>1, <2>2, SeqDef
<1>5. /\ Cardinality(Ids)' = Cardinality(Ids) /\ Cardinality(Unauthorized)' = Cardinality(Unauthorized)
      /\ Cardinality(HasJob)' = Cardinality(HasJob) /\ Attempts' = Attempts
  BY <1>1 DEF Ids, Unauthorized, HasJob, Attempts, SumOf
<1>6. n = 0 \/ n = 1 \/ n = 2 \/ n = 3 \/ n = 4 \/ n = 5 \/ n = 6 \/ n = 7
  <2>1. n \in Nat /\ n < 8
    BY <1>1
  <2> HIDE DEF n
  <2> QED BY <2>1
<1>7. ASSUME NEW i \in 1..n PROVE snapshot'[i] = snapshot[i]
  BY <1>1, <1>3
<1>8. /\ Cardinality(Ids) \in Nat /\ Cardinality(Unauthorized) \in Nat
      /\ Cardinality(HasJob) \in Nat /\ Attempts \in Nat
  BY CountsNow
<1>9. CASE n = 0
  <2>1. snapshot'[1] = Cardinality(Ids)
    BY <1>1, <1>3, <1>9, StatementPlaces, CountsNow DEF e
  <2> QED BY <1>1, <1>3, <1>4, <1>5, <1>8, <1>9, <2>1 DEF SnapshotInv
<1>10. CASE n = 1
  <2>1. snapshot'[2] = Reading("authorized") /\ snapshot'[1] = snapshot[1]
    BY <1>1, <1>3, <1>10, StatementPlaces DEF e
  <2>2. snapshot[1] \in Nat /\ snapshot[1] <= Cardinality(Ids)
    BY <1>10 DEF SnapshotInv
  <2>3. Reading("authorized") \in Nat /\ Cardinality(Ids) = Reading("authorized") + Cardinality(Unauthorized)
    BY CountsNow
  <2>4. snapshot[1] <= Reading("authorized") + Cardinality(Unauthorized)
    BY <1>8, <2>2, <2>3
  <2> QED BY <1>1, <1>3, <1>4, <1>5, <1>10, <2>1, <2>2, <2>3, <2>4 DEF SnapshotInv
<1>11. CASE n = 2
  <2>1. /\ snapshot'[1] = snapshot[1] /\ snapshot'[2] = snapshot[2]
        /\ snapshot'[3] = Cardinality(HasJob)
    BY <1>1, <1>3, <1>11, StatementPlaces, CountsNow DEF e
  <2>2. /\ snapshot[1] \in Nat /\ snapshot[1] <= Cardinality(Ids)
        /\ snapshot[2] \in Nat /\ snapshot[1] <= snapshot[2] + Cardinality(Unauthorized)
    BY <1>11 DEF SnapshotInv
  <2> QED BY <1>1, <1>3, <1>4, <1>5, <1>8, <1>11, <2>1, <2>2 DEF SnapshotInv
<1>12. CASE n = 3
  <2>1. /\ snapshot'[1] = snapshot[1] /\ snapshot'[2] = snapshot[2] /\ snapshot'[3] = snapshot[3]
        /\ snapshot'[4] = Attempts
    BY <1>1, <1>3, <1>12, StatementPlaces, CountsNow DEF e
  <2>2. /\ snapshot[1] \in Nat /\ snapshot[1] <= Cardinality(Ids)
        /\ snapshot[2] \in Nat /\ snapshot[1] <= snapshot[2] + Cardinality(Unauthorized)
        /\ snapshot[3] \in Nat /\ snapshot[3] <= Cardinality(HasJob)
    BY <1>12 DEF SnapshotInv
  <2> QED BY <1>1, <1>3, <1>4, <1>5, <1>8, <1>12, <2>1, <2>2 DEF SnapshotInv
<1>13. CASE n = 4
  <2>1. /\ snapshot'[1] = snapshot[1] /\ snapshot'[2] = snapshot[2] /\ snapshot'[3] = snapshot[3]
        /\ snapshot'[4] = snapshot[4] /\ snapshot'[5] = Reading("retries")
    BY <1>1, <1>3, <1>13, StatementPlaces DEF e
  <2>2. /\ snapshot[1] \in Nat /\ snapshot[1] <= Cardinality(Ids)
        /\ snapshot[2] \in Nat /\ snapshot[1] <= snapshot[2] + Cardinality(Unauthorized)
        /\ snapshot[3] \in Nat /\ snapshot[3] <= Cardinality(HasJob)
        /\ snapshot[4] \in Nat /\ snapshot[4] <= Attempts
    BY <1>13 DEF SnapshotInv
  <2>3. /\ Reading("retries") \in Nat
        /\ snapshot[4] <= Reading("retries") + Cardinality(HasJob)
    <3>1. Reading("retries") \in Nat /\ Attempts <= Reading("retries") + Cardinality(HasJob)
      BY CountsNow
    <3> QED BY <1>8, <2>2, <3>1
  <2> QED BY <1>1, <1>3, <1>4, <1>5, <1>8, <1>13, <2>1, <2>2, <2>3 DEF SnapshotInv
<1>14. ASSUME n >= 5
       PROVE  /\ snapshot'[1] = snapshot[1] /\ snapshot'[2] = snapshot[2] /\ snapshot'[3] = snapshot[3]
              /\ snapshot'[4] = snapshot[4] /\ snapshot'[5] = snapshot[5]
              /\ snapshot[1] \in Nat /\ snapshot[1] <= Cardinality(Ids)
              /\ snapshot[2] \in Nat /\ snapshot[1] <= snapshot[2] + Cardinality(Unauthorized)
              /\ snapshot[3] \in Nat /\ snapshot[3] <= Cardinality(HasJob)
              /\ snapshot[4] \in Nat /\ snapshot[4] <= Attempts
              /\ snapshot[5] \in Nat /\ snapshot[4] <= snapshot[5] + Cardinality(HasJob)
  <2>1. Len(snapshot) >= 1 /\ Len(snapshot) >= 2 /\ Len(snapshot) >= 3 /\ Len(snapshot) >= 4 /\ Len(snapshot) >= 5
    BY <1>1, <1>14
  <2>2. 1 \in 1..n /\ 2 \in 1..n /\ 3 \in 1..n /\ 4 \in 1..n /\ 5 \in 1..n
    BY <1>1, <1>14
  <2>3. /\ snapshot'[1] = snapshot[1] /\ snapshot'[2] = snapshot[2] /\ snapshot'[3] = snapshot[3]
        /\ snapshot'[4] = snapshot[4] /\ snapshot'[5] = snapshot[5]
    BY <1>7, <2>2
  <2> QED BY <2>1, <2>3 DEF SnapshotInv
<1>15. /\ SumOf(snapshot[6])' = SumOf(snapshot'[6]) /\ SumOf(snapshot[7])' = SumOf(snapshot'[7])
       /\ SumOf(snapshot[8])' = SumOf(snapshot'[8]) /\ Ignored(snapshot[6])' = Ignored(snapshot'[6])
       /\ Processed(snapshot[6])' = Processed(snapshot'[6])
  BY DEF SumOf, Ignored, Processed, Counted
<1>16. CASE n = 5
  <2>1. snapshot'[6] = Reading("by_status")
    BY <1>1, <1>3, <1>16, StatementPlaces DEF e
  <2>2. /\ SumOf(snapshot'[6]) = Cardinality(Ids)
        /\ Ignored(snapshot'[6]) \in Nat /\ Processed(snapshot'[6]) \in Nat
        /\ Cardinality(Unauthorized) <= Ignored(snapshot'[6]) + Cardinality(HasJob)
        /\ Processed(snapshot'[6]) <= Cardinality(HasJob)
    BY <2>1, CountsNow
  <2>3. /\ snapshot'[1] = snapshot[1] /\ snapshot'[2] = snapshot[2] /\ snapshot'[3] = snapshot[3]
        /\ snapshot'[4] = snapshot[4] /\ snapshot'[5] = snapshot[5]
        /\ snapshot[1] \in Nat /\ snapshot[1] <= Cardinality(Ids)
        /\ snapshot[2] \in Nat /\ snapshot[1] <= snapshot[2] + Cardinality(Unauthorized)
        /\ snapshot[3] \in Nat /\ snapshot[3] <= Cardinality(HasJob)
        /\ snapshot[4] \in Nat /\ snapshot[4] <= Attempts
        /\ snapshot[5] \in Nat /\ snapshot[4] <= snapshot[5] + Cardinality(HasJob)
    BY <1>14, <1>16
  <2>4. snapshot[1] <= snapshot[2] + Ignored(snapshot'[6]) + Cardinality(HasJob)
    BY <1>8, <2>2, <2>3
  <2>5. Len(snapshot') = 6
    BY <1>1, <1>3, <1>16
  <2>6. ByStatusBounded(Cardinality(HasJob))'
    BY <1>5, <1>15, <2>2, <2>3, <2>4 DEF ByStatusBounded
  <2> QED BY <1>1, <1>4, <1>5, <1>8, <1>15, <2>2, <2>3, <2>5, <2>6 DEF SnapshotInv
<1>17. ASSUME n >= 6
       PROVE  /\ snapshot'[6] = snapshot[6]
              /\ SumOf(snapshot[6]) \in Nat /\ SumOf(snapshot[6]) <= Cardinality(Ids)
              /\ snapshot[1] <= SumOf(snapshot[6])
              /\ ByStatusBounded(Cardinality(HasJob))
  <2>1. Len(snapshot) >= 6
    BY <1>17
  <2>2. snapshot'[6] = snapshot[6]
    BY <1>1, <1>7, <1>17
  <2> QED BY <2>1, <2>2 DEF SnapshotInv
<1>18. CASE n = 6
  <2>1. snapshot'[7] = Reading("by_type")
    BY <1>1, <1>3, <1>18, StatementPlaces DEF e
  <2>2. SumOf(snapshot'[7]) = Cardinality(Ids)
    BY <2>1, CountsNow
  <2>3. /\ snapshot'[1] = snapshot[1] /\ snapshot'[2] = snapshot[2] /\ snapshot'[3] = snapshot[3]
        /\ snapshot'[4] = snapshot[4] /\ snapshot'[5] = snapshot[5]
        /\ snapshot[1] \in Nat /\ snapshot[1] <= Cardinality(Ids)
        /\ snapshot[2] \in Nat /\ snapshot[1] <= snapshot[2] + Cardinality(Unauthorized)
        /\ snapshot[3] \in Nat /\ snapshot[3] <= Cardinality(HasJob)
        /\ snapshot[4] \in Nat /\ snapshot[4] <= Attempts
        /\ snapshot[5] \in Nat /\ snapshot[4] <= snapshot[5] + Cardinality(HasJob)
    BY <1>14, <1>18
  <2>4. /\ snapshot'[6] = snapshot[6]
        /\ SumOf(snapshot[6]) \in Nat /\ SumOf(snapshot[6]) <= Cardinality(Ids)
        /\ snapshot[1] <= SumOf(snapshot[6])
        /\ ByStatusBounded(Cardinality(HasJob))
    BY <1>17, <1>18
  <2>5. Len(snapshot') = 7
    BY <1>1, <1>3, <1>18
  <2>6. ByStatusBounded(Cardinality(HasJob))'
    BY <1>5, <1>15, <2>3, <2>4 DEF ByStatusBounded
  <2> QED BY <1>1, <1>4, <1>5, <1>8, <1>15, <2>2, <2>3, <2>4, <2>5, <2>6 DEF SnapshotInv
<1>19. CASE n = 7
  <2>1. snapshot'[8] = Reading("jobs_by_status")
    BY <1>1, <1>3, <1>19, StatementPlaces DEF e
  <2>2. SumOf(snapshot'[8]) = Cardinality(HasJob)
    BY <2>1, CountsNow
  <2>3. /\ snapshot'[1] = snapshot[1] /\ snapshot'[2] = snapshot[2] /\ snapshot'[3] = snapshot[3]
        /\ snapshot'[4] = snapshot[4] /\ snapshot'[5] = snapshot[5]
        /\ snapshot[1] \in Nat /\ snapshot[1] <= Cardinality(Ids)
        /\ snapshot[2] \in Nat /\ snapshot[1] <= snapshot[2] + Cardinality(Unauthorized)
        /\ snapshot[3] \in Nat /\ snapshot[3] <= Cardinality(HasJob)
        /\ snapshot[4] \in Nat /\ snapshot[4] <= Attempts
        /\ snapshot[5] \in Nat /\ snapshot[4] <= snapshot[5] + Cardinality(HasJob)
    BY <1>14, <1>19
  <2>4. /\ snapshot'[6] = snapshot[6]
        /\ SumOf(snapshot[6]) \in Nat /\ SumOf(snapshot[6]) <= Cardinality(Ids)
        /\ snapshot[1] <= SumOf(snapshot[6])
        /\ ByStatusBounded(Cardinality(HasJob))
    BY <1>17, <1>19
  <2>5. snapshot'[7] = snapshot[7] /\ SumOf(snapshot[7]) \in Nat /\ SumOf(snapshot[6]) <= SumOf(snapshot[7])
    <3>1. snapshot'[7] = snapshot[7]
      BY <1>7, <1>19
    <3> QED BY <1>19, <3>1 DEF SnapshotInv
  <2>6. Len(snapshot') = 8
    BY <1>1, <1>3, <1>19
  <2>7. ByStatusBounded(Cardinality(HasJob))' /\ ByStatusBounded(SumOf(snapshot[8]))'
    BY <1>5, <1>15, <2>2, <2>3, <2>4 DEF ByStatusBounded
  <2> QED BY <1>1, <1>4, <1>5, <1>8, <1>15, <2>2, <2>3, <2>4, <2>5, <2>6, <2>7 DEF SnapshotInv
<1> QED BY <1>6, <1>9, <1>10, <1>11, <1>12, <1>13, <1>16, <1>18, <1>19

----------------------------------------------------------------------------
(* The theorems                                                            *)

IInv == RowsInv /\ WalkInv /\ SnapshotInv

\* The invariant holds at the start.
LEMMA InitInv == Init => IInv
<1> SUFFICES ASSUME Init PROVE IInv
  OBVIOUS
<1>1. Ids = {} /\ Len(rows) = 0 /\ Len(page) = 0 /\ Len(snapshot) = 0
  BY DEF Init, Ids
<1>2. \A S : << >> \in Seq(S)
  BY EmptySeq
<1>3. RowsInv
  BY <1>1, <1>2, DashboardAssumption DEF Init, RowsInv
<1>4. WalkInv
  <2>1. Start = 0 /\ Range(page) = {} /\ DOMAIN page = {}
    BY DEF Init, NoQuery, Start, Range
  <2>2. query \in [page : Nat \ {0}, perPage : 1..StoreMaxPerPage, desc : BOOLEAN,
                   filter : Filters \cup {"all"}]
    BY DashboardAssumption DEF Init, NoQuery
  <2>3. Start \in Nat /\ query.page - 1 <= Start /\ Start < MaxRows + query.perPage
    BY <2>1, DashboardAssumption DEF Init, NoQuery
  <2>4. ListedBySecond
    BY <2>1 DEF ListedBySecond
  <2>5. page = << >> /\ owed = {} /\ reader = "idle"
    BY DEF Init
  <2>6. Len(page) <= query.perPage
    BY <1>1, DashboardAssumption DEF Init, NoQuery
  <2> QED BY <1>2, <2>1, <2>2, <2>3, <2>4, <2>5, <2>6 DEF WalkInv
<1>5. SnapshotInv
  BY <1>1, <1>2 DEF Init, SnapshotInv
<1> QED BY <1>3, <1>4, <1>5 DEF IInv

\* Every statement of the reader and of the writers keeps it.
LEMMA NextInv == IInv /\ [Next]_vars => IInv'
<1> SUFFICES ASSUME IInv, [Next]_vars PROVE IInv'
  OBVIOUS
<1>1. RowsInv /\ WalkInv /\ SnapshotInv
  BY DEF IInv
<1>2. ASSUME Write PROVE IInv'
  <2>1. RowsInv' /\ Grows /\ Written
    BY <1>1, <1>2, WriteGrows
  <2>2. UNCHANGED snapshot
    BY <2>1 DEF Written
  <2>3. WalkInv'
    BY <1>1, <2>1, WalkWritten
  <2>4. SnapshotInv'
    BY <1>1, <2>1, <2>2, SnapshotWritten
  <2> QED BY <2>1, <2>3, <2>4 DEF IInv
\* Readers change no table.
<1>3. ASSUME UNCHANGED tables PROVE RowsInv'
  BY <1>1, <1>3 DEF tables, RowsInv, Ids
<1>4. ASSUME UNCHANGED <<tables, snapshot>> PROVE SnapshotInv'
  <2>1. UNCHANGED <<rows, jobs, snapshot>>
    BY <1>4 DEF tables
  <2>2. Ids' = Ids /\ Unauthorized' = Unauthorized /\ HasJob' = HasJob /\ Attempts' = Attempts
    BY <2>1 DEF Ids, Unauthorized, HasJob, Attempts, SumOf
  <2> QED BY <1>1, <2>1, <2>2 DEF SnapshotInv, SumOf, ByStatusBounded, Ignored, Processed, Counted
<1>5. ASSUME NEW asked \in Asked, NEW desc \in BOOLEAN, NEW filter \in Filters,
             OpenList(ViewKey, asked, desc, filter)
      PROVE  IInv'
  <2>1. UNCHANGED tables /\ UNCHANGED <<tables, snapshot>>
    BY <1>5 DEF OpenList
  <2> QED BY <1>1, <1>3, <1>4, <1>5, <2>1, WalkOpened DEF IInv
<1>6. CASE CountRows
  <2>1. UNCHANGED tables /\ UNCHANGED <<tables, snapshot>>
    BY <1>6 DEF CountRows
  <2> QED BY <1>1, <1>3, <1>4, <1>6, <2>1, WalkCounted DEF IInv
<1>7. CASE ReadRows
  <2>1. UNCHANGED tables /\ UNCHANGED <<tables, snapshot>>
    BY <1>7 DEF ReadRows
  <2> QED BY <1>1, <1>3, <1>4, <1>7, <2>1, WalkRead DEF IInv
<1>8. CASE FollowNext
  <2>1. UNCHANGED tables /\ UNCHANGED <<tables, snapshot>>
    BY <1>8 DEF FollowNext
  <2> QED BY <1>1, <1>3, <1>4, <1>8, <2>1, WalkFollowed DEF IInv
<1>9. CASE StartSnapshot \/ UNCHANGED vars
  <2>1. UNCHANGED tables /\ UNCHANGED <<tables, snapshot>>
    BY <1>9 DEF StartSnapshot, vars
  <2> QED BY <1>1, <1>3, <1>4, <1>9, <2>1, WalkStays DEF IInv
<1>10. CASE NextStatement
  <2>1. UNCHANGED tables
    BY <1>10 DEF NextStatement
  <2> QED BY <1>1, <1>3, <1>10, <2>1, WalkStays, SnapshotExtended DEF IInv
<1> QED BY <1>2, <1>5, <1>6, <1>7, <1>8, <1>9, <1>10 DEF Next, Write

\* So it holds always.
LEMMA Invariant == Spec => []IInv
BY InitInv, NextInv, PTL DEF Spec

\* No page exceeds the store's limit or shows a row that is not there
\* (list_messages).
THEOREM TypeCorrect == Spec => []TypeOK
<1>1. IInv => TypeOK
  <2> SUFFICES ASSUME IInv PROVE TypeOK
    OBVIOUS
  <2>1. RowsInv /\ WalkInv
    BY DEF IInv
  <2>2. /\ Len(rows) \in Nat /\ Len(rows) <= MaxRows /\ MaxRows \in Nat /\ DOMAIN jobs = Ids
        /\ \A id \in Ids : jobs[id].attempts \in 0..MaxAttempts
    BY <2>1, IdsFinite, DashboardAssumption DEF RowsInv, Job
  <2>3. query.perPage \in 1..StoreMaxPerPage /\ query.perPage \in Nat /\ StoreMaxPerPage \in Nat
    BY <2>1, PageNumbers, DashboardAssumption
  <2>4. Len(page) \in Nat /\ Len(page) <= query.perPage /\ Range(page) \cup owed \subseteq Ids
    BY <2>1, LenProperties DEF WalkInv
  <2>5. Len(rows) \in 0..MaxRows
    BY <2>2
  <2>6. Len(page) <= StoreMaxPerPage
    BY <2>3, <2>4
  <2> QED BY <2>2, <2>3, <2>4, <2>5, <2>6 DEF TypeOK
<1> QED BY <1>1, Invariant, PTL

\* Who follows the Next links to the empty page has been shown every row there
\* was at the start, wherever in the order rows arrived meanwhile
\* (list_messages, render_list_page).
THEOREM WalkShowsAll == Spec => []NothingSkipped
<1>1. IInv => NothingSkipped
  BY DEF IInv, WalkInv, WalkedFilter, NothingSkipped
<1> QED BY <1>1, Invariant, PTL

\* Pages are in the order of time to the second, although the order is one of
\* texts (list_messages_sql).
THEOREM PagesAreOrdered == Spec => []ListedBySecond
<1>1. IInv => ListedBySecond
  BY DEF IInv, WalkInv
<1> QED BY <1>1, Invariant, PTL

\* Of two readings of what only grows the later is not the smaller, although
\* nothing ties the statements to one moment; and a row that its sender's join
\* took out of the ignored is made up for by its job (status_snapshot).
THEOREM ReadingsBoundEachOther == Spec => []LaterReadingsCover
<1>1. IInv => LaterReadingsCover
  <2> SUFFICES ASSUME IInv, Len(snapshot) = Len(Statements) PROVE LaterReadingsCover
    BY DEF LaterReadingsCover
  <2>1. Len(snapshot) = 8
    BY StatementPlaces
  <2>2. /\ snapshot[1] \in Nat /\ snapshot[2] \in Nat /\ snapshot[3] \in Nat
        /\ snapshot[4] \in Nat /\ snapshot[5] \in Nat
        /\ SumOf(snapshot[6]) \in Nat /\ SumOf(snapshot[7]) \in Nat
        /\ snapshot[1] <= SumOf(snapshot[6]) /\ SumOf(snapshot[6]) <= SumOf(snapshot[7])
        /\ SumOf(snapshot[8]) \in Nat /\ ByStatusBounded(SumOf(snapshot[8]))
        /\ snapshot[3] <= SumOf(snapshot[8]) /\ snapshot[4] <= snapshot[5] + SumOf(snapshot[8])
    BY <2>1 DEF IInv, SnapshotInv
  <2>3. /\ SumOf(Read("by_status")) >= Read("total")
        /\ SumOf(Read("by_type")) >= SumOf(Read("by_status"))
        /\ Read("authorized") + Ignored(Read("by_status")) + SumOf(Read("jobs_by_status")) >= Read("total")
        /\ Processed(Read("by_status")) <= SumOf(Read("jobs_by_status"))
        /\ SumOf(Read("jobs_by_status")) >= Read("jobs")
        /\ Read("retries") + SumOf(Read("jobs_by_status")) >= Read("attempts")
    BY <2>2, StatementPlaces DEF ByStatusBounded
  <2> QED BY <2>3 DEF LaterReadingsCover, Ignored, Processed
<1> QED BY <1>1, Invariant, PTL

============================================================================
