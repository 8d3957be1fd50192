------------------------ MODULE SourceDocumentProofs ------------------------
(***************************************************************************)
(* Proofs about SourceDocument, for any keys, days, choices of threads and *)
(* number of attempts.                                                     *)
(***************************************************************************)
EXTENDS SourceDocument, SequenceTheorems, FiniteSetTheorems, TLAPS

-----------------------------------------------------------------------------
(* Least places, tokens and splices. *)

\* Among the intervals 0 .. m there is one that contains no other.
LEMMA LeastOfNaturals ==
  ASSUME NEW T, T \subseteq Nat, T # {}
  PROVE \E m \in T : \A k \in T : m <= k
<1> DEFINE R == StrictSubsetOrdering(Nat)
           F == FiniteSubsetsOf(Nat)
           U == {0 .. m : m \in T}
<1>1. IsWellFoundedOn(R, F)
  BY FS_StrictSubsetOrderingWellFounded
<1>2. U \subseteq F /\ U # {}
  <2>1. \A m \in T : IsFiniteSet(0 .. m) /\ 0 .. m \in SUBSET Nat
    BY FS_Interval
  <2> QED
    BY <2>1 DEF FiniteSubsetsOf
<1>3. \E x \in U : \A y \in U : ~ (<<y, x>> \in R)
  <2> HIDE DEF R, F, U
  <2> QED BY <1>1, <1>2, WFMin
<1>4. \A x, y \in Nat : x < y => <<0 .. x, 0 .. y>> \in R
  BY DEF StrictSubsetOrdering
<1>5. PICK m \in T : \A k \in T : ~ (<<0 .. k, 0 .. m>> \in R)
  <2> HIDE DEF R
  <2> QED
    BY <1>3
<1>6. ASSUME NEW k \in T PROVE m <= k
  <2>1. ~ (k < m)
    BY <1>4, <1>5
  <2> QED
    BY <2>1
<1> QED BY <1>6

\* The other end: of the places up to i that satisfy something, the last.
LEMMA LastOfPlaces ==
  ASSUME NEW i \in Nat, NEW S, S \subseteq 1 .. i, S # {}
  PROVE  \E j \in S : \A h \in S : h <= j
<1> DEFINE T == {i - j : j \in S}
<1>1. T \subseteq Nat /\ T # {}
  <2>1. \A j \in S : i - j \in Nat
    OBVIOUS
  <2> QED BY <2>1
<1>2. PICK m \in T : \A n \in T : m <= n
  <2> HIDE DEF T
  <2> QED BY <1>1, LeastOfNaturals
<1>3. PICK j \in S : m = i - j
  BY <1>2
<1>4. ASSUME NEW h \in S PROVE h <= j
  <2>1. i - h \in T
    OBVIOUS
  <2>2. i - j <= i - h
    BY <1>2, <1>3, <2>1
  <2> QED BY <2>2
<1> QED BY <1>4

\* What a token is made of.
LEMMA TokenParts ==
  ASSUME NEW x \in Token
  PROVE  /\ x = <<x[1], x[2], x[3]>>
         /\ x[1] = "body" => x[2] \in Key /\ x[3] \in Version
         /\ x[1] # "body" => x[1] \in Marks /\ x[3] = 0
<1>1. "body" \notin Marks
  BY DEF Marks
<1> QED BY <1>1 DEF Token

\* What marks and bodies are made of.
LEMMA MarksAreTokens ==
  /\ \A what \in Marks, k \in Key \cup {NoKey} : Mark(what, k) \in Token
  /\ \A k \in Key, v \in Version : Body(k, v) \in Token
  /\ \A what, k : Mark(what, k)[1] = what /\ Mark(what, k)[2] = k /\ Mark(what, k)[3] = 0
  /\ \A k, v : Body(k, v)[1] = "body" /\ Body(k, v)[2] = k /\ Body(k, v)[3] = v
  /\ Header \in Token /\ Header[1] = "header" /\ Header[3] = 0
BY DEF Mark, Body, Header, Token, Marks

\* str::find returns the first place, if there is one.
LEMMA IndexFound ==
  ASSUME NEW doc \in Seq(Token), NEW from \in Nat \ {0}, NEW t,
         NEW n \in from .. Len(doc), doc[n] = t
  PROVE  /\ IndexFrom(doc, from, t) \in from .. Len(doc)
         /\ doc[IndexFrom(doc, from, t)] = t
         /\ \A j \in from .. Len(doc) : doc[j] = t => IndexFrom(doc, from, t) <= j
<1> DEFINE places == {i \in from .. Len(doc) : doc[i] = t}
<1>1. Len(doc) \in Nat
  BY LenProperties
<1>2. places # {} /\ places \subseteq Nat
  BY <1>1
<1>3. \E m \in places : \A k \in places : m <= k
  <2> HIDE DEF places
  <2> QED BY <1>2, LeastOfNaturals
<1>4. IndexFrom(doc, from, t) = CHOOSE i \in places : \A j \in places : i <= j
  BY <1>2 DEF IndexFrom
<1>5. IndexFrom(doc, from, t) \in places /\ \A j \in places : IndexFrom(doc, from, t) <= j
  <2> HIDE DEF places
  <2> QED BY <1>3, <1>4
<1> QED BY <1>5

\* It returns 0 if there is none.
LEMMA IndexNone ==
  ASSUME NEW doc, NEW from, NEW t, \A n \in from .. Len(doc) : doc[n] # t
  PROVE  IndexFrom(doc, from, t) = 0
BY DEF IndexFrom

\* And no other.
LEMMA IndexIs ==
  ASSUME NEW doc \in Seq(Token), NEW from \in Nat \ {0}, NEW t,
         NEW n \in from .. Len(doc), doc[n] = t,
         \A j \in from .. n - 1 : doc[j] # t
  PROVE  IndexFrom(doc, from, t) = n
<1> DEFINE m == IndexFrom(doc, from, t)
<1>1. m \in from .. Len(doc) /\ doc[m] = t /\ m <= n
  BY IndexFound
<1>2. Len(doc) \in Nat
  BY LenProperties
<1> HIDE DEF m
<1>3. m = n
  BY <1>1, <1>2
<1> QED BY <1>3 DEF m

\* A splice puts the part in place of from .. to and moves what follows.
LEMMA SpliceIs ==
  ASSUME NEW doc \in Seq(Token), NEW from \in 1 .. Len(doc) + 1,
         NEW to \in from - 1 .. Len(doc), NEW part \in Seq(Token)
  PROVE  /\ Splice(doc, from, to, part) \in Seq(Token)
         /\ Len(Splice(doc, from, to, part)) = Len(doc) - (to - from + 1) + Len(part)
         /\ \A i \in 1 .. Len(doc) - (to - from + 1) + Len(part) :
              Splice(doc, from, to, part)[i] =
                IF i < from THEN doc[i]
                ELSE IF i < from + Len(part) THEN part[i - from + 1]
                ELSE doc[i - Len(part) + (to - from + 1)]
<1> DEFINE a == SubSeq(doc, 1, from - 1)
           b == SubSeq(doc, to + 1, Len(doc))
           n == Len(doc)
           p == Len(part)
<1>1. n \in Nat /\ p \in Nat /\ \A i \in 1 .. n : doc[i] \in Token
  BY LenProperties, ElementOfSeq
<1>2. a \in Seq(Token) /\ Len(a) = from - 1 /\ \A i \in 1 .. from - 1 : a[i] = doc[i]
  <2>1. \A i \in 1 .. from - 1 : doc[i] \in Token
    BY <1>1
  <2>2. /\ a \in Seq(Token) /\ Len(a) = IF 1 <= from - 1 THEN (from - 1) - 1 + 1 ELSE 0
        /\ \A i \in 1 .. (from - 1) - 1 + 1 : a[i] = doc[1 + i - 1]
    BY <1>1, <2>1, SubSeqProperties
  <2> HIDE DEF a
  <2> QED BY <1>1, <2>2
<1>3. b \in Seq(Token) /\ Len(b) = n - to /\ \A i \in 1 .. n - to : b[i] = doc[to + i]
  <2>1. \A i \in to + 1 .. n : doc[i] \in Token
    BY <1>1
  <2>2. /\ b \in Seq(Token) /\ Len(b) = IF to + 1 <= n THEN n - (to + 1) + 1 ELSE 0
        /\ \A i \in 1 .. n - (to + 1) + 1 : b[i] = doc[(to + 1) + i - 1]
    BY <1>1, <2>1, SubSeqProperties
  <2> HIDE DEF b
  <2> QED BY <1>1, <2>2
<1> HIDE DEF a, b
<1>4. /\ a \o part \in Seq(Token) /\ Len(a \o part) = from - 1 + p
      /\ \A i \in 1 .. from - 1 + p :
           (a \o part)[i] = IF i <= from - 1 THEN a[i] ELSE part[i - (from - 1)]
  <2>1. /\ a \o part \in Seq(Token) /\ Len(a \o part) = Len(a) + Len(part)
        /\ \A i \in 1 .. Len(a) + Len(part) :
             (a \o part)[i] = IF i <= Len(a) THEN a[i] ELSE part[i - Len(a)]
    BY <1>2, ConcatProperties
  <2> QED BY <1>2, <2>1
<1>5. /\ (a \o part) \o b \in Seq(Token)
      /\ Len((a \o part) \o b) = from - 1 + p + (n - to)
      /\ \A i \in 1 .. from - 1 + p + (n - to) :
           ((a \o part) \o b)[i] = IF i <= from - 1 + p THEN (a \o part)[i]
                                   ELSE b[i - (from - 1 + p)]
  <2> DEFINE ap == a \o part
  <2> HIDE DEF ap
  <2>1. ap \in Seq(Token) /\ Len(ap) = from - 1 + p
    BY <1>4 DEF ap
  <2>2. /\ ap \o b \in Seq(Token) /\ Len(ap \o b) = Len(ap) + Len(b)
        /\ \A i \in 1 .. Len(ap) + Len(b) :
             (ap \o b)[i] = IF i <= Len(ap) THEN ap[i] ELSE b[i - Len(ap)]
    <3>1. ap \in Seq(Token) /\ b \in Seq(Token)
      BY <1>3, <2>1
    <3> QED BY ONLY <3>1, ConcatProperties
  <2>3. /\ ap \o b \in Seq(Token) /\ Len(ap \o b) = from - 1 + p + (n - to)
        /\ \A i \in 1 .. from - 1 + p + (n - to) :
             (ap \o b)[i] = IF i <= from - 1 + p THEN ap[i] ELSE b[i - (from - 1 + p)]
    <3>1. Len(ap) + Len(b) = from - 1 + p + (n - to)
      BY <1>3, <2>1
    <3> QED BY <2>1, <2>2, <3>1
  <2> QED BY <2>3 DEF ap
<1>6. Splice(doc, from, to, part) = (a \o part) \o b
  BY DEF Splice, a, b
<1> DEFINE r == (a \o part) \o b
<1> HIDE DEF r
<1>7. /\ r \in Seq(Token) /\ Len(r) = n - (to - from + 1) + p
  BY <1>1, <1>5 DEF r
<1>8. ASSUME NEW i \in 1 .. n - (to - from + 1) + p
      PROVE r[i] = IF i < from THEN doc[i]
                   ELSE IF i < from + p THEN part[i - from + 1]
                   ELSE doc[i - p + (to - from + 1)]
  <2>1. i \in 1 .. from - 1 + p + (n - to) /\ i \in Nat
    BY <1>1
  <2>2. CASE i < from
    <3>1. r[i] = (a \o part)[i] /\ (a \o part)[i] = a[i] /\ a[i] = doc[i]
      <4>1. i <= from - 1 + p /\ i <= from - 1 /\ i \in 1 .. from - 1 + p /\ i \in 1 .. from - 1
        BY <1>1, <2>1, <2>2
      <4>2. r[i] = (a \o part)[i]
        BY <1>5, <2>1, <4>1 DEF r
      <4>3. (a \o part)[i] = a[i] /\ a[i] = doc[i]
        BY <1>2, <1>4, <4>1
      <4> QED BY <4>2, <4>3
    <3> QED BY <2>2, <3>1
  <2>3. CASE ~(i < from) /\ i < from + p
    <3>1. r[i] = (a \o part)[i] /\ (a \o part)[i] = part[i - (from - 1)] /\ i - (from - 1) = i - from + 1
      <4>1. i <= from - 1 + p /\ ~(i <= from - 1) /\ i \in 1 .. from - 1 + p /\ i - (from - 1) = i - from + 1
        BY <1>1, <2>1, <2>3
      <4>2. r[i] = (a \o part)[i]
        BY <1>5, <2>1, <4>1 DEF r
      <4>3. (a \o part)[i] = part[i - (from - 1)]
        BY <1>4, <4>1
      <4> QED BY <4>1, <4>2, <4>3
    <3> QED BY <2>3, <3>1
  <2>4. CASE ~(i < from) /\ ~(i < from + p)
    <3>1. /\ r[i] = b[i - (from - 1 + p)] /\ i - (from - 1 + p) \in 1 .. n - to
          /\ to + (i - (from - 1 + p)) = i - p + (to - from + 1)
      <4>1. ~(i <= from - 1 + p)
        BY <1>1, <2>1, <2>4
      <4>2. r[i] = b[i - (from - 1 + p)]
        BY <1>5, <2>1, <4>1 DEF r
      <4>3. /\ i - (from - 1 + p) \in 1 .. n - to
            /\ to + (i - (from - 1 + p)) = i - p + (to - from + 1)
        BY <1>1, <2>1, <4>1
      <4> QED BY <4>2, <4>3
    <3> QED BY <1>3, <2>4, <3>1
  <2> QED BY <2>2, <2>3, <2>4
<1> QED BY <1>6, <1>7, <1>8 DEF r

-----------------------------------------------------------------------------
(* The shape of a document. *)

Kinds(out) == IF out = "log" THEN {"header", "start", "body", "end"}
              ELSE (Marks \cup {"body"}) \ {"start", "end"}

\* What the writer keeps true of a document of the log, or of the source: its
\* markers nest, each in the document they belong to, the markers of a block's
\* outline name no message, and no two bodies are found under the same place.
Shape(doc, out) ==
  /\ doc \in Seq(Token) /\ Len(doc) > 0
  /\ doc[1] = Header /\ doc[Len(doc)][1] \in {"header", "end", "threadEnd"}
  /\ \A i \in 1 .. Len(doc) : doc[i][1] \in Kinds(out)
  /\ \A i \in 1 .. Len(doc) : doc[i][1] \in {"open", "close", "threadEnd"} => doc[i][2] = NoKey
  /\ \A i \in 1 .. Len(doc) - 1 : Follows(doc[i], doc[i + 1])
  /\ \A i, j \in 1 .. Len(doc) :
       doc[i][1] \in Opens /\ doc[i] = doc[j] => i = j
  /\ \A i, j \in BodiesAt(doc) : Place(doc, i) = Place(doc, j) => i = j

\* A document's blocks, or its entries, open with one kind of mark.
Opener(out) == IF out = "log" THEN "start" ELSE "thread"

LEMMA OpenersAre ==
  ASSUME NEW out \in Output, NEW doc, Shape(doc, out), NEW i \in 1 .. Len(doc)
  PROVE  /\ doc[i][1] \in Opens <=> doc[i][1] = Opener(out)
         /\ doc[i][1] \in Opens => doc[i] = Mark(Opener(out), doc[i][2])
<1>1. doc[i] \in Token /\ doc[i][1] \in Kinds(out)
  BY ElementOfSeq DEF Shape
<1>2. doc[i][1] \in Opens <=> doc[i][1] = Opener(out)
  BY <1>1 DEF Kinds, Opener, Opens, Output
<1>3. doc[i][1] \in Opens => doc[i][3] = 0
  BY <1>1, TokenParts DEF Opens
<1> QED BY <1>1, <1>2, <1>3, TokenParts DEF Mark

\* What may follow a mark, and what it may follow.
LEMMA Neighbours ==
  ASSUME NEW x, NEW y, Follows(x, y)
  PROVE  /\ x[1] \in {"start", "item"} => y[1] = "body" /\ y[2] = x[2]
         /\ x[1] = "body" => y[1] \in {"end", "itemEnd"} /\ y[2] = x[2]
         /\ x[1] = "thread" => y[1] = "open"
         /\ x[1] = "open" => y[1] = "item"
         /\ x[1] = "close" => y[1] = "threadEnd"
         /\ x[1] = "threadEnd" => y[1] = "thread"
         /\ y[1] = "threadEnd" => x[1] = "close"
         /\ y[1] = "close" => x[1] = "itemEnd"
         /\ y[1] = "thread" => x[1] \in {"header", "threadEnd"}
         /\ y[1] = "body" => x[1] \in {"start", "item"} /\ x[2] = y[2]
         /\ y[1] # "header"
BY DEF Follows

\* The same by place: a token that must be followed is not the last one.
LEMMA Next1 ==
  ASSUME NEW out \in Output, NEW doc, Shape(doc, out), NEW i \in 1 .. Len(doc)
  PROVE  /\ Len(doc) \in Nat /\ doc[i] \in Token /\ doc[1][1] = "header"
         /\ doc[i][1] \notin {"header", "end", "threadEnd"} =>
              i + 1 \in 1 .. Len(doc) /\ Follows(doc[i], doc[i + 1])
         /\ i > 1 => i - 1 \in 1 .. Len(doc) /\ Follows(doc[i - 1], doc[i]) /\ doc[i][1] # "header"
<1>1. Len(doc) \in Nat /\ doc[i] \in Token
  BY LenProperties, ElementOfSeq DEF Shape
<1>2. doc[1][1] = "header"
  BY MarksAreTokens DEF Shape
<1>3. ASSUME doc[i][1] \notin {"header", "end", "threadEnd"}
      PROVE  i + 1 \in 1 .. Len(doc) /\ Follows(doc[i], doc[i + 1])
  <2>1. i # Len(doc)
    BY <1>3 DEF Shape
  <2> QED BY <1>1, <2>1 DEF Shape
<1>4. ASSUME i > 1
      PROVE  i - 1 \in 1 .. Len(doc) /\ Follows(doc[i - 1], doc[i]) /\ doc[i][1] # "header"
  <2>1. i - 1 \in 1 .. Len(doc) - 1 /\ (i - 1) + 1 = i
    BY <1>1, <1>4
  <2>2. Follows(doc[i - 1], doc[i])
    BY <2>1 DEF Shape
  <2> QED BY <1>1, <2>1, <2>2, Neighbours
<1> QED BY <1>1, <1>2, <1>3, <1>4

\* A body and the marks around it name the same message.
LEMMA BodyFollows ==
  ASSUME NEW out \in Output, NEW doc, Shape(doc, out), NEW s \in 1 .. Len(doc),
         NEW k, doc[s][1] \in {"start", "item"}, doc[s][2] = k
  PROVE  /\ s + 1 \in 1 .. Len(doc) /\ s + 2 \in 1 .. Len(doc)
         /\ doc[s + 1][1] = "body" /\ doc[s + 1][2] = k
         /\ doc[s + 2] = Mark(IF out = "log" THEN "end" ELSE "itemEnd", k)
<1>1. s + 1 \in 1 .. Len(doc) /\ doc[s + 1][1] = "body" /\ doc[s + 1][2] = k
  BY Next1, Neighbours
<1>2. s + 2 \in 1 .. Len(doc) /\ doc[s + 2][1] \in {"end", "itemEnd"} /\ doc[s + 2][2] = k
  <2>1. (s + 1) + 1 \in 1 .. Len(doc) /\ Follows(doc[s + 1], doc[(s + 1) + 1]) /\ (s + 1) + 1 = s + 2
    <3>1. doc[s + 1][1] \notin {"header", "end", "threadEnd"} /\ Len(doc) \in Nat
      BY <1>1, Next1
    <3>2. (s + 1) + 1 = s + 2
      BY <3>1
    <3> QED BY <1>1, <3>1, <3>2, Next1
  <2> QED BY <1>1, <2>1, Neighbours
<1>3. doc[s + 2] \in Token /\ doc[s + 2][1] \in Kinds(out)
  BY <1>2, Next1 DEF Shape
<1>4. doc[s + 2][1] = (IF out = "log" THEN "end" ELSE "itemEnd")
  BY <1>2, <1>3 DEF Kinds, Marks, Output
<1> QED BY <1>1, <1>2, <1>3, <1>4, TokenParts DEF Mark

\* A thread's block: its first threadEnd e, and what is in between.
Block(doc, s, e) ==
  /\ s \in 1 .. Len(doc) /\ e \in 1 .. Len(doc) /\ s + 5 < e
  /\ doc[e] = Mark("threadEnd", NoKey) /\ doc[e - 1] = Mark("close", NoKey)
  /\ doc[e - 2][1] = "itemEnd" /\ doc[s + 3][1] = "body"
  /\ \A j \in s + 1 .. e - 1 : doc[j][1] \notin {"thread", "threadEnd"}
  /\ \A j \in s .. e - 2 : doc[j][1] # "close"

\* Every thread marker opens a block that is closed.
LEMMA BlockThere ==
  ASSUME NEW doc, Shape(doc, "ai"), NEW s \in 1 .. Len(doc), doc[s][1] = "thread"
  PROVE  \E e \in 1 .. Len(doc) : Block(doc, s, e)
<1> DEFINE n == Len(doc)
           ends == {j \in s + 1 .. n : doc[j][1] = "threadEnd"}
<1>1. n \in Nat /\ "ai" \in Output
  BY Next1 DEF Output
<1>2. n \in ends
  <2>1. s + 1 \in 1 .. n
    BY <1>1, Next1
  <2>2. n \in s + 1 .. n /\ n \in 1 .. n /\ n > 1
    BY <1>1, <2>1
  <2>3. doc[n][1] # "header" /\ doc[n][1] # "end"
    BY <1>1, <2>2, Next1 DEF Shape, Kinds
  <2> QED BY <2>2, <2>3 DEF Shape
<1>3. PICK e \in ends : \A j \in ends : e <= j
  <2>1. ends \subseteq Nat /\ ends # {}
    BY <1>1, <1>2
  <2> HIDE DEF ends
  <2> QED BY <2>1, LeastOfNaturals
<1>4. e \in s + 1 .. n /\ doc[e][1] = "threadEnd" /\ e \in 1 .. n
  BY <1>1, <1>3
<1>5. ASSUME NEW j \in s + 1 .. e - 1 PROVE doc[j][1] # "threadEnd" /\ j \in 1 .. n
  BY <1>1, <1>3, <1>4
<1>6. ASSUME NEW j \in s + 1 .. e - 1 PROVE doc[j][1] # "thread"
  <2> SUFFICES ASSUME doc[j][1] = "thread" PROVE FALSE
    OBVIOUS
  <2>1. j - 1 \in 1 .. n /\ doc[j - 1][1] \in {"header", "threadEnd"}
    BY <1>1, <1>4, <1>5, Next1, Neighbours
  <2>2. CASE j - 1 = s
    BY <2>1, <2>2
  <2>3. CASE j - 1 # s
    <3>1. j - 1 \in s + 1 .. e - 1 /\ j - 1 > 1
      BY <1>1, <1>4, <2>1, <2>3
    <3>2. doc[j - 1][1] # "header"
      BY <1>1, <2>1, <3>1, Next1
    <3> QED BY <1>5, <2>1, <3>1, <3>2
  <2> QED BY <2>2, <2>3
<1>7. ASSUME NEW j \in s .. e - 2 PROVE doc[j][1] # "close"
  <2> SUFFICES ASSUME doc[j][1] = "close" PROVE FALSE
    OBVIOUS
  <2>1. j \in 1 .. n /\ j + 1 \in s + 1 .. e - 1
    BY <1>1, <1>4
  <2>2. doc[j + 1][1] = "threadEnd"
    BY <1>1, <2>1, Next1, Neighbours
  <2> QED BY <1>5, <2>1, <2>2
<1>8. /\ s + 1 \in 1 .. n /\ doc[s + 1][1] = "open"
      /\ s + 2 \in 1 .. n /\ doc[s + 2][1] = "item"
      /\ s + 3 \in 1 .. n /\ doc[s + 3][1] = "body"
      /\ s + 4 \in 1 .. n /\ doc[s + 4][1] = "itemEnd"
  <2>1. s + 1 \in 1 .. n /\ doc[s + 1][1] = "open"
    BY <1>1, Next1, Neighbours
  <2>2. (s + 1) + 1 \in 1 .. n /\ doc[(s + 1) + 1][1] = "item"
    <3>1. doc[s + 1][1] \notin {"header", "end", "threadEnd"}
      BY <2>1
    <3>2. (s + 1) + 1 \in 1 .. n /\ Follows(doc[s + 1], doc[(s + 1) + 1])
      BY <1>1, <2>1, <3>1, Next1
    <3> QED BY <2>1, <3>2, Neighbours
  <2>3. s + 2 \in 1 .. n /\ doc[s + 2][1] = "item"
    BY <2>2
  <2>4. /\ (s + 2) + 1 \in 1 .. n /\ (s + 2) + 2 \in 1 .. n
        /\ doc[(s + 2) + 1][1] = "body"
        /\ doc[(s + 2) + 2] = Mark("itemEnd", doc[s + 2][2])
    <3> DEFINE i == s + 2
    <3>1. "ai" \in Output /\ i \in 1 .. Len(doc) /\ doc[i][1] \in {"start", "item"}
      BY <1>1, <2>3
    <3> HIDE DEF i
    <3>2. /\ i + 1 \in 1 .. Len(doc) /\ i + 2 \in 1 .. Len(doc) /\ doc[i + 1][1] = "body"
          /\ doc[i + 2] = Mark(IF "ai" = "log" THEN "end" ELSE "itemEnd", doc[i][2])
      BY <3>1, BodyFollows
    <3>3. (IF "ai" = "log" THEN "end" ELSE "itemEnd") = "itemEnd"
      OBVIOUS
    <3>4. /\ i + 1 \in 1 .. n /\ i + 2 \in 1 .. n /\ doc[i + 1][1] = "body"
          /\ doc[i + 2] = Mark("itemEnd", doc[i][2])
      BY <3>2, <3>3
    <3> QED BY <3>4 DEF i
  <2>5. Mark("itemEnd", doc[s + 2][2])[1] = "itemEnd"
    BY MarksAreTokens
  <2>6. /\ s + 3 \in 1 .. n /\ doc[s + 3][1] = "body"
        /\ s + 4 \in 1 .. n /\ doc[s + 4] = Mark("itemEnd", doc[s + 2][2])
    <3>1. (s + 2) + 1 = s + 3 /\ (s + 2) + 2 = s + 4
      BY <1>1
    <3> QED BY <2>4, <3>1
  <2> QED BY <2>1, <2>3, <2>5, <2>6
<1>9. e - 1 \in 1 .. n /\ doc[e - 1][1] = "close" /\ doc[e - 2][1] = "itemEnd" /\ e - 2 \in 1 .. n
  <2>1. e > 1 /\ e - 1 \in 1 .. n /\ e - 1 > 1 /\ (e - 1) - 1 = e - 2
    <3>1. e # s + 1
      BY <1>4, <1>8
    <3>2. n \in Nat /\ s \in Nat /\ s >= 1 /\ e \in s + 1 .. n
      BY <1>1, <1>4
    <3> QED BY <3>1, <3>2
  <2>2. doc[e - 1][1] = "close"
    BY <1>1, <1>4, <2>1, Next1, Neighbours
  <2>3. (e - 1) - 1 \in 1 .. n /\ Follows(doc[(e - 1) - 1], doc[e - 1])
    BY <1>1, <2>1, Next1
  <2> QED BY <2>1, <2>2, <2>3, Neighbours
<1>10. s + 5 < e
  <2>1. s \in Int /\ e \in Int /\ e >= s + 1
    BY <1>1, <1>4
  <2>2. e # s + 1 /\ e # s + 2 /\ e # s + 3 /\ e # s + 4
    BY <1>4, <1>8
  <2>3. e - 1 # s + 4
    BY <1>8, <1>9
  <2> QED BY ONLY <2>1, <2>2, <2>3
<1>11. doc[e] = Mark("threadEnd", NoKey) /\ doc[e - 1] = Mark("close", NoKey)
  <2>1. doc[e] \in Token /\ doc[e - 1] \in Token /\ doc[e][2] = NoKey /\ doc[e - 1][2] = NoKey
    BY <1>1, <1>4, <1>9, Next1 DEF Shape
  <2> QED BY <1>4, <1>9, <2>1, TokenParts DEF Mark
<1> QED BY <1>4, <1>5, <1>6, <1>7, <1>8, <1>9, <1>10, <1>11 DEF Block
-----------------------------------------------------------------------------
(* What the upserts do to a document that has its shape. *)

\* A body is replaced where it stands.
BodyReplaced(doc, doc2, i, k, v) ==
  /\ i \in 1 .. Len(doc) /\ doc[i][1] = "body" /\ doc[i][2] = k
  /\ doc2 \in Seq(Token) /\ Len(doc2) = Len(doc)
  /\ \A j \in 1 .. Len(doc) : doc2[j] = IF j = i THEN Body(k, v) ELSE doc[j]

\* An entry goes to the end of a log that has none of this message.
EntryAdded(doc, doc2, k, v) ==
  /\ \A i \in 1 .. Len(doc) : doc[i] # Mark("start", k)
  /\ doc2 \in Seq(Token) /\ Len(doc2) = Len(doc) + 3
  /\ \A j \in 1 .. Len(doc) : doc2[j] = doc[j]
  /\ doc2[Len(doc) + 1] = Mark("start", k)
  /\ doc2[Len(doc) + 2] = Body(k, v)
  /\ doc2[Len(doc) + 3] = Mark("end", k)

\* A block goes to the end of a source that has none of this thread.
BlockAdded(doc, doc2, t, k, v) ==
  /\ \A i \in 1 .. Len(doc) : doc[i] # Mark("thread", t)
  /\ doc2 \in Seq(Token) /\ Len(doc2) = Len(doc) + 7
  /\ \A j \in 1 .. Len(doc) : doc2[j] = doc[j]
  /\ doc2[Len(doc) + 1] = Mark("thread", t) /\ doc2[Len(doc) + 2] = Mark("open", NoKey)
  /\ doc2[Len(doc) + 3] = Mark("item", k)
  /\ doc2[Len(doc) + 4] = Body(k, v)
  /\ doc2[Len(doc) + 5] = Mark("itemEnd", k)
  /\ doc2[Len(doc) + 6] = Mark("close", NoKey) /\ doc2[Len(doc) + 7] = Mark("threadEnd", NoKey)

\* An item goes to the end of its thread's block, before the closing line at c.
ItemAdded(doc, doc2, s, c, t, k, v) ==
  /\ doc[s] = Mark("thread", t) /\ Block(doc, s, c + 1) /\ c \in 1 .. Len(doc)
  /\ \A i \in s .. c - 1 : doc[i] # Mark("item", k)
  /\ doc2 \in Seq(Token) /\ Len(doc2) = Len(doc) + 3
  /\ \A j \in 1 .. c - 1 : doc2[j] = doc[j]
  /\ doc2[c] = Mark("item", k) /\ doc2[c + 1] = Body(k, v) /\ doc2[c + 2] = Mark("itemEnd", k)
  /\ \A j \in c .. Len(doc) : doc2[j + 3] = doc[j]

\* Where the tokens of two parts stand once they are joined.
LEMMA Concat ==
  ASSUME NEW a \in Seq(Token), NEW b \in Seq(Token)
  PROVE  /\ a \o b \in Seq(Token) /\ Len(a \o b) = Len(a) + Len(b)
         /\ Len(a) \in Nat /\ Len(b) \in Nat
         /\ \A i \in 1 .. Len(a) : (a \o b)[i] = a[i]
         /\ \A i \in 1 .. Len(b) : (a \o b)[Len(a) + i] = b[i]
<1>1. /\ a \o b \in Seq(Token) /\ Len(a \o b) = Len(a) + Len(b)
      /\ \A i \in 1 .. Len(a) + Len(b) :
           (a \o b)[i] = IF i <= Len(a) THEN a[i] ELSE b[i - Len(a)]
  BY ConcatProperties
<1>2. Len(a) \in Nat /\ Len(b) \in Nat
  BY LenProperties
<1>3. ASSUME NEW i \in 1 .. Len(a) PROVE (a \o b)[i] = a[i]
  BY <1>1, <1>2
<1>4. ASSUME NEW i \in 1 .. Len(b) PROVE (a \o b)[Len(a) + i] = b[i]
  <2>1. Len(a) + i \in 1 .. Len(a) + Len(b) /\ ~(Len(a) + i <= Len(a)) /\ (Len(a) + i) - Len(a) = i
    BY <1>2
  <2> QED BY <1>1, <2>1
<1> QED BY <1>1, <1>2, <1>3, <1>4

\* An entry of the log and an item of the source are three tokens.
LEMMA SmallParts ==
  ASSUME NEW k \in Key, NEW v \in Version
  PROVE  /\ RenderEntry(k, <<Body(k, v)>>) \in Seq(Token) /\ Len(RenderEntry(k, <<Body(k, v)>>)) = 3
         /\ RenderEntry(k, <<Body(k, v)>>)[1] = Mark("start", k) /\ RenderEntry(k, <<Body(k, v)>>)[2] = Body(k, v)
         /\ RenderEntry(k, <<Body(k, v)>>)[3] = Mark("end", k)
         /\ RenderItem(k, <<Body(k, v)>>) \in Seq(Token) /\ Len(RenderItem(k, <<Body(k, v)>>)) = 3
         /\ RenderItem(k, <<Body(k, v)>>)[1] = Mark("item", k) /\ RenderItem(k, <<Body(k, v)>>)[2] = Body(k, v)
         /\ RenderItem(k, <<Body(k, v)>>)[3] = Mark("itemEnd", k)
<1>1. /\ Mark("start", k) \in Token /\ Mark("end", k) \in Token
      /\ Mark("item", k) \in Token /\ Mark("itemEnd", k) \in Token
      /\ Body(k, v) \in Token
  BY MarksAreTokens DEF Marks
<1> QED BY <1>1 DEF RenderEntry, RenderItem

\* The block that starts a thread, token by token.
LEMMA NewBlock ==
  ASSUME NEW t \in Key, NEW item \in Seq(Token), Len(item) = 3
  PROVE  LET b == ThreadBlock(t, item) IN
         /\ b \in Seq(Token) /\ Len(b) = 7
         /\ b[1] = Mark("thread", t) /\ b[2] = Mark("open", NoKey)
         /\ b[3] = item[1] /\ b[4] = item[2] /\ b[5] = item[3]
         /\ b[6] = Mark("close", NoKey) /\ b[7] = Mark("threadEnd", NoKey)
<1> DEFINE x == <<Mark("thread", t), Mark("open", NoKey)>>
           y == <<Mark("close", NoKey), Mark("threadEnd", NoKey)>>
<1>1. /\ Mark("thread", t) \in Token /\ Mark("open", NoKey) \in Token
      /\ Mark("close", NoKey) \in Token /\ Mark("threadEnd", NoKey) \in Token
  BY MarksAreTokens DEF Marks
<1>2. /\ x \in Seq(Token) /\ Len(x) = 2
      /\ x[1] = Mark("thread", t) /\ x[2] = Mark("open", NoKey)
      /\ y \in Seq(Token) /\ Len(y) = 2
      /\ y[1] = Mark("close", NoKey) /\ y[2] = Mark("threadEnd", NoKey)
  BY <1>1
<1>3. ThreadBlock(t, item) = (x \o item) \o y
  BY DEF ThreadBlock
<1> HIDE DEF x, y
<1>4. /\ x \o item \in Seq(Token) /\ Len(x \o item) = 2 + 3
      /\ \A i \in 1 .. 2 : (x \o item)[i] = x[i]
      /\ \A i \in 1 .. 3 : (x \o item)[2 + i] = item[i]
  <2> DEFINE z == x \o item
  <2>1. /\ z \in Seq(Token) /\ Len(z) = Len(x) + Len(item)
        /\ \A i \in 1 .. Len(x) : z[i] = x[i]
        /\ \A i \in 1 .. Len(item) : z[Len(x) + i] = item[i]
    BY <1>2, Concat
  <2> HIDE DEF z
  <2>2. /\ z \in Seq(Token) /\ Len(z) = 2 + 3
        /\ \A i \in 1 .. 2 : z[i] = x[i]
        /\ \A i \in 1 .. 3 : z[2 + i] = item[i]
    BY <1>2, <2>1
  <2> QED BY <2>2 DEF z
<1> DEFINE z == x \o item
           b == z \o y
<1>5. z \in Seq(Token) /\ Len(z) = 5 /\ z[1] = x[1] /\ z[2] = x[2]
      /\ z[3] = item[1] /\ z[4] = item[2] /\ z[5] = item[3]
  <2> HIDE DEF z
  <2>1. /\ z \in Seq(Token) /\ Len(z) = 5 /\ 1 \in 1 .. 2 /\ 2 \in 1 .. 2
        /\ \A i \in 1 .. 2 : z[i] = x[i]
        /\ z[2 + 1] = item[1] /\ z[2 + 2] = item[2] /\ z[2 + 3] = item[3]
    BY <1>4 DEF z
  <2> QED BY <2>1
<1> HIDE DEF z
<1>6. /\ b \in Seq(Token) /\ Len(b) = Len(z) + Len(y)
      /\ \A i \in 1 .. Len(z) : b[i] = z[i]
      /\ \A i \in 1 .. Len(y) : b[Len(z) + i] = y[i]
  BY <1>2, <1>5, Concat
<1> HIDE DEF b
<1>7. /\ b \in Seq(Token) /\ Len(b) = 7
      /\ b[1] = z[1] /\ b[2] = z[2] /\ b[3] = z[3] /\ b[4] = z[4] /\ b[5] = z[5]
      /\ b[5 + 1] = y[1] /\ b[5 + 2] = y[2]
  BY <1>2, <1>5, <1>6
<1>8. ThreadBlock(t, item) = b
  BY <1>3 DEF b, z
<1> QED BY <1>2, <1>5, <1>7, <1>8

\* Three tokens put in place of three.
LEMMA ReplaceThree ==
  ASSUME NEW doc \in Seq(Token), NEW s \in 1 .. Len(doc), s + 2 \in 1 .. Len(doc),
         NEW part \in Seq(Token), Len(part) = 3
  PROVE  LET r == Splice(doc, s, s + 2, part) IN
         /\ r \in Seq(Token) /\ Len(r) = Len(doc)
         /\ r[s] = part[1] /\ r[s + 1] = part[2] /\ r[s + 2] = part[3]
         /\ \A i \in 1 .. Len(doc) : i < s \/ i > s + 2 => r[i] = doc[i]
<1> DEFINE to == s + 2
           r == Splice(doc, s, to, part)
<1>1. Len(doc) \in Nat /\ s \in Int /\ to - s + 1 = 3 /\ s \in 1 .. Len(doc) + 1 /\ to \in s - 1 .. Len(doc)
  BY LenProperties
<1>2. /\ r \in Seq(Token) /\ Len(r) = Len(doc) - (to - s + 1) + Len(part)
      /\ \A i \in 1 .. Len(doc) - (to - s + 1) + Len(part) :
           r[i] = IF i < s THEN doc[i]
                  ELSE IF i < s + Len(part) THEN part[i - s + 1]
                  ELSE doc[i - Len(part) + (to - s + 1)]
  <2> HIDE DEF to
  <2> QED BY <1>1, SpliceIs
<1> HIDE DEF to, r
<1>3. Len(r) = Len(doc)
  <2>1. Len(r) = Len(doc) - 3 + 3
    BY <1>1, <1>2
  <2> QED BY <1>1, <2>1
<1>4. ASSUME NEW i \in 1 .. Len(doc)
      PROVE  r[i] = IF i < s THEN doc[i] ELSE IF i < s + 3 THEN part[i - s + 1] ELSE doc[i]
  <2>1. /\ Len(doc) - (to - s + 1) + Len(part) = Len(doc)
        /\ i - Len(part) + (to - s + 1) = i /\ s + Len(part) = s + 3
    BY <1>1
  <2> QED BY <1>2, <2>1
<1>5. /\ s - s + 1 = 1 /\ (s + 1) - s + 1 = 2 /\ (s + 2) - s + 1 = 3
      /\ s + 1 \in 1 .. Len(doc) /\ ~(s < s) /\ ~(s + 1 < s) /\ ~(s + 2 < s)
      /\ s < s + 3 /\ s + 1 < s + 3 /\ s + 2 < s + 3
  BY <1>1
<1>6. r[s] = part[1] /\ r[s + 1] = part[2] /\ r[s + 2] = part[3]
  <2>1. s \in 1 .. Len(doc) /\ s + 1 \in 1 .. Len(doc) /\ s + 2 \in 1 .. Len(doc)
    BY <1>1, <1>5
  <2>2. /\ r[s] = part[s - s + 1] /\ r[s + 1] = part[(s + 1) - s + 1]
        /\ r[s + 2] = part[(s + 2) - s + 1]
    BY <1>4, <1>5, <2>1
  <2> QED BY <1>5, <2>2
<1>7. \A i \in 1 .. Len(doc) : i < s \/ i > s + 2 => r[i] = doc[i]
  BY <1>1, <1>4, SMTT(30)
<1> QED BY <1>2, <1>3, <1>6, <1>7 DEF r, to

\* Three tokens put in before a place.
LEMMA InsertThree ==
  ASSUME NEW doc \in Seq(Token), NEW c \in 1 .. Len(doc),
         NEW part \in Seq(Token), Len(part) = 3
  PROVE  LET r == Splice(doc, c, c - 1, part) IN
         /\ r \in Seq(Token) /\ Len(r) = Len(doc) + 3
         /\ r[c] = part[1] /\ r[c + 1] = part[2] /\ r[c + 2] = part[3]
         /\ \A j \in 1 .. c - 1 : r[j] = doc[j]
         /\ \A j \in c .. Len(doc) : r[j + 3] = doc[j]
<1> DEFINE to == c - 1
           r == Splice(doc, c, to, part)
<1>1. Len(doc) \in Nat /\ c \in Int /\ to - c + 1 = 0 /\ c \in 1 .. Len(doc) + 1 /\ to \in c - 1 .. Len(doc)
  BY LenProperties
<1>2. /\ r \in Seq(Token) /\ Len(r) = Len(doc) - (to - c + 1) + Len(part)
      /\ \A i \in 1 .. Len(doc) - (to - c + 1) + Len(part) :
           r[i] = IF i < c THEN doc[i]
                  ELSE IF i < c + Len(part) THEN part[i - c + 1]
                  ELSE doc[i - Len(part) + (to - c + 1)]
  <2> HIDE DEF to
  <2> QED BY <1>1, SpliceIs
<1> HIDE DEF to, r
<1>3. Len(r) = Len(doc) + 3
  <2>1. Len(r) = Len(doc) - 0 + 3
    BY <1>1, <1>2
  <2> QED BY <1>1, <2>1
<1>4. ASSUME NEW i \in 1 .. Len(doc) + 3
      PROVE  r[i] = IF i < c THEN doc[i] ELSE IF i < c + 3 THEN part[i - c + 1] ELSE doc[i - 3]
  <2>1. /\ Len(doc) - (to - c + 1) + Len(part) = Len(doc) + 3
        /\ i - Len(part) + (to - c + 1) = i - 3 /\ c + Len(part) = c + 3
    BY <1>1
  <2> QED BY <1>2, <2>1
<1>5. /\ c - c + 1 = 1 /\ (c + 1) - c + 1 = 2 /\ (c + 2) - c + 1 = 3
      /\ c \in 1 .. Len(doc) + 3 /\ c + 1 \in 1 .. Len(doc) + 3 /\ c + 2 \in 1 .. Len(doc) + 3
      /\ ~(c < c) /\ ~(c + 1 < c) /\ ~(c + 2 < c)
      /\ c < c + 3 /\ c + 1 < c + 3 /\ c + 2 < c + 3
  BY <1>1
<1>6. r[c] = part[1] /\ r[c + 1] = part[2] /\ r[c + 2] = part[3]
  BY <1>4, <1>5
<1>7. ASSUME NEW j \in 1 .. c - 1 PROVE r[j] = doc[j]
  <2>1. j \in 1 .. Len(doc) + 3 /\ j < c
    BY <1>1
  <2> QED BY <1>4, <2>1
<1>8. ASSUME NEW j \in c .. Len(doc) PROVE r[j + 3] = doc[j]
  <2>1. j + 3 \in 1 .. Len(doc) + 3 /\ ~(j + 3 < c) /\ ~(j + 3 < c + 3) /\ (j + 3) - 3 = j
    BY <1>1
  <2> QED BY <1>4, <2>1
<1> QED BY <1>2, <1>3, <1>6, <1>7, <1>8 DEF r, to

\* The upsert of the log appends an entry or renews the body of one.
LEMMA LogUpsert ==
  ASSUME NEW doc, Shape(doc, "log"), NEW k \in Key, NEW v \in Version, NEW doc2,
         doc2 = UpsertDailyEntry(doc, k, RenderEntry(k, <<Body(k, v)>>))
  PROVE  EntryAdded(doc, doc2, k, v) \/ \E i \in 1 .. Len(doc) : BodyReplaced(doc, doc2, i, k, v)
<1> DEFINE n == Len(doc)
           entry == RenderEntry(k, <<Body(k, v)>>)
<1>1. doc \in Seq(Token) /\ n \in Nat /\ "log" \in Output
  BY LenProperties DEF Shape, Output
<1>2. /\ entry \in Seq(Token) /\ Len(entry) = 3 /\ entry[1] = Mark("start", k)
      /\ entry[2] = Body(k, v) /\ entry[3] = Mark("end", k)
  BY SmallParts
<1> HIDE DEF entry
<1>3. CASE \A i \in 1 .. n : doc[i] # Mark("start", k)
  <2>1. IndexFrom(doc, 1, Mark("start", k)) = 0
    BY <1>3, IndexNone
  <2>2. doc2 = doc \o entry
    BY <2>1 DEF UpsertDailyEntry, entry
  <2>3. /\ doc \o entry \in Seq(Token) /\ Len(doc \o entry) = n + 3
        /\ \A i \in 1 .. n : (doc \o entry)[i] = doc[i]
        /\ \A i \in 1 .. 3 : (doc \o entry)[n + i] = entry[i]
    <3>1. /\ doc \o entry \in Seq(Token) /\ Len(doc \o entry) = n + Len(entry)
          /\ \A i \in 1 .. n : (doc \o entry)[i] = doc[i]
          /\ \A i \in 1 .. Len(entry) : (doc \o entry)[n + i] = entry[i]
      BY <1>1, <1>2, Concat
    <3> QED BY <1>2, <3>1
  <2>4. doc2[n + 1] = entry[1] /\ doc2[n + 2] = entry[2] /\ doc2[n + 3] = entry[3]
    <3>1. 1 \in 1 .. 3 /\ 2 \in 1 .. 3 /\ 3 \in 1 .. 3
      OBVIOUS
    <3> QED BY <2>2, <2>3, <3>1
  <2>5. doc2 \in Seq(Token) /\ Len(doc2) = n + 3 /\ \A i \in 1 .. n : doc2[i] = doc[i]
    BY <2>2, <2>3
  <2> QED BY <1>2, <1>3, <2>4, <2>5 DEF EntryAdded
<1>4. CASE \E i \in 1 .. n : doc[i] = Mark("start", k)
  <2> DEFINE s == IndexFrom(doc, 1, Mark("start", k))
  <2>1. s \in 1 .. n /\ doc[s] = Mark("start", k) /\ s # 0
    BY <1>1, <1>4, IndexFound
  <2> HIDE DEF s
  <2>2. /\ s + 1 \in 1 .. n /\ s + 2 \in 1 .. n
        /\ doc[s + 1][1] = "body" /\ doc[s + 1][2] = k /\ doc[s + 2] = Mark("end", k)
    <3>1. doc[s][1] \in {"start", "item"} /\ doc[s][2] = k
      BY <2>1, MarksAreTokens
    <3> QED BY <1>1, <2>1, <3>1, BodyFollows
  <2>3. IndexFrom(doc, s, Mark("end", k)) = s + 2
    <3>1. doc[s] # Mark("end", k) /\ doc[s + 1] # Mark("end", k)
      BY <2>1, <2>2, MarksAreTokens
    <3>2. s \in Nat \ {0} /\ s + 2 \in s .. n /\ s .. (s + 2) - 1 = {s, s + 1}
      BY <1>1, <2>1, <2>2
    <3> QED BY <1>1, <2>2, <3>1, <3>2, IndexIs
  <2>4. doc2 = Splice(doc, s, s + 2, entry)
    BY <2>1, <2>3 DEF UpsertDailyEntry, s, entry
  <2>5. /\ doc2 \in Seq(Token) /\ Len(doc2) = n
        /\ doc2[s] = entry[1] /\ doc2[s + 1] = entry[2] /\ doc2[s + 2] = entry[3]
        /\ \A i \in 1 .. n : i < s \/ i > s + 2 => doc2[i] = doc[i]
    <3>1. doc \in Seq(Token) /\ s \in 1 .. Len(doc) /\ s + 2 \in 1 .. Len(doc) /\ entry \in Seq(Token) /\ Len(entry) = 3
      BY <1>1, <1>2, <2>1, <2>2
    <3> QED BY ONLY <2>4, <3>1, ReplaceThree
  <2>6. ASSUME NEW j \in 1 .. n PROVE doc2[j] = IF j = s + 1 THEN Body(k, v) ELSE doc[j]
    <3>1. j < s \/ j > s + 2 \/ j = s \/ j = s + 1 \/ j = s + 2
      BY <1>1, <2>1
    <3>2. s # s + 1 /\ s + 2 # s + 1 /\ ((j < s \/ j > s + 2) => j # s + 1)
      BY <1>1, <2>1
    <3> QED BY <1>2, <2>1, <2>2, <2>5, <3>1, <3>2
  <2> QED BY <2>2, <2>5, <2>6 DEF BodyReplaced
<1> QED BY <1>3, <1>4
\* The part of a document before its place e is searched as the document is.
LEMMA Prefix ==
  ASSUME NEW doc \in Seq(Token), NEW e \in 1 .. Len(doc)
  PROVE  LET p == SubSeq(doc, 1, e - 1) IN
         p \in Seq(Token) /\ Len(p) = e - 1 /\ \A i \in 1 .. e - 1 : p[i] = doc[i]
<1>1. Len(doc) \in Nat /\ \A i \in 1 .. e - 1 : doc[i] \in Token
  BY LenProperties, ElementOfSeq
<1> DEFINE p == SubSeq(doc, 1, e - 1)
<1>2. /\ p \in Seq(Token) /\ Len(p) = IF 1 <= e - 1 THEN (e - 1) - 1 + 1 ELSE 0
      /\ \A i \in 1 .. (e - 1) - 1 + 1 : p[i] = doc[1 + i - 1]
  BY <1>1, SubSeqProperties
<1> HIDE DEF p
<1>3. p \in Seq(Token) /\ Len(p) = e - 1 /\ \A i \in 1 .. e - 1 : p[i] = doc[i]
  BY <1>1, <1>2
<1> QED BY <1>3 DEF p

\* The upsert of the source appends a block, renews a body, or adds an item
\* at the end of its block.
LEMMA AiUpsert ==
  ASSUME NEW doc, Shape(doc, "ai"), NEW t \in Key, NEW k \in Key, NEW v \in Version, NEW doc2,
         doc2 = UpsertAiThreadItem(doc, t, k, RenderItem(k, <<Body(k, v)>>))
  PROVE  \/ BlockAdded(doc, doc2, t, k, v)
         \/ \E i \in 1 .. Len(doc) : BodyReplaced(doc, doc2, i, k, v)
         \/ \E s, c \in 1 .. Len(doc) : ItemAdded(doc, doc2, s, c, t, k, v)
<1> DEFINE n == Len(doc)
           item == RenderItem(k, <<Body(k, v)>>)
<1>1. doc \in Seq(Token) /\ n \in Nat /\ "ai" \in Output /\ "ai" # "log"
  BY LenProperties DEF Shape, Output
<1>2. /\ item \in Seq(Token) /\ Len(item) = 3 /\ item[1] = Mark("item", k)
      /\ item[2] = Body(k, v) /\ item[3] = Mark("itemEnd", k)
  BY SmallParts
<1>3. CASE \A i \in 1 .. n : doc[i] # Mark("thread", t)
  <2> DEFINE b == ThreadBlock(t, item)
  <2>1. IndexFrom(doc, 1, Mark("thread", t)) = 0
    BY <1>3, IndexNone
  <2>2. doc2 = doc \o b
    BY <2>1 DEF UpsertAiThreadItem
  <2> HIDE DEF item
  <2>3. /\ b \in Seq(Token) /\ Len(b) = 7
        /\ b[1] = Mark("thread", t) /\ b[2] = Mark("open", NoKey)
        /\ b[3] = Mark("item", k) /\ b[4] = Body(k, v) /\ b[5] = Mark("itemEnd", k)
        /\ b[6] = Mark("close", NoKey) /\ b[7] = Mark("threadEnd", NoKey)
    BY <1>2, NewBlock
  <2> HIDE DEF b
  <2>4. /\ doc2 \in Seq(Token) /\ Len(doc2) = n + Len(b)
        /\ \A i \in 1 .. n : doc2[i] = doc[i]
        /\ \A i \in 1 .. Len(b) : doc2[n + i] = b[i]
    <3>1. doc \in Seq(Token) /\ b \in Seq(Token)
      BY <1>1, <2>3
    <3> QED BY ONLY <2>2, <3>1, Concat
  <2>5. /\ doc2[n + 1] = b[1] /\ doc2[n + 2] = b[2] /\ doc2[n + 3] = b[3] /\ doc2[n + 4] = b[4]
        /\ doc2[n + 5] = b[5] /\ doc2[n + 6] = b[6] /\ doc2[n + 7] = b[7]
    <3>1. \A i \in {1, 2, 3, 4, 5, 6, 7} : i \in 1 .. Len(b)
      BY <2>3
    <3> QED BY <2>4, <3>1
  <2>6. doc2 \in Seq(Token) /\ Len(doc2) = n + 7 /\ \A i \in 1 .. n : doc2[i] = doc[i]
    BY <2>3, <2>4
  <2> QED BY <1>3, <2>3, <2>5, <2>6 DEF BlockAdded
<1>4. CASE \E i \in 1 .. n : doc[i] = Mark("thread", t)
  <2> DEFINE s == IndexFrom(doc, 1, Mark("thread", t))
  <2>1. s \in 1 .. n /\ doc[s] = Mark("thread", t) /\ s # 0 /\ doc[s][1] = "thread"
    <3>1. s \in 1 .. n /\ doc[s] = Mark("thread", t)
      BY <1>1, <1>4, IndexFound
    <3> QED BY <1>1, <3>1, MarksAreTokens
  <2> HIDE DEF s
  <2>2. PICK e \in 1 .. n : Block(doc, s, e)
    BY <2>1, BlockThere
  <2>3. e # 0 /\ s + 5 < e /\ doc[e] = Mark("threadEnd", NoKey) /\ e \in Int /\ s \in Int
    BY <1>1, <2>1, <2>2 DEF Block
  <2>4. IndexFrom(doc, s, Mark("threadEnd", NoKey)) = e
    <3>1. \A j \in s .. e - 1 : doc[j] # Mark("threadEnd", NoKey)
      BY <2>1, <2>2, MarksAreTokens DEF Block
    <3>2. s \in Nat \ {0} /\ e \in s .. Len(doc)
      BY <1>1, <2>1, <2>3
    <3> QED BY <1>1, <2>3, <3>1, <3>2, IndexIs
  <2> DEFINE p  == SubSeq(doc, 1, e - 1)
             is == IndexFrom(p, s, Mark("item", k))
             ie == IF is = 0 THEN 0 ELSE IndexFrom(p, is, Mark("itemEnd", k))
             at == InsertionPoint(doc, s, e)
  <2>5. doc2 = IF ie # 0 THEN Splice(doc, is, ie, item) ELSE Splice(doc, at, at - 1, item)
    BY <2>1, <2>3, <2>4 DEF UpsertAiThreadItem, s
  <2>6. p \in Seq(Token) /\ Len(p) = e - 1 /\ \A i \in 1 .. e - 1 : p[i] = doc[i]
    BY <1>1, Prefix
  <2>7. at = e - 1
    <3>1. p[e - 1] = Mark("close", NoKey) /\ e - 1 \in s .. Len(p)
      BY <2>1, <2>2, <2>3, <2>6 DEF Block
    <3>2. \A j \in s .. (e - 1) - 1 : p[j] # Mark("close", NoKey)
      <4>1. ASSUME NEW j \in s .. (e - 1) - 1 PROVE p[j] # Mark("close", NoKey)
        <5>1. j \in s .. e - 2 /\ j \in 1 .. e - 1
          BY <2>1, <2>3
        <5>2. doc[j][1] # "close" /\ p[j] = doc[j]
          BY <2>2, <2>6, <5>1 DEF Block
        <5>3. Mark("close", NoKey)[1] = "close"
          BY MarksAreTokens
        <5> QED BY <5>2, <5>3
      <4> QED BY <4>1
    <3> HIDE DEF p
    <3>3. IndexFrom(p, s, Mark("close", NoKey)) = e - 1
      <4>1. s \in Nat \ {0}
        BY <1>1, <2>1
      <4> QED BY <2>6, <3>1, <3>2, <4>1, IndexIs
    <3>4. e - 1 # 0
      BY <1>1, <2>1, <2>3
    <3> QED BY <3>3, <3>4 DEF InsertionPoint, p
  <2> HIDE DEF p, at, item
  <2>8. CASE \A i \in s .. e - 1 : doc[i] # Mark("item", k)
    <3>1. is = 0
      <4>1. \A i \in s .. Len(p) : p[i] # Mark("item", k)
        BY <2>1, <2>3, <2>6, <2>8
      <4> QED BY <4>1, IndexNone
    <3>2. doc2 = Splice(doc, e - 1, (e - 1) - 1, item)
      BY <2>5, <2>7, <3>1
    <3> DEFINE c == e - 1
    <3>3. c \in 1 .. n /\ c + 1 = e
      BY <1>1, <2>1, <2>3
    <3> HIDE DEF c
    <3>4. doc2 = Splice(doc, c, c - 1, item)
      BY <3>2 DEF c
    <3>5. /\ doc2 \in Seq(Token) /\ Len(doc2) = n + 3
          /\ doc2[c] = item[1] /\ doc2[c + 1] = item[2] /\ doc2[c + 2] = item[3]
          /\ \A j \in 1 .. c - 1 : doc2[j] = doc[j]
          /\ \A j \in c .. n : doc2[j + 3] = doc[j]
      <4>1. doc \in Seq(Token) /\ c \in 1 .. Len(doc) /\ item \in Seq(Token) /\ Len(item) = 3
        BY <1>1, <1>2, <3>3
      <4> QED BY ONLY <3>4, <4>1, InsertThree
    <3>9. Block(doc, s, c + 1) /\ \A i \in s .. c - 1 : doc[i] # Mark("item", k)
      <4>1. s .. c - 1 \subseteq s .. e - 1
        BY <1>1, <2>1, <3>3
      <4> QED BY <2>2, <2>8, <3>3, <4>1
    <3>10. ItemAdded(doc, doc2, s, c, t, k, v)
      BY <1>2, <2>1, <3>3, <3>5, <3>9 DEF ItemAdded
    <3> QED BY <2>1, <3>3, <3>10
  <2>9. CASE \E i \in s .. e - 1 : doc[i] = Mark("item", k)
    <3>1. is \in s .. e - 1 /\ p[is] = Mark("item", k)
      <4>1. PICK i \in s .. e - 1 : doc[i] = Mark("item", k)
        BY <2>9
      <4>2. i \in s .. Len(p) /\ p[i] = Mark("item", k) /\ s \in Nat \ {0}
        BY <2>1, <2>3, <2>6, <4>1
      <4> QED BY <2>6, <4>2, IndexFound
    <3> HIDE DEF is
    <3>2. is \in 1 .. n /\ is \in 1 .. e - 1 /\ is # 0 /\ doc[is] = Mark("item", k)
      BY <1>1, <2>1, <2>3, <2>6, <3>1
    <3>3. /\ is + 1 \in 1 .. n /\ is + 2 \in 1 .. n
          /\ doc[is + 1][1] = "body" /\ doc[is + 1][2] = k /\ doc[is + 2] = Mark("itemEnd", k)
      <4>1. doc[is][1] \in {"start", "item"} /\ doc[is][2] = k
        BY <3>2, MarksAreTokens
      <4> QED BY <1>1, <3>2, <4>1, BodyFollows
    <3>4. is + 2 \in 1 .. e - 1
      <4>1. doc[e - 1][1] = "close" /\ doc[is][1] = "item"
        BY <2>2, <3>2, MarksAreTokens DEF Block
      <4>2. is # e - 1 /\ is + 1 # e - 1
        BY <3>3, <4>1
      <4> QED BY <2>3, <3>2, <4>2
    <3>5. IndexFrom(p, is, Mark("itemEnd", k)) = is + 2
      <4>1. p[is] # Mark("itemEnd", k) /\ p[is + 1] # Mark("itemEnd", k) /\ p[is + 2] = Mark("itemEnd", k)
        <5>1. is + 1 \in 1 .. e - 1
          BY <3>2, <3>4
        <5> QED BY <2>6, <3>1, <3>3, <3>4, <5>1, MarksAreTokens, SMTT(30)
      <4>2. is \in Nat \ {0} /\ is + 2 \in is .. Len(p) /\ is .. (is + 2) - 1 = {is, is + 1}
        <5>1. is \in Nat /\ is >= 1 /\ Len(p) \in Nat /\ is + 2 <= Len(p)
          BY <1>1, <2>3, <2>6, <3>2, <3>4
        <5> QED BY ONLY <5>1
      <4>3. \A j \in is .. (is + 2) - 1 : p[j] # Mark("itemEnd", k)
        BY <4>1, <4>2
      <4>4. p \in Seq(Token)
        BY <2>6
      <4> QED BY ONLY <4>1, <4>2, <4>3, <4>4, IndexIs
    <3>6. doc2 = Splice(doc, is, is + 2, item)
      BY <2>5, <3>2, <3>5
    <3>9. /\ doc2 \in Seq(Token) /\ Len(doc2) = n
          /\ doc2[is] = item[1] /\ doc2[is + 1] = item[2] /\ doc2[is + 2] = item[3]
          /\ \A i \in 1 .. n : i < is \/ i > is + 2 => doc2[i] = doc[i]
      <4>1. doc \in Seq(Token) /\ is \in 1 .. Len(doc) /\ is + 2 \in 1 .. Len(doc) /\ item \in Seq(Token) /\ Len(item) = 3
        BY <1>1, <1>2, <3>2, <3>3
      <4> QED BY ONLY <3>6, <4>1, ReplaceThree
    <3>10. ASSUME NEW j \in 1 .. n PROVE doc2[j] = IF j = is + 1 THEN Body(k, v) ELSE doc[j]
      <4>1. j < is \/ j > is + 2 \/ j = is \/ j = is + 1 \/ j = is + 2
        BY <1>1, <3>2
      <4>2. is # is + 1 /\ is + 2 # is + 1 /\ ((j < is \/ j > is + 2) => j # is + 1)
        BY <1>1, <3>2
      <4> QED BY <1>2, <3>2, <3>3, <3>9, <4>1, <4>2
    <3> QED BY <3>3, <3>9, <3>10 DEF BodyReplaced
  <2> QED BY <2>8, <2>9
<1> QED BY <1>3, <1>4
-----------------------------------------------------------------------------
(* The block a place is in. *)

\* The block a place is in is that of the last opening marker up to it,
LEMMA BlockIs ==
  ASSUME NEW doc, NEW i \in Nat, NEW j \in 1 .. i, doc[j][1] \in Opens,
         \A h \in j + 1 .. i : doc[h][1] \notin Opens
  PROVE  BlockOf(doc, i) = doc[j][2]
<1> DEFINE starts == {h \in 1 .. i : doc[h][1] \in Opens}
<1>1. j \in starts /\ \A h \in starts : h <= j
  OBVIOUS
<1>2. \A m \in starts : (\A h \in starts : h <= m) => m = j
  BY <1>1
<1>3. (CHOOSE m \in starts : \A h \in starts : h <= m) = j
  <2> HIDE DEF starts
  <2> QED BY <1>1, <1>2
<1> QED BY <1>1, <1>3 DEF BlockOf

\* and none without such a marker:
LEMMA BlockNone ==
  ASSUME NEW doc, NEW i, \A h \in 1 .. i : doc[h][1] \notin Opens
  PROVE  BlockOf(doc, i) = NoKey
BY DEF BlockOf

\* one of the two is the case.
LEMMA BlockCases ==
  ASSUME NEW doc, NEW i \in Nat
  PROVE  \/ \A h \in 1 .. i : doc[h][1] \notin Opens
         \/ \E j \in 1 .. i : doc[j][1] \in Opens /\ \A h \in j + 1 .. i : doc[h][1] \notin Opens
<1> DEFINE starts == {h \in 1 .. i : doc[h][1] \in Opens}
<1>1. CASE starts = {}
  BY <1>1
<1>2. CASE starts # {}
  <2>1. PICK j \in starts : \A h \in starts : h <= j
    <3>1. starts \subseteq 1 .. i
      OBVIOUS
    <3> HIDE DEF starts
    <3> QED BY <1>2, <3>1, LastOfPlaces
  <2>2. \A h \in j + 1 .. i : doc[h][1] \notin Opens
    BY <2>1
  <2> QED BY <2>1, <2>2
<1> QED BY <1>1, <1>2

\* Places are in the same blocks as long as the blocks open where they did.
LEMMA BlockSame ==
  ASSUME NEW doc, NEW doc2, NEW i \in Nat,
         \A h \in 1 .. i : doc2[h] = doc[h] \/ (doc[h][1] \notin Opens /\ doc2[h][1] \notin Opens)
  PROVE  BlockOf(doc2, i) = BlockOf(doc, i)
<1>1. CASE \A h \in 1 .. i : doc[h][1] \notin Opens
  <2>1. \A h \in 1 .. i : doc2[h][1] \notin Opens
    BY <1>1
  <2> QED BY <1>1, <2>1, BlockNone
<1>2. CASE \E j \in 1 .. i : doc[j][1] \in Opens /\ \A h \in j + 1 .. i : doc[h][1] \notin Opens
  <2>1. PICK j \in 1 .. i : doc[j][1] \in Opens /\ \A h \in j + 1 .. i : doc[h][1] \notin Opens
    BY <1>2
  <2>2. doc2[j] = doc[j] /\ \A h \in j + 1 .. i : doc2[h][1] \notin Opens
    BY <2>1
  <2>3. BlockOf(doc, i) = doc[j][2] /\ BlockOf(doc2, i) = doc2[j][2]
    BY <2>1, <2>2, BlockIs
  <2> QED BY <2>2, <2>3
<1> QED BY <1>1, <1>2, BlockCases

\* The bodies a block holds are those of its thread.
LEMMA BodiesOfBlock ==
  ASSUME NEW doc, Shape(doc, "ai"), NEW t \in Key, NEW s, NEW e, Block(doc, s, e),
         doc[s] = Mark("thread", t),
         NEW i \in 1 .. Len(doc), doc[i][1] = "body"
  PROVE  BlockOf(doc, i) = t <=> s < i /\ i < e - 1
<1>1. /\ Len(doc) \in Nat /\ s \in 1 .. Len(doc) /\ e \in 1 .. Len(doc) /\ s + 5 < e
      /\ doc[s][1] = "thread" /\ doc[s][2] = t /\ doc[s][3] = 0
      /\ doc[e][1] = "threadEnd" /\ doc[e - 1][1] = "close" /\ "ai" \in Output
  BY MarksAreTokens, LenProperties DEF Shape, Block, Output
<1>o. \A h \in 1 .. Len(doc) : doc[h][1] \in Opens <=> doc[h][1] = "thread"
  BY <1>1, OpenersAre DEF Opener
<1>2. ASSUME s < i, i < e - 1 PROVE BlockOf(doc, i) = t
  <2>1. s \in 1 .. i /\ i \in Nat /\ \A h \in s + 1 .. i : h \in 1 .. Len(doc) /\ doc[h][1] # "thread"
    BY <1>1, <1>2 DEF Block
  <2> QED BY <1>1, <1>o, <2>1, BlockIs
<1>3. ASSUME BlockOf(doc, i) = t PROVE s < i /\ i < e - 1
  <2>1. PICK j \in 1 .. i : doc[j][1] \in Opens /\ \A h \in j + 1 .. i : doc[h][1] \notin Opens
    <3>1. t # NoKey /\ i \in Nat
      BY <1>1, SourceAssumption
    <3> QED BY <1>3, <3>1, BlockCases, BlockNone
  <2>2. j \in 1 .. Len(doc) /\ doc[j][2] = t /\ doc[j] \in Token /\ doc[s] \in Token
    <3>1. j \in 1 .. Len(doc) /\ i \in Nat
      BY <1>1
    <3>2. BlockOf(doc, i) = doc[j][2]
      BY <2>1, <3>1, BlockIs
    <3> QED BY <1>1, <1>3, <3>1, <3>2, Next1
  <2>3. j = s
    <3>1. doc[j] = doc[s]
      <4>1. doc[j] = <<"thread", t, 0>> /\ doc[s] = <<"thread", t, 0>>
        BY <1>1, <1>o, <2>1, <2>2, TokenParts
      <4> QED BY <4>1
    <3> QED BY <1>1, <2>1, <2>2, <3>1 DEF Shape
  <2>4. s < i
    <3>1. s # i
      BY <1>1
    <3> QED BY <1>1, <2>3, <3>1
  <2>5. i < e
    <3> SUFFICES ASSUME ~(i < e) PROVE FALSE
      OBVIOUS
    <3>1. i # e
      BY <1>1
    <3>2. e + 1 \in 1 .. Len(doc) /\ e + 1 > 1 /\ (e + 1) - 1 = e /\ e + 1 \in s + 1 .. i
      BY <1>1, <3>1
    <3>3. Follows(doc[e], doc[e + 1])
      BY <1>1, <3>2, Next1
    <3>4. doc[e + 1][1] = "thread"
      BY <1>1, <3>3, Neighbours
    <3> QED BY <1>o, <2>1, <2>3, <3>2, <3>4
  <2>6. i # e - 1
    BY <1>1
  <2> QED BY <1>1, <2>4, <2>5, <2>6
<1> QED BY <1>2, <1>3

-----------------------------------------------------------------------------
(* What an edit does to the entries. *)

\* Where the token at i is once w tokens were put in before place c.
Moved(i, c, w) == IF i < c THEN i ELSE i + w

\* One body is new, at nb, and none was under its place; the others moved.
BodyAdded(doc, doc2, c, w, nb, b, k, v) ==
  /\ c \in Nat /\ w \in Nat /\ nb \in c .. c + w - 1
  /\ BodiesAt(doc) \subseteq Nat
  /\ BodiesAt(doc2) = {Moved(i, c, w) : i \in BodiesAt(doc)} \cup {nb}
  /\ \A i \in BodiesAt(doc) : /\ doc2[Moved(i, c, w)] = doc[i]
                              /\ Place(doc2, Moved(i, c, w)) = Place(doc, i)
                              /\ Place(doc, i) # <<b, k>>
  /\ Place(doc2, nb) = <<b, k>> /\ doc2[nb] = Body(k, v)

UniquePlaces(doc) == \A i, j \in BodiesAt(doc) : Place(doc, i) = Place(doc, j) => i = j

\* A new body under a new place leaves the places unique.
LEMMA AddedKeepsPlaces ==
  ASSUME NEW doc, NEW doc2, NEW c, NEW w, NEW nb, NEW b, NEW k, NEW v,
         BodyAdded(doc, doc2, c, w, nb, b, k, v), UniquePlaces(doc)
  PROVE  UniquePlaces(doc2)
<1> SUFFICES ASSUME NEW i \in BodiesAt(doc2), NEW j \in BodiesAt(doc2),
                    Place(doc2, i) = Place(doc2, j)
             PROVE  i = j
  BY DEF UniquePlaces
<1>1. \A m \in BodiesAt(doc2) : m = nb \/ \E h \in BodiesAt(doc) : m = Moved(h, c, w)
  BY DEF BodyAdded
<1>2. CASE i = nb /\ j = nb
  BY <1>2
<1>3. CASE i = nb /\ j # nb
  BY <1>1, <1>3 DEF BodyAdded
<1>4. CASE i # nb /\ j = nb
  BY <1>1, <1>4 DEF BodyAdded
<1>5. CASE i # nb /\ j # nb
  <2>1. PICK g \in BodiesAt(doc), h \in BodiesAt(doc) : i = Moved(g, c, w) /\ j = Moved(h, c, w)
    BY <1>1, <1>5
  <2>2. Place(doc, g) = Place(doc, h)
    BY <2>1 DEF BodyAdded
  <2> QED BY <2>1, <2>2 DEF UniquePlaces
<1> QED BY <1>2, <1>3, <1>4, <1>5

\* A body added behind what is ahead of its place, and only that, is Put.
LEMMA PutNew ==
  ASSUME NEW doc, NEW doc2, NEW c, NEW w, NEW nb, NEW b, NEW k, NEW v,
         BodyAdded(doc, doc2, c, w, nb, b, k, v),
         \A i \in BodiesAt(doc) : i < c <=> Place(doc, i) \in Keyed!Ahead(Entries(doc), b)
  PROVE  Entries(doc2) = Keyed!Put(Entries(doc), b, k, v)
<1> DEFINE B     == BodiesAt(doc)
           B2    == BodiesAt(doc2)
           new   == <<b, k>>
           ahead == Keyed!Ahead(Entries(doc), b)
           ps    == Keyed!Places(Entries(doc))
           m(i)  == Moved(i, c, w)
           E(d)  == {[place |-> Place(d, i), version |-> d[i][3]] : i \in BodiesAt(d)}
           O(d)  == {<<Place(d, p[1]), Place(d, p[2])>> :
                       p \in {q \in BodiesAt(d) \X BodiesAt(d) : q[1] < q[2]}}
<1>1. \A d : Entries(d).held = E(d) /\ Entries(d).order = O(d) /\ Entries(d) = [held |-> E(d), order |-> O(d)]
  BY DEF Entries
<1>2. /\ c \in Nat /\ w \in Nat /\ nb \in c .. c + w - 1 /\ nb \in Nat /\ B \subseteq Nat
      /\ \A i \in B2 : i = nb \/ \E h \in B : i = m(h)
      /\ nb \in B2 /\ \A i \in B : m(i) \in B2
      /\ \A i \in B : doc2[m(i)] = doc[i] /\ Place(doc2, m(i)) = Place(doc, i) /\ Place(doc, i) # new
      /\ Place(doc2, nb) = new /\ doc2[nb][3] = v
  BY MarksAreTokens DEF BodyAdded
<1>3. ps = {Place(doc, i) : i \in B}
  <2>1. ps = {x.place : x \in E(doc)}
    BY <1>1 DEF Keyed!Places
  <2>2. ASSUME NEW i \in B PROVE Place(doc, i) \in {x.place : x \in E(doc)}
    <3>1. [place |-> Place(doc, i), version |-> doc[i][3]] \in E(doc)
      OBVIOUS
    <3> QED BY <3>1
  <2>3. \A x \in E(doc) : x.place \in {Place(doc, i) : i \in B}
    OBVIOUS
  <2> HIDE DEF E, ps
  <2> QED BY <2>1, <2>2, <2>3
<1>4. E(doc2) = {x \in E(doc) : x.place # new} \cup {[place |-> new, version |-> v]}
  <2>1. {x \in E(doc) : x.place # new} = E(doc)
    BY <1>2
  <2>2. ASSUME NEW i \in B2
        PROVE  [place |-> Place(doc2, i), version |-> doc2[i][3]]
                 \in E(doc) \cup {[place |-> new, version |-> v]}
    BY <1>2
  <2>3. ASSUME NEW i \in B
        PROVE  [place |-> Place(doc, i), version |-> doc[i][3]] \in E(doc2)
    <3>1. m(i) \in B2 /\ Place(doc2, m(i)) = Place(doc, i) /\ doc2[m(i)][3] = doc[i][3]
      BY <1>2
    <3> QED BY <3>1
  <2>4. [place |-> new, version |-> v] \in E(doc2)
    BY <1>2
  <2> QED BY <2>1, <2>2, <2>3, <2>4
<1>5. \A i, j \in B : (m(i) < m(j) <=> i < j) /\ (m(i) < nb <=> i < c) /\ (nb < m(i) <=> ~(i < c))
  <2>1. \A i \in B : i \in Nat
    BY <1>2
  <2> QED BY <1>2, <2>1 DEF Moved
<1>6. O(doc2) = O(doc) \cup (ahead \X {new}) \cup ({new} \X (ps \ ahead))
  <2>1. ASSUME NEW i \in B2, NEW j \in B2, i < j
        PROVE  <<Place(doc2, i), Place(doc2, j)>> \in
                 O(doc) \cup (ahead \X {new}) \cup ({new} \X (ps \ ahead))
    <3>1. CASE i = nb /\ j = nb
      BY <1>2, <2>1, <3>1
    <3>2. CASE i = nb /\ j # nb
      <4>1. PICK h \in B : j = m(h)
        BY <1>2, <3>2
      <4>2. Place(doc, h) \in ps \ ahead
        BY <1>3, <1>5, <2>1, <3>2, <4>1
      <4> QED BY <1>2, <3>2, <4>1, <4>2
    <3>3. CASE i # nb /\ j = nb
      <4>1. PICK h \in B : i = m(h)
        BY <1>2, <3>3
      <4>2. Place(doc, h) \in ahead
        BY <1>5, <2>1, <3>3, <4>1
      <4> QED BY <1>2, <3>3, <4>1, <4>2
    <3>4. CASE i # nb /\ j # nb
      <4>1. PICK g \in B, h \in B : i = m(g) /\ j = m(h)
        BY <1>2, <3>4
      <4>2. <<g, h>> \in {q \in B \X B : q[1] < q[2]}
        BY <1>5, <2>1, <4>1
      <4>3. <<Place(doc, g), Place(doc, h)>> \in O(doc)
        BY <4>2
      <4> QED BY <1>2, <4>1, <4>3
    <3> QED BY <3>1, <3>2, <3>3, <3>4
  <2>2. \A i, j \in B2 : i < j => <<Place(doc2, i), Place(doc2, j)>> \in O(doc2)
    <3> SUFFICES ASSUME NEW i \in B2, NEW j \in B2, i < j
                 PROVE  <<Place(doc2, i), Place(doc2, j)>> \in O(doc2)
      OBVIOUS
    <3> DEFINE p == <<i, j>>
    <3>1. p \in {q \in B2 \X B2 : q[1] < q[2]} /\ p[1] = i /\ p[2] = j
      OBVIOUS
    <3> HIDE DEF p
    <3>2. <<Place(doc2, p[1]), Place(doc2, p[2])>> \in O(doc2)
      BY <3>1
    <3> QED BY <3>1, <3>2
  <2>3. ASSUME NEW i \in B, NEW j \in B, i < j
        PROVE  <<Place(doc, i), Place(doc, j)>> \in O(doc2)
    <3>1. m(i) \in B2 /\ m(j) \in B2 /\ m(i) < m(j)
      BY <1>2, <1>5, <2>3
    <3>2. <<Place(doc2, m(i)), Place(doc2, m(j))>> \in O(doc2)
      <4> HIDE DEF m, O
      <4> QED BY <2>2, <3>1
    <3> QED BY <1>2, <3>2
  <2>4. ASSUME NEW p \in ahead PROVE <<p, new>> \in O(doc2)
    <3>1. p \in ps
      BY DEF Keyed!Ahead
    <3>2. PICK i \in B : p = Place(doc, i)
      BY <1>3, <3>1
    <3>3. m(i) \in B2 /\ nb \in B2 /\ m(i) < nb
      BY <1>2, <1>5, <2>4, <3>2
    <3>4. <<Place(doc2, m(i)), Place(doc2, nb)>> \in O(doc2)
      <4> HIDE DEF m, O
      <4> QED BY <2>2, <3>3
    <3> QED BY <1>2, <3>2, <3>4
  <2>5. ASSUME NEW p \in ps \ ahead PROVE <<new, p>> \in O(doc2)
    <3>2. PICK i \in B : p = Place(doc, i)
      BY <1>3, <2>5
    <3>3. m(i) \in B2 /\ nb \in B2 /\ nb < m(i)
      BY <1>2, <1>5, <2>5, <3>2
    <3>4. <<Place(doc2, nb), Place(doc2, m(i))>> \in O(doc2)
      <4> HIDE DEF m, O
      <4> QED BY <2>2, <3>3
    <3> QED BY <1>2, <3>2, <3>4
  <2>6. O(doc2) \subseteq O(doc) \cup (ahead \X {new}) \cup ({new} \X (ps \ ahead))
    <3> HIDE DEF ahead, ps, new
    <3> QED BY <2>1
  <2>7. O(doc) \subseteq O(doc2)
    BY <2>3
  <2>8. (ahead \X {new}) \cup ({new} \X (ps \ ahead)) \subseteq O(doc2)
    <3> HIDE DEF ahead, ps, new, O
    <3> QED BY <2>4, <2>5
  <2> QED BY <2>6, <2>7, <2>8
<1>7. new \notin ps
  BY <1>2, <1>3
<1> HIDE DEF E, O, ahead, ps, new
<1>8. Keyed!Put(Entries(doc), b, k, v) =
        [held  |-> {x \in E(doc) : x.place # new} \cup {[place |-> new, version |-> v]},
         order |-> IF new \in ps THEN O(doc)
                   ELSE O(doc) \cup (ahead \X {new}) \cup ({new} \X (ps \ ahead))]
  BY <1>1 DEF Keyed!Put, ahead, ps, new
<1>9. Entries(doc2) = [held |-> E(doc2), order |-> O(doc2)]
  BY <1>1
<1> QED BY <1>4, <1>6, <1>7, <1>8, <1>9
\* A body is written where its place already is.
LEMMA PutOld ==
  ASSUME NEW doc \in Seq(Token), NEW doc2, NEW i, NEW k, NEW v,
         BodyReplaced(doc, doc2, i, k, v), UniquePlaces(doc)
  PROVE  /\ BodiesAt(doc2) = BodiesAt(doc) /\ i \in BodiesAt(doc)
         /\ \A j \in BodiesAt(doc) : Place(doc2, j) = Place(doc, j)
         /\ Entries(doc2) = Keyed!Put(Entries(doc), BlockOf(doc, i), k, v)
<1> DEFINE B    == BodiesAt(doc)
           new  == <<BlockOf(doc, i), k>>
           x    == [place |-> new, version |-> v]
           E(d) == {[place |-> Place(d, j), version |-> d[j][3]] : j \in BodiesAt(d)}
           O(d) == {<<Place(d, p[1]), Place(d, p[2])>> :
                      p \in {q \in BodiesAt(d) \X BodiesAt(d) : q[1] < q[2]}}
<1>1. /\ DOMAIN doc = 1 .. Len(doc) /\ DOMAIN doc2 = 1 .. Len(doc) /\ Len(doc) \in Nat
      /\ i \in 1 .. Len(doc) /\ doc[i][1] = "body" /\ doc[i][2] = k
      /\ doc2[i][1] = "body" /\ doc2[i][2] = k /\ doc2[i][3] = v
      /\ \A j \in 1 .. Len(doc) : j # i => doc2[j] = doc[j]
  <2>1. doc2 \in Seq(Token) /\ Len(doc2) = Len(doc)
    BY DEF BodyReplaced
  <2>2. DOMAIN doc = 1 .. Len(doc) /\ DOMAIN doc2 = 1 .. Len(doc2) /\ Len(doc) \in Nat
    BY <2>1, LenProperties
  <2> QED BY <2>1, <2>2, MarksAreTokens DEF BodyReplaced
<1>2. BodiesAt(doc2) = B /\ i \in B /\ B \subseteq 1 .. Len(doc)
  BY <1>1 DEF BodiesAt
<1>3. ASSUME NEW j \in B PROVE Place(doc2, j) = Place(doc, j)
  <2>1. \A h \in 1 .. j : doc2[h] = doc[h] \/ (doc[h][1] \notin Opens /\ doc2[h][1] \notin Opens)
    BY <1>1, <1>2 DEF Opens
  <2>2. j \in Nat /\ j \in 1 .. Len(doc)
    BY <1>1, <1>2
  <2>3. BlockOf(doc2, j) = BlockOf(doc, j)
    BY <2>1, <2>2, BlockSame
  <2> QED BY <1>1, <2>2, <2>3 DEF Place
<1>4. /\ \A d : Entries(d) = [held |-> E(d), order |-> O(d)]
      /\ Place(doc, i) = new /\ Place(doc2, i) = new
  BY <1>1, <1>2, <1>3 DEF Entries, Place
<1>5. O(doc2) = O(doc)
  BY <1>2, <1>3
<1>6. ASSUME NEW j \in B, j # i PROVE Place(doc, j) # new /\ doc2[j] = doc[j]
  BY <1>1, <1>2, <1>4, <1>6 DEF UniquePlaces
<1>7. E(doc2) = {y \in E(doc) : y.place # new} \cup {x}
  <2>1. ASSUME NEW j \in B
        PROVE  [place |-> Place(doc2, j), version |-> doc2[j][3]]
                 \in {y \in E(doc) : y.place # new} \cup {x}
    <3>1. CASE j = i
      BY <1>1, <1>4, <3>1
    <3>2. CASE j # i
      BY <1>3, <1>6, <3>2
    <3> QED BY <3>1, <3>2
  <2>2. x \in E(doc2)
    BY <1>1, <1>2, <1>4
  <2>3. ASSUME NEW j \in B, Place(doc, j) # new
        PROVE  [place |-> Place(doc, j), version |-> doc[j][3]] \in E(doc2)
    <3>1. j # i
      BY <1>4, <2>3
    <3> QED BY <1>2, <1>3, <1>6, <3>1
  <2> HIDE DEF x, new
  <2>4. \A y \in E(doc2) : y \in {z \in E(doc) : z.place # new} \cup {x}
    BY <1>2, <2>1
  <2>5. \A y \in {z \in E(doc) : z.place # new} : y \in E(doc2)
    <3> SUFFICES ASSUME NEW y \in E(doc), y.place # new PROVE y \in E(doc2)
      OBVIOUS
    <3>1. PICK j \in B : y = [place |-> Place(doc, j), version |-> doc[j][3]]
      OBVIOUS
    <3>2. Place(doc, j) # new
      BY <3>1
    <3> HIDE DEF E
    <3> QED BY <2>3, <3>1, <3>2
  <2> HIDE DEF E
  <2> QED BY <2>2, <2>4, <2>5
<1>8. new \in Keyed!Places(Entries(doc))
  <2>1. [place |-> Place(doc, i), version |-> doc[i][3]] \in Entries(doc).held
    BY <1>2, <1>4
  <2> QED BY <1>4, <2>1 DEF Keyed!Places
<1>9. Entries(doc).held = E(doc) /\ Entries(doc).order = O(doc)
  BY <1>4
<1> HIDE DEF E, O, x, new
<1>10. Keyed!Put(Entries(doc), BlockOf(doc, i), k, v) =
         [held |-> {y \in E(doc) : y.place # new} \cup {x}, order |-> O(doc)]
  BY <1>8, <1>9 DEF Keyed!Put, x, new
<1> QED BY <1>2, <1>3, <1>4, <1>5, <1>7, <1>10

\* What a write may do to the bodies of a document: it adds or renews one.
WroteOnly(doc, doc2, k, v) ==
  /\ \E j \in BodiesAt(doc2) : doc2[j] = Body(k, v)
  /\ \A j \in BodiesAt(doc2) : doc2[j] = Body(k, v) \/ \E i \in BodiesAt(doc) : doc[i] = doc2[j]
  /\ \A i \in BodiesAt(doc) : \E j \in BodiesAt(doc2) :
       doc2[j] = doc[i] \/ (doc[i][2] = k /\ doc2[j] = Body(k, v))

\* An added body changes no other,
LEMMA AddedWrites ==
  ASSUME NEW doc, NEW doc2, NEW c, NEW w, NEW nb, NEW b, NEW k, NEW v,
         BodyAdded(doc, doc2, c, w, nb, b, k, v)
  PROVE  WroteOnly(doc, doc2, k, v)
BY DEF WroteOnly, BodyAdded

\* and so does a renewed one.
LEMMA ReplacedWrites ==
  ASSUME NEW doc \in Seq(Token), NEW doc2, NEW i, NEW k, NEW v,
         BodyReplaced(doc, doc2, i, k, v)
  PROVE  WroteOnly(doc, doc2, k, v)
<1>1. DOMAIN doc = 1 .. Len(doc) /\ DOMAIN doc2 = 1 .. Len(doc)
  BY LenProperties DEF BodyReplaced
<1>2. BodiesAt(doc2) = BodiesAt(doc) /\ BodiesAt(doc) \subseteq 1 .. Len(doc) /\ i \in BodiesAt(doc)
  BY <1>1, MarksAreTokens DEF BodyReplaced, BodiesAt
<1> QED BY <1>2 DEF WroteOnly, BodyReplaced

\* The marks of new parts follow each other, and the marks they go behind.
LEMMA NewFollows ==
  ASSUME NEW k, NEW v
  PROVE  /\ Follows(Mark("start", k), Body(k, v)) /\ Follows(Body(k, v), Mark("end", k))
         /\ Follows(Mark("item", k), Body(k, v)) /\ Follows(Body(k, v), Mark("itemEnd", k))
         /\ Follows(Mark("thread", k), Mark("open", v)) /\ Follows(Mark("open", k), Mark("item", v))
         /\ Follows(Mark("itemEnd", k), Mark("close", v)) /\ Follows(Mark("close", k), Mark("threadEnd", v))
         /\ \A x : x[1] \in {"header", "end"} => Follows(x, Mark("start", k))
         /\ \A x : x[1] \in {"header", "threadEnd"} => Follows(x, Mark("thread", k))
         /\ \A x : x[1] = "itemEnd" => Follows(x, Mark("item", k))
         /\ \A y : y[1] = "close" => Follows(Mark("itemEnd", k), y)
BY DEF Follows, Mark, Body

\* What follows what depends on kinds and names only.
LEMMA FollowsSame ==
  ASSUME NEW x, NEW y, NEW x2, NEW y2, Follows(x, y),
         x2[1] = x[1], x2[2] = x[2], y2[1] = y[1], y2[2] = y[2]
  PROVE  Follows(x2, y2)
BY DEF Follows

\* What an upsert leaves: the shape, more than a header, one body written, and
\* the entries as the keyed list has them.
Outcome(doc, doc2, out, k, v) ==
  /\ Shape(doc2, out) /\ Len(doc2) > 1
  /\ WroteOnly(doc, doc2, k, v)
  /\ \E b \in Key \cup {NoKey} : Entries(doc2) = Keyed!Put(Entries(doc), b, k, v)

\* A block is named by a key.
LEMMA BlocksAreKeys ==
  ASSUME NEW doc \in Seq(Token), NEW i \in 1 .. Len(doc)
  PROVE  BlockOf(doc, i) \in Key \cup {NoKey}
<1>1. Len(doc) \in Nat /\ i \in Nat
  BY LenProperties
<1>2. ASSUME NEW j \in 1 .. i, doc[j][1] \in Opens PROVE doc[j][2] \in Key \cup {NoKey}
  <2>1. doc[j] \in Token
    BY <1>1, ElementOfSeq
  <2> QED BY <1>2, <2>1 DEF Token
<1>3. CASE \A h \in 1 .. i : doc[h][1] \notin Opens
  BY <1>3, BlockNone
<1>4. CASE \E j \in 1 .. i : doc[j][1] \in Opens /\ \A h \in j + 1 .. i : doc[h][1] \notin Opens
  <2>1. PICK j \in 1 .. i : doc[j][1] \in Opens /\ \A h \in j + 1 .. i : doc[h][1] \notin Opens
    BY <1>4
  <2>2. BlockOf(doc, i) = doc[j][2]
    BY <1>1, <2>1, BlockIs
  <2> QED BY <1>2, <2>1, <2>2
<1> QED BY <1>1, <1>3, <1>4, BlockCases

\* Renewing a body has the outcome.
LEMMA ReplacedOutcome ==
  ASSUME NEW out \in Output, NEW doc, Shape(doc, out), NEW doc2, NEW i,
         NEW k \in Key, NEW v \in Version, BodyReplaced(doc, doc2, i, k, v)
  PROVE  Outcome(doc, doc2, out, k, v)
<1> DEFINE n == Len(doc)
<1>1. /\ doc \in Seq(Token) /\ n \in Nat /\ n > 0 /\ i \in 1 .. n /\ DOMAIN doc = 1 .. n
      /\ doc2 \in Seq(Token) /\ Len(doc2) = n /\ DOMAIN doc2 = 1 .. n
  BY LenProperties DEF Shape, BodyReplaced
<1>2. \A j \in 1 .. n : /\ doc2[j][1] = doc[j][1] /\ doc2[j][2] = doc[j][2]
                        /\ doc[j][1] # "body" => doc2[j] = doc[j]
  BY MarksAreTokens DEF BodyReplaced
<1>3. UniquePlaces(doc)
  BY DEF Shape, UniquePlaces
<1>4. /\ BodiesAt(doc2) = BodiesAt(doc) /\ i \in BodiesAt(doc)
      /\ \A j \in BodiesAt(doc) : Place(doc2, j) = Place(doc, j)
      /\ Entries(doc2) = Keyed!Put(Entries(doc), BlockOf(doc, i), k, v)
  BY <1>1, <1>3, PutOld
<1>5. doc2[1] = Header /\ doc2[n][1] \in {"header", "end", "threadEnd"}
  BY <1>1, <1>2, MarksAreTokens DEF Shape
<1>6. \A j \in 1 .. n - 1 : Follows(doc2[j], doc2[j + 1])
  <2>1. \A j \in 1 .. n - 1 : j \in 1 .. n /\ j + 1 \in 1 .. n /\ Follows(doc[j], doc[j + 1])
    BY <1>1 DEF Shape
  <2> SUFFICES ASSUME NEW j \in 1 .. n - 1 PROVE Follows(doc2[j], doc2[j + 1])
    OBVIOUS
  <2>2. /\ Follows(doc[j], doc[j + 1]) /\ doc2[j][1] = doc[j][1] /\ doc2[j][2] = doc[j][2]
        /\ doc2[j + 1][1] = doc[j + 1][1] /\ doc2[j + 1][2] = doc[j + 1][2]
    BY <1>2, <2>1
  <2> QED BY ONLY <2>2, FollowsSame
<1>7. \A j \in 1 .. n : doc2[j][1] \in Kinds(out)
  BY <1>2 DEF Shape
<1>8. \A j \in 1 .. n : doc2[j][1] \in {"open", "close", "threadEnd"} => doc2[j][2] = NoKey
  BY <1>2 DEF Shape
<1>9. \A g, h \in 1 .. n : doc2[g][1] \in Opens /\ doc2[g] = doc2[h] => g = h
  <2>1. ASSUME NEW g \in 1 .. n, NEW h \in 1 .. n,
               doc2[g][1] \in Opens, doc2[g] = doc2[h]
        PROVE  g = h
    <3>1. doc2[g] = doc[g] /\ doc2[h] = doc[h]
      BY <1>2, <2>1 DEF Opens
    <3> QED BY <2>1, <3>1 DEF Shape
  <2> QED BY <2>1
<1>10. \A g, h \in BodiesAt(doc2) : Place(doc2, g) = Place(doc2, h) => g = h
  BY <1>3, <1>4 DEF UniquePlaces
<1>11. n > 1
  <2>1. i # 1
    <3>1. doc[1][1] = "header" /\ doc[i][1] = "body"
      BY <1>1, Next1 DEF BodyReplaced
    <3> QED BY <3>1
  <2> QED BY <1>1, <2>1
<1>12. Shape(doc2, out)
  BY <1>1, <1>5, <1>6, <1>7, <1>8, <1>9, <1>10 DEF Shape
<1>13. WroteOnly(doc, doc2, k, v)
  BY <1>1, ReplacedWrites
<1>14. BlockOf(doc, i) \in Key \cup {NoKey}
  BY <1>1, BlocksAreKeys
<1> QED BY <1>1, <1>4, <1>11, <1>12, <1>13, <1>14 DEF Outcome
\* What is appended leaves the others where they are, in their blocks.
LEMMA OtherBlocks ==
  ASSUME NEW doc \in Seq(Token), NEW doc2, NEW b \in Key,
         \A j \in 1 .. Len(doc) : doc2[j] = doc[j] /\ ~(doc[j][1] \in Opens /\ doc[j][2] = b),
         NEW i \in 1 .. Len(doc)
  PROVE  BlockOf(doc2, i) = BlockOf(doc, i) /\ BlockOf(doc, i) # b
<1>1. i \in Nat /\ \A h \in 1 .. i : h \in 1 .. Len(doc) /\ doc2[h] = doc[h]
  BY LenProperties
<1>2. BlockOf(doc2, i) = BlockOf(doc, i)
  BY <1>1, BlockSame
<1>3. CASE \A h \in 1 .. i : doc[h][1] \notin Opens
  BY <1>2, <1>3, BlockNone, SourceAssumption
<1>4. CASE \E j \in 1 .. i : doc[j][1] \in Opens /\ \A h \in j + 1 .. i : doc[h][1] \notin Opens
  <2>1. PICK j \in 1 .. i : doc[j][1] \in Opens /\ \A h \in j + 1 .. i : doc[h][1] \notin Opens
    BY <1>4
  <2>2. BlockOf(doc, i) = doc[j][2] /\ j \in 1 .. Len(doc)
    BY <1>1, <2>1, BlockIs
  <2> QED BY <1>2, <2>1, <2>2
<1> QED BY <1>1, <1>3, <1>4, BlockCases

\* A body that starts a block goes behind all there is.
LEMMA PutAtEnd ==
  ASSUME NEW doc, NEW doc2, NEW c, NEW w, NEW nb, NEW b, NEW k, NEW v,
         BodyAdded(doc, doc2, c, w, nb, b, k, v),
         \A i \in BodiesAt(doc) : i < c /\ BlockOf(doc, i) # b
  PROVE  Entries(doc2) = Keyed!Put(Entries(doc), b, k, v)
<1>1. \A p \in Keyed!Places(Entries(doc)) : p[1] # b
  BY DEF Keyed!Places, Entries, Place
<1>2. Keyed!Ahead(Entries(doc), b) = Keyed!Places(Entries(doc))
  BY <1>1 DEF Keyed!Ahead, Keyed!Members
<1>3. ASSUME NEW i \in BodiesAt(doc)
      PROVE  i < c /\ Place(doc, i) \in Keyed!Ahead(Entries(doc), b)
  <2>1. [place |-> Place(doc, i), version |-> doc[i][3]] \in Entries(doc).held
    BY DEF Entries
  <2>2. Place(doc, i) \in Keyed!Places(Entries(doc))
    BY <2>1 DEF Keyed!Places
  <2> QED BY <1>2, <2>2
<1> QED BY <1>3, PutNew

\* Appending an entry to the log has it,
LEMMA EntryOutcome ==
  ASSUME NEW doc, Shape(doc, "log"), NEW doc2, NEW k \in Key, NEW v \in Version,
         EntryAdded(doc, doc2, k, v)
  PROVE  Outcome(doc, doc2, "log", k, v)
<1> DEFINE n == Len(doc)
<1>1. /\ doc \in Seq(Token) /\ n \in Nat /\ n > 0 /\ DOMAIN doc = 1 .. n /\ "log" \in Output
      /\ doc2 \in Seq(Token) /\ Len(doc2) = n + 3 /\ DOMAIN doc2 = 1 .. n + 3
  BY LenProperties DEF Shape, EntryAdded, Output
<1>2. /\ \A j \in 1 .. n : doc2[j] = doc[j]
      /\ doc2[n + 1] = Mark("start", k) /\ doc2[n + 2] = Body(k, v) /\ doc2[n + 3] = Mark("end", k)
      /\ doc2[n + 1][1] = "start" /\ doc2[n + 2][1] = "body" /\ doc2[n + 3][1] = "end"
      /\ doc2[n + 2][2] = k
      /\ \A i \in 1 .. n : doc[i] # Mark("start", k)
  BY MarksAreTokens DEF EntryAdded
<1>3. \A j \in 1 .. n + 3 : j \in 1 .. n \/ j = n + 1 \/ j = n + 2 \/ j = n + 3
  BY <1>1
<1>4. \A j \in 1 .. n + 3 : doc2[j][1] \in Kinds("log")
  BY <1>1, <1>2, <1>3 DEF Shape, Kinds
<1>5. \A j \in 1 .. n + 3 : doc2[j][1] \notin {"open", "close", "threadEnd"}
  BY <1>4 DEF Kinds
<1>6. ASSUME NEW i \in BodiesAt(doc) PROVE i \in 1 .. n /\ BlockOf(doc2, i) = BlockOf(doc, i) /\ BlockOf(doc, i) # k
  <2>1. i \in 1 .. n
    BY <1>1 DEF BodiesAt
  <2>2. \A j \in 1 .. n : doc2[j] = doc[j] /\ ~(doc[j][1] \in Opens /\ doc[j][2] = k)
    BY <1>1, <1>2, OpenersAre DEF Opener
  <2> QED BY <1>1, <2>1, <2>2, OtherBlocks
<1>7. BlockOf(doc2, n + 2) = k
  <2>1. n + 2 \in Nat /\ n + 1 \in 1 .. n + 2 /\ (n + 1) + 1 .. n + 2 = {n + 2}
    BY <1>1
  <2>2. doc2[n + 1][1] \in Opens /\ doc2[n + 1][2] = k /\ \A h \in (n + 1) + 1 .. n + 2 : doc2[h][1] \notin Opens
    BY <1>2, <2>1, MarksAreTokens DEF Opens
  <2> QED BY <2>1, <2>2, BlockIs
<1>9. BodyAdded(doc, doc2, n + 1, 3, n + 2, k, k, v)
  <2>1. n + 1 \in Nat /\ 3 \in Nat /\ n + 2 \in n + 1 .. (n + 1) + 3 - 1 /\ BodiesAt(doc) \subseteq Nat
    BY <1>1, <1>6
  <2>2. \A i \in BodiesAt(doc) : Moved(i, n + 1, 3) = i
    BY <1>1, <1>6 DEF Moved
  <2>3. BodiesAt(doc2) = BodiesAt(doc) \cup {n + 2}
    BY <1>1, <1>2, <1>3 DEF BodiesAt
  <2>4. \A i \in BodiesAt(doc) : doc2[i] = doc[i] /\ Place(doc2, i) = Place(doc, i) /\ Place(doc, i) # <<k, k>>
    BY <1>2, <1>6 DEF Place
  <2>5. Place(doc2, n + 2) = <<k, k>>
    BY <1>2, <1>7 DEF Place
  <2>6. BodiesAt(doc2) = {Moved(i, n + 1, 3) : i \in BodiesAt(doc)} \cup {n + 2}
    BY <2>2, <2>3
  <2> QED BY <1>2, <2>1, <2>2, <2>4, <2>5, <2>6 DEF BodyAdded
<1>10. Entries(doc2) = Keyed!Put(Entries(doc), k, k, v)
  <2>1. \A i \in BodiesAt(doc) : i < n + 1 /\ BlockOf(doc, i) # k
    BY <1>1, <1>6
  <2> QED BY <1>9, <2>1, PutAtEnd
<1>11. UniquePlaces(doc2)
  BY <1>9, AddedKeepsPlaces DEF UniquePlaces, Shape
<1>12. \A j \in 1 .. (n + 3) - 1 : Follows(doc2[j], doc2[j + 1])
  <2> SUFFICES ASSUME NEW j \in 1 .. (n + 3) - 1 PROVE Follows(doc2[j], doc2[j + 1])
    OBVIOUS
  <2>1. CASE j \in 1 .. n - 1
    <3>1. j \in 1 .. n /\ j + 1 \in 1 .. n /\ Follows(doc[j], doc[j + 1])
      BY <1>1, <2>1 DEF Shape
    <3> QED BY <1>2, <3>1
  <2>2. CASE j = n
    <3>1. n \in 1 .. n /\ doc[n][1] \in {"header", "end"}
      BY <1>1 DEF Shape, Kinds
    <3> QED BY <1>2, <2>2, <3>1, NewFollows
  <2>3. CASE j = n + 1
    <3>1. j + 1 = n + 2
      BY <1>1, <2>3
    <3> QED BY <1>2, <2>3, <3>1, NewFollows
  <2>4. CASE j = n + 2
    <3>1. j + 1 = n + 3
      BY <1>1, <2>4
    <3> QED BY <1>2, <2>4, <3>1, NewFollows
  <2>5. j \in 1 .. n - 1 \/ j = n \/ j = n + 1 \/ j = n + 2
    <3>1. n \in Nat
      BY <1>1
    <3> HIDE DEF n
    <3> QED BY <3>1
  <2> QED BY <2>1, <2>2, <2>3, <2>4, <2>5
<1>13. \A g, h \in 1 .. n + 3 : doc2[g][1] \in Opens /\ doc2[g] = doc2[h] => g = h
  <2> SUFFICES ASSUME NEW g \in 1 .. n + 3, NEW h \in 1 .. n + 3,
                      doc2[g][1] \in Opens, doc2[g] = doc2[h]
               PROVE  g = h
    OBVIOUS
  <2>1. (g \in 1 .. n \/ g = n + 1) /\ (h \in 1 .. n \/ h = n + 1)
    BY <1>2, <1>3 DEF Opens
  <2>2. CASE g \in 1 .. n /\ h \in 1 .. n
    BY <1>2, <2>2 DEF Shape
  <2> QED BY <1>2, <2>1, <2>2
<1>14. doc2[1] = Header
  BY <1>1, <1>2 DEF Shape
<1>15. Shape(doc2, "log")
  BY <1>1, <1>2, <1>4, <1>5, <1>11, <1>12, <1>13, <1>14 DEF Shape, UniquePlaces
<1> QED BY <1>1, <1>9, <1>10, <1>15, AddedWrites DEF Outcome
\* and so has appending a block to the source,
LEMMA BlockOutcome ==
  ASSUME NEW doc, Shape(doc, "ai"), NEW doc2, NEW t \in Key, NEW k \in Key, NEW v \in Version,
         BlockAdded(doc, doc2, t, k, v)
  PROVE  Outcome(doc, doc2, "ai", k, v)
<1> DEFINE n == Len(doc)
<1>1. /\ doc \in Seq(Token) /\ n \in Nat /\ n > 0 /\ DOMAIN doc = 1 .. n /\ "ai" \in Output
      /\ doc2 \in Seq(Token) /\ Len(doc2) = n + 7 /\ DOMAIN doc2 = 1 .. n + 7
  BY LenProperties DEF Shape, BlockAdded, Output
<1>2. /\ \A j \in 1 .. n : doc2[j] = doc[j]
      /\ doc2[n + 1] = Mark("thread", t) /\ doc2[n + 2] = Mark("open", NoKey)
      /\ doc2[n + 3] = Mark("item", k) /\ doc2[n + 4] = Body(k, v) /\ doc2[n + 5] = Mark("itemEnd", k)
      /\ doc2[n + 6] = Mark("close", NoKey) /\ doc2[n + 7] = Mark("threadEnd", NoKey)
      /\ \A i \in 1 .. n : doc[i] # Mark("thread", t)
  BY DEF BlockAdded
<1>3. /\ doc2[n + 1][1] = "thread" /\ doc2[n + 1][2] = t
      /\ doc2[n + 2][1] = "open" /\ doc2[n + 2][2] = NoKey
      /\ doc2[n + 3][1] = "item" /\ doc2[n + 4][1] = "body" /\ doc2[n + 4][2] = k
      /\ doc2[n + 5][1] = "itemEnd"
      /\ doc2[n + 6][1] = "close" /\ doc2[n + 6][2] = NoKey
      /\ doc2[n + 7][1] = "threadEnd" /\ doc2[n + 7][2] = NoKey
  BY <1>2, MarksAreTokens
<1>4. \A j \in 1 .. n + 7 : \/ j \in 1 .. n \/ j = n + 1 \/ j = n + 2 \/ j = n + 3
                            \/ j = n + 4 \/ j = n + 5 \/ j = n + 6 \/ j = n + 7
  BY <1>1
<1>5. \A j \in 1 .. n + 7 : doc2[j][1] \in Kinds("ai")
  <2>1. {"thread", "open", "item", "body", "itemEnd", "close", "threadEnd"} \subseteq Kinds("ai")
    BY DEF Kinds, Marks
  <2>2. \A j \in 1 .. n : doc2[j][1] \in Kinds("ai")
    BY <1>2 DEF Shape
  <2> QED BY <1>3, <1>4, <2>1, <2>2
<1>6. ASSUME NEW i \in BodiesAt(doc) PROVE i \in 1 .. n /\ BlockOf(doc2, i) = BlockOf(doc, i) /\ BlockOf(doc, i) # t
  <2>1. i \in 1 .. n
    BY <1>1 DEF BodiesAt
  <2>2. \A j \in 1 .. n : doc2[j] = doc[j] /\ ~(doc[j][1] \in Opens /\ doc[j][2] = t)
    BY <1>1, <1>2, OpenersAre DEF Opener
  <2> QED BY <1>1, <2>1, <2>2, OtherBlocks, SMTT(30)
<1>7. BlockOf(doc2, n + 4) = t
  <2>1. n + 4 \in Nat /\ n + 1 \in 1 .. n + 4 /\ (n + 1) + 1 .. n + 4 = {n + 2, n + 3, n + 4}
    BY <1>1
  <2>2. doc2[n + 1][1] \in Opens /\ \A h \in (n + 1) + 1 .. n + 4 : doc2[h][1] \notin Opens
    BY <1>3, <2>1 DEF Opens
  <2> QED BY <1>3, <2>1, <2>2, BlockIs
<1>9. BodyAdded(doc, doc2, n + 1, 7, n + 4, t, k, v)
  <2>1. n + 1 \in Nat /\ 7 \in Nat /\ n + 4 \in n + 1 .. (n + 1) + 7 - 1 /\ BodiesAt(doc) \subseteq Nat
    BY <1>1, <1>6
  <2>2. \A i \in BodiesAt(doc) : Moved(i, n + 1, 7) = i
    BY <1>1, <1>6 DEF Moved
  <2>3. BodiesAt(doc2) = BodiesAt(doc) \cup {n + 4}
    <3>1. \A j \in 1 .. n + 7 : doc2[j][1] = "body" => j \in 1 .. n \/ j = n + 4
      BY <1>3, <1>4
    <3>2. n + 4 \in 1 .. n + 7 /\ \A j \in 1 .. n : j \in 1 .. n + 7
      BY <1>1
    <3> QED BY <1>1, <1>2, <1>3, <3>1, <3>2 DEF BodiesAt
  <2>4. \A i \in BodiesAt(doc) : doc2[i] = doc[i] /\ Place(doc2, i) = Place(doc, i) /\ Place(doc, i) # <<t, k>>
    BY <1>2, <1>6 DEF Place
  <2>5. Place(doc2, n + 4) = <<t, k>>
    BY <1>3, <1>7 DEF Place
  <2>6. BodiesAt(doc2) = {Moved(i, n + 1, 7) : i \in BodiesAt(doc)} \cup {n + 4}
    BY <2>2, <2>3
  <2> QED BY <1>2, <2>1, <2>2, <2>4, <2>5, <2>6 DEF BodyAdded
<1>10. Entries(doc2) = Keyed!Put(Entries(doc), t, k, v)
  <2>1. \A i \in BodiesAt(doc) : i < n + 1 /\ BlockOf(doc, i) # t
    BY <1>1, <1>6
  <2> QED BY <1>9, <2>1, PutAtEnd
<1>11. UniquePlaces(doc2)
  BY <1>9, AddedKeepsPlaces DEF UniquePlaces, Shape
<1>12. \A j \in 1 .. (n + 7) - 1 : Follows(doc2[j], doc2[j + 1])
  <2> SUFFICES ASSUME NEW j \in 1 .. (n + 7) - 1 PROVE Follows(doc2[j], doc2[j + 1])
    OBVIOUS
  <2>1. CASE j \in 1 .. n - 1
    <3>1. j \in 1 .. n /\ j + 1 \in 1 .. n /\ Follows(doc[j], doc[j + 1])
      BY <1>1, <2>1 DEF Shape
    <3> QED BY <1>2, <3>1
  <2>2. CASE j = n
    <3>1. n \in 1 .. n /\ doc[n][1] \in {"header", "threadEnd"}
      BY <1>1 DEF Shape, Kinds
    <3> QED BY <1>2, <2>2, <3>1, NewFollows
  <2>3. /\ Follows(doc2[n + 1], doc2[n + 2]) /\ Follows(doc2[n + 2], doc2[n + 3])
        /\ Follows(doc2[n + 3], doc2[n + 4]) /\ Follows(doc2[n + 4], doc2[n + 5])
        /\ Follows(doc2[n + 5], doc2[n + 6]) /\ Follows(doc2[n + 6], doc2[n + 7])
    BY <1>2, NewFollows
  <2>4. CASE j \in n + 1 .. n + 6
    <3>1. \/ j = n + 1 /\ j + 1 = n + 2
          \/ j = n + 2 /\ j + 1 = n + 3
          \/ j = n + 3 /\ j + 1 = n + 4
          \/ j = n + 4 /\ j + 1 = n + 5
          \/ j = n + 5 /\ j + 1 = n + 6
          \/ j = n + 6 /\ j + 1 = n + 7
      BY <1>1, <2>4, SMTT(30)
    <3> QED BY <2>3, <3>1
  <2>5. j \in 1 .. n - 1 \/ j = n \/ j \in n + 1 .. n + 6
    <3>1. n \in Nat
      BY <1>1
    <3> HIDE DEF n
    <3> QED BY <3>1
  <2> QED BY <2>1, <2>2, <2>4, <2>5
<1>13. \A g, h \in 1 .. n + 7 : doc2[g][1] \in Opens /\ doc2[g] = doc2[h] => g = h
  <2> SUFFICES ASSUME NEW g \in 1 .. n + 7, NEW h \in 1 .. n + 7,
                      doc2[g][1] \in Opens, doc2[g] = doc2[h]
               PROVE  g = h
    OBVIOUS
  <2>1. (g \in 1 .. n \/ g = n + 1) /\ (h \in 1 .. n \/ h = n + 1)
    BY <1>3, <1>4 DEF Opens
  <2>2. CASE g \in 1 .. n /\ h \in 1 .. n
    BY <1>2, <2>2 DEF Shape
  <2> QED BY <1>2, <2>1, <2>2
<1>14. doc2[1] = Header
  BY <1>1, <1>2 DEF Shape
<1>15. \A j \in 1 .. n + 7 : doc2[j][1] \in {"open", "close", "threadEnd"} => doc2[j][2] = NoKey
  BY <1>2, <1>3, <1>4 DEF Shape
<1>16. Shape(doc2, "ai")
  BY <1>1, <1>3, <1>5, <1>11, <1>12, <1>13, <1>14, <1>15 DEF Shape, UniquePlaces
<1> QED BY <1>1, <1>9, <1>10, <1>16, AddedWrites DEF Outcome
\* and adding an item to a block of it.
LEMMA ItemOutcome ==
  ASSUME NEW doc, Shape(doc, "ai"), NEW doc2, NEW s, NEW c,
         NEW t \in Key, NEW k \in Key, NEW v \in Version,
         ItemAdded(doc, doc2, s, c, t, k, v)
  PROVE  Outcome(doc, doc2, "ai", k, v)
<1> DEFINE n == Len(doc)
           m(i) == Moved(i, c, 3)
<1>1. /\ doc \in Seq(Token) /\ n \in Nat /\ n > 0 /\ DOMAIN doc = 1 .. n /\ "ai" \in Output
      /\ doc2 \in Seq(Token) /\ Len(doc2) = n + 3 /\ DOMAIN doc2 = 1 .. n + 3
  BY LenProperties DEF Shape, ItemAdded, Output
<1>2. /\ s \in 1 .. n /\ c \in 1 .. n /\ c + 1 \in 1 .. n /\ s + 5 < c + 1 /\ c \in Nat /\ s \in Nat
      /\ Block(doc, s, c + 1) /\ doc[s] = Mark("thread", t)
      /\ doc[c][1] = "close" /\ doc[c - 1][1] = "itemEnd" /\ doc[s + 3][1] = "body"
      /\ \A j \in s + 1 .. c : doc[j][1] \notin Opens
  <2>1. /\ s \in 1 .. n /\ c \in 1 .. n /\ c + 1 \in 1 .. n /\ s + 5 < c + 1
        /\ Block(doc, s, c + 1) /\ doc[s] = Mark("thread", t)
        /\ doc[(c + 1) - 1] = Mark("close", NoKey) /\ doc[(c + 1) - 2][1] = "itemEnd"
        /\ doc[s + 3][1] = "body"
        /\ \A j \in s + 1 .. (c + 1) - 1 : doc[j][1] \notin {"thread", "threadEnd"}
    BY DEF ItemAdded, Block
  <2>2. c \in Nat /\ s \in Nat /\ (c + 1) - 1 = c /\ (c + 1) - 2 = c - 1
    BY <1>1, <2>1
  <2>3. ASSUME NEW j \in s + 1 .. c PROVE doc[j][1] \notin Opens
    <3>1. j \in 1 .. n /\ doc[j][1] # "thread"
      BY <1>1, <2>1, <2>2
    <3> QED BY <1>1, <3>1, OpenersAre DEF Opener
  <2> QED BY <2>1, <2>2, <2>3, MarksAreTokens
<1>3. /\ \A j \in 1 .. c - 1 : doc2[j] = doc[j]
      /\ \A j \in c .. n : doc2[j + 3] = doc[j]
      /\ doc2[c] = Mark("item", k) /\ doc2[c + 1] = Body(k, v) /\ doc2[c + 2] = Mark("itemEnd", k)
      /\ doc2[c][1] = "item" /\ doc2[c + 1][1] = "body" /\ doc2[c + 1][2] = k /\ doc2[c + 2][1] = "itemEnd"
      /\ doc2[c][1] \notin Opens /\ doc2[c + 1][1] \notin Opens /\ doc2[c + 2][1] \notin Opens
      /\ \A i \in s .. c - 1 : doc[i] # Mark("item", k)
  BY MarksAreTokens DEF ItemAdded, Opens
<1>4. ASSUME NEW i \in 1 .. n PROVE m(i) \in 1 .. n + 3 /\ doc2[m(i)] = doc[i]
  <2>1. CASE i < c
    <3>1. i \in 1 .. c - 1 /\ m(i) = i /\ i \in 1 .. n + 3
      BY <1>1, <1>2, <2>1 DEF Moved
    <3> QED BY <1>3, <3>1
  <2>2. CASE ~(i < c)
    <3>1. i \in c .. n /\ m(i) = i + 3 /\ i + 3 \in 1 .. n + 3
      BY <1>1, <1>2, <2>2 DEF Moved
    <3> QED BY <1>3, <3>1
  <2> QED BY <2>1, <2>2
<1>5. ASSUME NEW j \in 1 .. n + 3
      PROVE  j = c \/ j = c + 1 \/ j = c + 2 \/ \E i \in 1 .. n : j = m(i)
  <2>1. CASE j < c
    <3>1. j \in 1 .. n /\ j = m(j)
      BY <1>1, <1>2, <2>1 DEF Moved
    <3> QED BY <3>1
  <2>2. CASE j > c + 2
    <3>1. j - 3 \in 1 .. n /\ j = m(j - 3)
      BY <1>1, <1>2, <2>2 DEF Moved
    <3> QED BY <3>1
  <2>3. j < c \/ j > c + 2 \/ j = c \/ j = c + 1 \/ j = c + 2
    BY <1>1, <1>2
  <2> QED BY <2>1, <2>2, <2>3
<1> HIDE DEF m
<1>6. /\ \A i \in BodiesAt(doc) : i \in 1 .. n /\ doc[i][1] = "body"
      /\ \A i \in 1 .. n : doc[i][1] = "body" => i \in BodiesAt(doc)
  BY <1>1 DEF BodiesAt
<1>7. ASSUME NEW i \in 1 .. n, i < c PROVE m(i) = i /\ BlockOf(doc2, i) = BlockOf(doc, i)
  <2>1. \A h \in 1 .. i : doc2[h] = doc[h]
    BY <1>1, <1>2, <1>3, <1>7
  <2> QED BY <1>1, <1>7, <2>1, BlockSame DEF Moved, m
<1>8. ASSUME NEW i \in 1 .. n, ~(i < c) PROVE m(i) = i + 3 /\ BlockOf(doc2, i + 3) = BlockOf(doc, i)
  <2>1. i \in Nat /\ i + 3 \in Nat /\ m(i) = i + 3 /\ s \in 1 .. i
    BY <1>1, <1>2, <1>8 DEF Moved, m
  <2>2. PICK j \in 1 .. i : doc[j][1] \in Opens /\ \A h \in j + 1 .. i : doc[h][1] \notin Opens
    <3>1. doc[s][1] \in Opens
      BY <1>2, MarksAreTokens DEF Opens
    <3> QED BY <2>1, <3>1, BlockCases
  <2>3. BlockOf(doc, i) = doc[j][2] /\ j \in 1 .. n
    BY <1>1, <2>1, <2>2, BlockIs, SMTT(30)
  <2>4. m(j) \in 1 .. i + 3 /\ doc2[m(j)] = doc[j]
    <3>1. m(j) \in 1 .. n + 3 /\ doc2[m(j)] = doc[j]
      BY <1>4, <2>3
    <3>2. m(j) <= i + 3
      <4>1. i \in Nat /\ j \in 1 .. i /\ (m(j) = j \/ m(j) = j + 3)
        BY <2>1, <2>2 DEF Moved, m
      <4> QED BY <4>1
    <3> QED BY <2>1, <3>1, <3>2
  <2>5. ASSUME NEW h \in m(j) + 1 .. i + 3 PROVE doc2[h][1] \notin Opens
    <3>1. h \in 1 .. n + 3
      BY <1>1, <2>1, <2>4
    <3>2. CASE \E g \in 1 .. n : h = m(g)
      <4>1. PICK g \in 1 .. n : h = m(g)
        BY <3>2
      <4>2. g \in j + 1 .. i
        BY <1>1, <1>2, <1>8, <2>1, <2>3, <2>5, <4>1 DEF Moved, m
      <4> QED BY <1>4, <2>2, <4>1, <4>2
    <3> QED BY <1>3, <1>5, <3>1, <3>2
  <2>6. BlockOf(doc2, i + 3) = doc2[m(j)][2]
    BY <2>1, <2>2, <2>4, <2>5, BlockIs
  <2> QED BY <2>1, <2>3, <2>4, <2>6
<1>9. BlockOf(doc2, c + 1) = t
  <2>1. s \in 1 .. c + 1 /\ c + 1 \in Nat /\ s \in 1 .. c - 1
    BY <1>2
  <2>2. doc2[s][1] \in Opens /\ doc2[s][2] = t
    BY <1>2, <1>3, <2>1, MarksAreTokens DEF Opens
  <2>3. ASSUME NEW h \in s + 1 .. c + 1 PROVE doc2[h][1] \notin Opens
    <3>1. h \in s + 1 .. c - 1 \/ h = c \/ h = c + 1
      BY <1>2
    <3>2. h \in s + 1 .. c - 1 => h \in 1 .. c - 1 /\ h \in s + 1 .. c
      BY <1>2
    <3> QED BY <1>2, <1>3, <3>1, <3>2
  <2> QED BY <2>1, <2>2, <2>3, BlockIs
<1>10. ASSUME NEW i \in BodiesAt(doc) PROVE BlockOf(doc, i) = t <=> s < i /\ i < c
  <2>1. i \in 1 .. n /\ doc[i][1] = "body" /\ (c + 1) - 1 = c
    BY <1>2, <1>6
  <2> QED BY <1>2, <2>1, BodiesOfBlock
<1>11. ASSUME NEW i \in BodiesAt(doc) PROVE Place(doc, i) # <<t, k>>
  <2> SUFFICES ASSUME BlockOf(doc, i) = t, doc[i][2] = k PROVE FALSE
    BY DEF Place
  <2>1. i \in 1 .. n /\ s < i /\ i < c /\ doc[i][1] = "body"
    BY <1>6, <1>10
  <2>2. i - 1 \in 1 .. n /\ Follows(doc[i - 1], doc[i]) /\ doc[i - 1] \in Token /\ i - 1 \in s .. c - 1
    <3>1. i > 1 /\ i - 1 \in s .. c - 1
      BY <1>2, <2>1, SMTT(30)
    <3> QED BY <1>1, <2>1, <3>1, Next1
  <2>3. doc[i - 1][1] \in {"start", "item"} /\ doc[i - 1][2] = k /\ doc[i - 1][1] \in Kinds("ai")
    BY <1>1, <2>1, <2>2, Neighbours DEF Shape
  <2>4. doc[i - 1] = Mark("item", k)
    BY <2>2, <2>3, TokenParts DEF Kinds, Mark
  <2> QED BY <1>3, <2>2, <2>4
<1>12. BodyAdded(doc, doc2, c, 3, c + 1, t, k, v)
  <2>1. c \in Nat /\ 3 \in Nat /\ c + 1 \in c .. c + 3 - 1 /\ BodiesAt(doc) \subseteq Nat
    BY <1>1, <1>2, <1>6
  <2>2. ASSUME NEW i \in BodiesAt(doc)
        PROVE  doc2[m(i)] = doc[i] /\ Place(doc2, m(i)) = Place(doc, i) /\ m(i) \in BodiesAt(doc2)
    <3>1. i \in 1 .. n /\ doc2[m(i)] = doc[i] /\ m(i) \in 1 .. n + 3
      BY <1>4, <1>6
    <3>2. BlockOf(doc2, m(i)) = BlockOf(doc, i)
      <4>1. CASE i < c
        BY <1>7, <3>1, <4>1
      <4>2. CASE ~(i < c)
        BY <1>8, <3>1, <4>2
      <4> QED BY <4>1, <4>2
    <3> QED BY <1>1, <1>6, <3>1, <3>2 DEF Place, BodiesAt
  <2>3. ASSUME NEW j \in BodiesAt(doc2) PROVE j = c + 1 \/ \E i \in BodiesAt(doc) : j = m(i)
    <3>1. j \in 1 .. n + 3 /\ doc2[j][1] = "body"
      BY <1>1 DEF BodiesAt
    <3>2. CASE \E i \in 1 .. n : j = m(i)
      BY <1>4, <1>6, <3>1, <3>2
    <3> QED BY <1>3, <1>5, <3>1, <3>2
  <2>4. c + 1 \in BodiesAt(doc2)
    BY <1>1, <1>2, <1>3 DEF BodiesAt
  <2>5. BodiesAt(doc2) = {m(i) : i \in BodiesAt(doc)} \cup {c + 1}
    BY <2>2, <2>3, <2>4
  <2>6. Place(doc2, c + 1) = <<t, k>>
    BY <1>3, <1>9 DEF Place
  <2> QED BY <1>3, <1>11, <2>1, <2>2, <2>5, <2>6 DEF BodyAdded, m
<1>13. Entries(doc2) = Keyed!Put(Entries(doc), t, k, v)
  <2> DEFINE es      == Entries(doc)
             members == Keyed!Members(es, t)
  <2>1. \A i \in BodiesAt(doc) : Place(doc, i) \in Keyed!Places(es) /\ Place(doc, i)[1] = BlockOf(doc, i)
    <3>1. \A i \in BodiesAt(doc) : [place |-> Place(doc, i), version |-> doc[i][3]] \in es.held
      BY DEF Entries
    <3>2. \A x \in es.held : x.place \in Keyed!Places(es)
      BY DEF Keyed!Places
    <3>3. \A i \in BodiesAt(doc) : Place(doc, i) \in Keyed!Places(es)
      <4> HIDE DEF es
      <4> QED BY <3>1, <3>2
    <3> QED BY <3>3 DEF Place
  <2>2. s + 3 \in BodiesAt(doc) /\ BlockOf(doc, s + 3) = t
    <3>1. s + 3 \in 1 .. n /\ s < s + 3 /\ s + 3 < c
      BY <1>1, <1>2
    <3> QED BY <1>2, <1>6, <1>10, <3>1
  <2>3. Place(doc, s + 3) \in members
    BY <2>1, <2>2 DEF Keyed!Members
  <2>4. Keyed!Ahead(es, t) =
          {p \in Keyed!Places(es) : p \in members \/ \E q \in members : <<p, q>> \in es.order}
    BY <2>3 DEF Keyed!Ahead
  <2>5. ASSUME NEW i \in BodiesAt(doc), i < c PROVE Place(doc, i) \in Keyed!Ahead(es, t)
    <3>1. CASE BlockOf(doc, i) = t
      BY <2>1, <2>4, <3>1 DEF Keyed!Members
    <3>2. CASE BlockOf(doc, i) # t
      <4>1. i \in Nat /\ i < s + 3
        <5>1. i \in Nat /\ s \in Nat /\ i <= n
          BY <1>1, <1>2, <1>6
        <5>2. ~(s < i)
          BY <1>10, <2>5, <3>2
        <5> QED BY <5>1, <5>2
      <4> DEFINE p == <<i, s + 3>>
      <4>2. p \in {q \in BodiesAt(doc) \X BodiesAt(doc) : q[1] < q[2]} /\ p[1] = i /\ p[2] = s + 3
        BY <2>2, <4>1
      <4> HIDE DEF p
      <4>3. <<Place(doc, p[1]), Place(doc, p[2])>> \in es.order
        BY <4>2 DEF Entries
      <4> QED BY <2>1, <2>3, <2>4, <4>2, <4>3
    <3> QED BY <3>1, <3>2
  <2>6. ASSUME NEW i \in BodiesAt(doc), Place(doc, i) \in Keyed!Ahead(es, t) PROVE i < c
    <3>1. CASE Place(doc, i)[1] = t
      BY <1>10, <2>1, <3>1
    <3>2. CASE Place(doc, i)[1] # t
      <4>1. PICK q \in members : <<Place(doc, i), q>> \in es.order
        BY <2>4, <2>6, <3>2 DEF Keyed!Members
      <4>2. PICK g \in BodiesAt(doc), h \in BodiesAt(doc) :
              g < h /\ Place(doc, i) = Place(doc, g) /\ q = Place(doc, h)
        BY <4>1 DEF Entries
      <4>3. g = i
        BY <4>2 DEF Shape
      <4>4. BlockOf(doc, h) = t
        BY <2>1, <4>2 DEF Keyed!Members
      <4>5. h < c /\ g < h /\ g \in Nat /\ h \in Nat
        BY <1>1, <1>6, <1>10, <4>2, <4>4
      <4> QED BY <1>2, <4>3, <4>5
    <3> QED BY <3>1, <3>2
  <2> QED BY <1>12, <2>5, <2>6, PutNew
<1>14. UniquePlaces(doc2)
  BY <1>12, AddedKeepsPlaces DEF UniquePlaces, Shape
<1>15. ASSUME NEW j \in 1 .. (n + 3) - 1 PROVE Follows(doc2[j], doc2[j + 1])
  <2>1. /\ j < c - 1 \/ j = c - 1 \/ j = c \/ j = c + 1 \/ j = c + 2 \/ j > c + 2
        /\ c - 1 \in 1 .. c - 1 /\ c \in c .. n /\ (c - 1) + 1 = c
    BY <1>1, <1>2, SMTT(30)
  <2>2. CASE j < c - 1
    <3>1. j \in 1 .. c - 1 /\ j + 1 \in 1 .. c - 1 /\ j \in 1 .. n - 1
      BY <1>1, <1>2, <2>2
    <3>2. Follows(doc[j], doc[j + 1])
      BY <3>1 DEF Shape
    <3> QED BY <1>3, <3>1, <3>2
  <2>3. CASE j = c - 1
    <3>1. doc2[j] = doc[c - 1] /\ doc2[j + 1] = Mark("item", k)
      BY <1>3, <2>1, <2>3
    <3> QED BY <1>2, <3>1, NewFollows
  <2>4. CASE j = c
    BY <1>3, <2>4, NewFollows
  <2>5. CASE j = c + 1
    <3>1. j + 1 = c + 2
      BY <1>2, <2>5
    <3> QED BY <1>3, <2>5, <3>1, NewFollows
  <2>6. CASE j = c + 2
    <3>1. j + 1 = c + 3
      BY <1>2, <2>6
    <3>2. doc2[j + 1] = doc[c]
      BY <1>3, <2>1, <3>1
    <3> QED BY <1>2, <1>3, <2>6, <3>2, NewFollows
  <2>7. CASE j > c + 2
    <3>1. /\ j - 3 \in c .. n /\ (j - 3) + 1 \in c .. n /\ j - 3 \in 1 .. n - 1
          /\ (j - 3) + 3 = j /\ ((j - 3) + 1) + 3 = j + 1
      <4>1. n \in Nat /\ c \in Nat /\ c >= 1 /\ j \in 1 .. n + 3 - 1
        BY <1>1, <1>2
      <4> QED BY <2>7, <4>1
    <3>2. Follows(doc[j - 3], doc[(j - 3) + 1])
      BY <3>1 DEF Shape
    <3>3. doc2[(j - 3) + 3] = doc[j - 3] /\ doc2[((j - 3) + 1) + 3] = doc[(j - 3) + 1]
      BY <1>3, <3>1
    <3> QED BY <3>1, <3>2, <3>3
  <2> QED BY <2>1, <2>2, <2>3, <2>4, <2>5, <2>6, <2>7
<1>16. ASSUME NEW g \in 1 .. n + 3, NEW h \in 1 .. n + 3,
              doc2[g][1] \in Opens, doc2[g] = doc2[h]
       PROVE  g = h
  <2>1. PICK g1 \in 1 .. n : g = m(g1)
    BY <1>3, <1>5, <1>16
  <2>2. PICK h1 \in 1 .. n : h = m(h1)
    BY <1>3, <1>5, <1>16
  <2>3. g1 = h1
    <3>1. doc[g1][1] \in Opens /\ doc[g1] = doc[h1]
      BY <1>4, <1>16, <2>1, <2>2
    <3> QED BY <3>1 DEF Shape
  <2> QED BY <2>1, <2>2, <2>3
<1>17. \A j \in 1 .. n + 3 : doc2[j][1] \in Kinds("ai")
  <2>1. {"item", "body", "itemEnd"} \subseteq Kinds("ai")
    BY DEF Kinds, Marks
  <2>2. \A i \in 1 .. n : doc2[m(i)][1] \in Kinds("ai")
    BY <1>4 DEF Shape
  <2> QED BY <1>3, <1>5, <2>1, <2>2
<1>18. \A j \in 1 .. n + 3 : doc2[j][1] \in {"open", "close", "threadEnd"} => doc2[j][2] = NoKey
  <2>1. \A i \in 1 .. n : doc[i][1] \in {"open", "close", "threadEnd"} => doc[i][2] = NoKey
    BY DEF Shape
  <2>2. \A i \in 1 .. n : doc2[m(i)][1] \in {"open", "close", "threadEnd"} => doc2[m(i)][2] = NoKey
    BY <1>4, <2>1
  <2> QED BY <1>3, <1>5, <2>2
<1>19. doc2[1] = Header /\ doc2[n + 3][1] \in {"header", "end", "threadEnd"}
  <2>1. 1 \in 1 .. c - 1 /\ n \in c .. n
    BY <1>1, <1>2
  <2> QED BY <1>3, <2>1 DEF Shape
<1>20. Shape(doc2, "ai")
  BY <1>1, <1>14, <1>15, <1>16, <1>17, <1>18, <1>19 DEF Shape, UniquePlaces
<1>21. WroteOnly(doc, doc2, k, v)
  BY <1>12, AddedWrites
<1>22. Len(doc2) > 1 /\ t \in Key \cup {NoKey}
  BY <1>1
<1> QED BY <1>13, <1>20, <1>21, <1>22 DEF Outcome
\* What the writer does to what it has read, as a whole.
LEMMA UpsertOutcome ==
  ASSUME NEW out \in Output, NEW doc, Shape(doc, out), NEW t \in Key, NEW k \in Key, NEW v \in Version
  PROVE  /\ out = "log" => Outcome(doc, UpsertDailyEntry(doc, k, RenderEntry(k, <<Body(k, v)>>)), out, k, v)
         /\ out = "ai"  => Outcome(doc, UpsertAiThreadItem(doc, t, k, RenderItem(k, <<Body(k, v)>>)), out, k, v)
<1>1. ASSUME out = "log"
      PROVE  Outcome(doc, UpsertDailyEntry(doc, k, RenderEntry(k, <<Body(k, v)>>)), out, k, v)
  BY <1>1, LogUpsert, EntryOutcome, ReplacedOutcome
<1>2. ASSUME out = "ai"
      PROVE  Outcome(doc, UpsertAiThreadItem(doc, t, k, RenderItem(k, <<Body(k, v)>>)), out, k, v)
  BY <1>2, AiUpsert, BlockOutcome, ItemOutcome, ReplacedOutcome
<1> QED BY <1>1, <1>2

\* A new file starts with a header, which holds no entry.
LEMMA HeaderOnly ==
  ASSUME NEW out \in Output
  PROVE  /\ Shape(<<Header>>, out) /\ BodiesAt(<<Header>>) = {} /\ BodiesAt(<< >>) = {}
         /\ Entries(<<Header>>) = Entries(<< >>)
         /\ Entries(<< >>) = [held |-> {}, order |-> {}]
<1> DEFINE doc == <<Header>>
<1>1. /\ doc \in Seq(Token) /\ Len(doc) = 1 /\ DOMAIN doc = 1 .. 1 /\ doc[1] = Header
      /\ Header[1] = "header"
  BY MarksAreTokens
<1> HIDE DEF doc
<1>2. BodiesAt(doc) = {} /\ BodiesAt(<< >>) = {}
  <2>1. BodiesAt(doc) = {}
    BY <1>1 DEF BodiesAt
  <2>2. BodiesAt(<< >>) = {}
    BY DEF BodiesAt
  <2> QED BY <2>1, <2>2
<1>3. \A d : BodiesAt(d) = {} => Entries(d) = [held |-> {}, order |-> {}]
  BY DEF Entries
<1>4. "header" \in Kinds(out)
  BY DEF Kinds, Marks
<1>5. Shape(doc, out)
  BY <1>1, <1>2, <1>4 DEF Shape
<1> QED BY <1>2, <1>3, <1>5 DEF doc

-----------------------------------------------------------------------------
(* The sound part of a document. *)

\* p is the part of doc before the first of the blocks.
IsPart(p, doc, blocks) ==
  /\ p \in Seq(Token) /\ doc \in Seq(Token) /\ Len(p) <= Len(doc)
  /\ \A j \in 1 .. Len(p) : doc[j] = p[j] /\ ~(p[j][1] \in Opens /\ p[j][2] \in blocks)
  /\ Len(p) < Len(doc) => doc[Len(p) + 1][1] \in Opens /\ doc[Len(p) + 1][2] \in blocks

\* Every document has such a part,
LEMMA PartIs ==
  ASSUME NEW doc \in Seq(Token), NEW blocks
  PROVE  IsPart(PartBefore(doc, blocks), doc, blocks)
<1> DEFINE starts == {i \in DOMAIN doc : doc[i][1] \in Opens /\ doc[i][2] \in blocks}
           n == Len(doc)
<1>1. n \in Nat /\ DOMAIN doc = 1 .. n /\ \A i \in 1 .. n : doc[i] \in Token
  BY LenProperties, ElementOfSeq
<1>2. CASE starts = {}
  <2>1. PartBefore(doc, blocks) = doc
    BY <1>2 DEF PartBefore
  <2> QED BY <1>1, <1>2, <2>1 DEF IsPart
<1>3. CASE starts # {}
  <2> DEFINE m == CHOOSE i \in starts : \A j \in starts : i <= j
             p == SubSeq(doc, 1, m - 1)
  <2>1. PartBefore(doc, blocks) = p
    BY <1>3 DEF PartBefore
  <2>2. m \in starts /\ \A j \in starts : m <= j
    <3>1. starts \subseteq Nat
      BY <1>1
    <3> HIDE DEF starts
    <3>2. \E i \in starts : \A j \in starts : i <= j
      BY <1>3, <3>1, LeastOfNaturals
    <3> QED BY <3>2
  <2> HIDE DEF m
  <2>3. m \in 1 .. n /\ doc[m][1] \in Opens /\ doc[m][2] \in blocks
    BY <1>1, <2>2
  <2>4. p \in Seq(Token) /\ Len(p) = m - 1 /\ \A i \in 1 .. m - 1 : p[i] = doc[i]
    BY <2>3, Prefix
  <2> HIDE DEF p
  <2>5. ASSUME NEW j \in 1 .. m - 1
        PROVE  doc[j] = p[j] /\ ~(p[j][1] \in Opens /\ p[j][2] \in blocks)
    <3>1. j \in 1 .. n /\ j < m
      BY <1>1, <2>3
    <3>2. ~(m <= j)
      BY <1>1, <2>3, <3>1
    <3> QED BY <1>1, <2>2, <2>4, <3>1, <3>2
  <2>6. Len(p) <= n /\ Len(p) + 1 = m
    BY <1>1, <2>3, <2>4
  <2> QED BY <2>1, <2>3, <2>4, <2>5, <2>6 DEF IsPart
<1> QED BY <1>2, <1>3

\* and no other.
LEMMA PartUnique ==
  ASSUME NEW p, NEW q, NEW doc, NEW blocks, IsPart(p, doc, blocks), IsPart(q, doc, blocks)
  PROVE  p = q
<1>1. p \in Seq(Token) /\ q \in Seq(Token) /\ Len(p) \in Nat /\ Len(q) \in Nat /\ Len(doc) \in Nat
  BY LenProperties DEF IsPart
<1>2. ~(Len(p) < Len(q))
  <2> SUFFICES ASSUME Len(p) < Len(q) PROVE FALSE
    OBVIOUS
  <2>1. Len(p) + 1 \in 1 .. Len(q) /\ Len(p) < Len(doc)
    BY <1>1 DEF IsPart
  <2> QED BY <2>1 DEF IsPart
<1>3. ~(Len(q) < Len(p))
  <2> SUFFICES ASSUME Len(q) < Len(p) PROVE FALSE
    OBVIOUS
  <2>1. Len(q) + 1 \in 1 .. Len(p) /\ Len(q) < Len(doc)
    BY <1>1 DEF IsPart
  <2> QED BY <2>1 DEF IsPart
<1>4. Len(p) = Len(q)
  BY <1>1, <1>2, <1>3
<1>5. \A i \in 1 .. Len(p) : p[i] = q[i]
  BY <1>4 DEF IsPart
<1> QED BY <1>1, <1>4, <1>5, SeqEqual

\* A part that is there is the part.
LEMMA PartBeforeIs ==
  ASSUME NEW p, NEW doc, NEW blocks, IsPart(p, doc, blocks)
  PROVE  PartBefore(doc, blocks) = p
BY PartIs, PartUnique DEF IsPart

\* Nothing is spoilt: the document is its own part.
LEMMA WholePart ==
  ASSUME NEW doc \in Seq(Token)
  PROVE  PartBefore(doc, {}) = doc
<1>1. Len(doc) \in Nat
  BY LenProperties
<1>2. IsPart(doc, doc, {})
  BY <1>1 DEF IsPart
<1> QED BY <1>2, PartBeforeIs

\* q is what a shaped document has before its place m, where block b opens.
UpTo(q, doc, out, m, b) ==
  /\ Shape(q, out) /\ Len(q) = m - 1
  /\ \A j \in 1 .. Len(q) : doc[j] = q[j] /\ ~(q[j][1] \in Opens /\ q[j][2] = b)
  /\ Entries(q) = Keyed!Cut(Entries(doc), b)

\* The part of a shaped document before one of its blocks, opened at m, has the
\* shape too; it holds the entries the list cut before that block holds.
LEMMA CutPart ==
  ASSUME NEW out \in Output, NEW doc, Shape(doc, out), NEW b \in Key,
         NEW m \in 1 .. Len(doc), doc[m] = Mark(Opener(out), b)
  PROVE  \E p : UpTo(p, doc, out, m, b)
<1> DEFINE n == Len(doc)
           p == SubSeq(doc, 1, m - 1)
<1>1. doc \in Seq(Token) /\ n \in Nat /\ DOMAIN doc = 1 .. n /\ \A i \in 1 .. n : doc[i] \in Token
  BY LenProperties, ElementOfSeq DEF Shape
<1>2. doc[m][1] = Opener(out) /\ doc[m][1] \in Opens /\ doc[m][2] = b
  BY MarksAreTokens DEF Opener, Opens
<1>3. p \in Seq(Token) /\ Len(p) = m - 1 /\ DOMAIN p = 1 .. m - 1 /\ \A i \in 1 .. m - 1 : p[i] = doc[i]
  <2>1. p \in Seq(Token) /\ Len(p) = m - 1 /\ \A i \in 1 .. m - 1 : p[i] = doc[i]
    BY <1>1, Prefix
  <2> QED BY <2>1, LenProperties
<1> HIDE DEF p
<1>4. /\ m > 1 /\ m - 1 \in 1 .. n /\ \A i \in 1 .. m - 1 : i \in 1 .. n
      /\ doc[m - 1][1] \in {"header", "end", "threadEnd"}
  <2>1. m # 1
    BY <1>1, <1>2, Next1 DEF Opens
  <2>2. m > 1 /\ m - 1 \in 1 .. n /\ \A i \in 1 .. m - 1 : i \in 1 .. n
    BY <1>1, <2>1
  <2>3. Follows(doc[m - 1], doc[m])
    BY <2>2, Next1
  <2> QED BY <1>2, <2>2, <2>3 DEF Follows, Opens
<1>5. ASSUME NEW i \in BodiesAt(doc)
      PROVE  i \in 1 .. n /\ i # m /\ (i < m => BlockOf(p, i) = BlockOf(doc, i) /\ BlockOf(doc, i) # b)
  <2>1. i \in 1 .. n /\ doc[i][1] = "body" /\ i # m
    BY <1>1, <1>2 DEF BodiesAt, Opens
  <2>2. ASSUME i < m PROVE BlockOf(p, i) = BlockOf(doc, i) /\ BlockOf(doc, i) # b
    <3>1. i \in Nat /\ i \in 1 .. m - 1
      BY <1>1, <2>1, <2>2
    <3>2. \A h \in 1 .. i : h \in 1 .. m - 1
      BY <1>1, <3>1
    <3>3. BlockOf(p, i) = BlockOf(doc, i)
      BY <1>3, <3>1, <3>2, BlockSame
    <3>4. ASSUME NEW h \in 1 .. m - 1 PROVE ~(doc[h][1] \in Opens /\ doc[h][2] = b)
      <4> SUFFICES ASSUME doc[h][1] \in Opens, doc[h][2] = b PROVE FALSE
        OBVIOUS
      <4>1. doc[h] = doc[m] /\ h \in 1 .. n
        BY <1>4, OpenersAre
      <4>2. h = m
        BY <4>1 DEF Shape
      <4> QED BY <1>1, <4>2
    <3>5. BlockOf(p, i) # b
      <4>1. \A j \in 1 .. Len(p) : doc[j] = p[j] /\ ~(p[j][1] \in Opens /\ p[j][2] = b)
        BY <1>3, <3>4
      <4>2. i \in 1 .. Len(p) /\ p \in Seq(Token) /\ b \in Key
        BY <1>3, <3>1
      <4> QED BY ONLY <4>1, <4>2, OtherBlocks
    <3> QED BY <3>3, <3>5
  <2> QED BY <2>1, <2>2
<1>6. BodiesAt(p) = {i \in BodiesAt(doc) : i < m}
  <2>1. BodiesAt(doc) = {i \in 1 .. n : doc[i][1] = "body"} /\ BodiesAt(p) = {i \in 1 .. m - 1 : p[i][1] = "body"}
    BY <1>1, <1>3 DEF BodiesAt
  <2>2. \A i \in 1 .. n : i < m <=> i \in 1 .. m - 1
    BY <1>1
  <2> QED BY <1>3, <1>4, <2>1, <2>2
<1>7. \A i \in BodiesAt(p) : Place(p, i) = Place(doc, i) /\ p[i] = doc[i]
  <2> SUFFICES ASSUME NEW i \in BodiesAt(p) PROVE Place(p, i) = Place(doc, i) /\ p[i] = doc[i]
    OBVIOUS
  <2>1. i \in BodiesAt(doc) /\ i < m /\ i \in 1 .. m - 1
    BY <1>3, <1>6 DEF BodiesAt
  <2> QED BY <1>3, <1>5, <2>1 DEF Place
<1>8. Shape(p, out)
  <2>1. p \in Seq(Token) /\ Len(p) > 0 /\ p[1] = Header /\ p[Len(p)][1] \in {"header", "end", "threadEnd"}
    <3>1. 1 \in 1 .. m - 1 /\ m - 1 \in 1 .. m - 1
      BY <1>1, <1>4
    <3> QED BY <1>3, <1>4, <3>1 DEF Shape
  <2>2. /\ \A i \in 1 .. Len(p) : p[i][1] \in Kinds(out)
        /\ \A i \in 1 .. Len(p) : p[i][1] \in {"open", "close", "threadEnd"} => p[i][2] = NoKey
    BY <1>3, <1>4, SMTT(30) DEF Shape
  <2>3. ASSUME NEW i \in 1 .. Len(p) - 1 PROVE Follows(p[i], p[i + 1])
    <3>1. i \in 1 .. m - 1 /\ i + 1 \in 1 .. m - 1 /\ i \in 1 .. n - 1
      BY <1>1, <1>3
    <3> QED BY <1>3, <3>1 DEF Shape
  <2>4. \A i, j \in 1 .. Len(p) : p[i][1] \in Opens /\ p[i] = p[j] => i = j
    BY <1>3, <1>4 DEF Shape
  <2>5. \A i, j \in BodiesAt(p) : Place(p, i) = Place(p, j) => i = j
    BY <1>6, <1>7 DEF Shape
  <2> QED BY <2>1, <2>2, <2>3, <2>4, <2>5 DEF Shape
<1>9. ASSUME NEW j \in 1 .. Len(p) PROVE doc[j] = p[j] /\ ~(p[j][1] \in Opens /\ p[j][2] = b)
  <2>1. doc[j] = p[j] /\ j \in 1 .. n /\ j # m
    BY <1>1, <1>3, <1>4
  <2>2. ASSUME p[j][1] \in Opens, p[j][2] = b PROVE FALSE
    <3>1. doc[j] = doc[m]
      BY <2>1, <2>2, OpenersAre
    <3> QED BY <2>1, <2>2, <3>1 DEF Shape
  <2> QED BY <2>1, <2>2
<1>10. \E h \in BodiesAt(doc) : /\ m < h /\ BlockOf(doc, h) = b
                               /\ \A i \in BodiesAt(doc) : i < h => i < m
  <2>1. CASE out = "log"
    <3>1. m + 1 \in 1 .. n /\ doc[m + 1][1] = "body"
      BY <1>2, <2>1, BodyFollows DEF Opener
    <3>2. m + 1 \in BodiesAt(doc) /\ m < m + 1 /\ m \in 1 .. m + 1 /\ m + 1 \in Nat
      BY <1>1, <3>1 DEF BodiesAt
    <3>3. \A h \in m + 1 .. m + 1 : doc[h][1] \notin Opens
      BY <1>1, <3>1 DEF Opens
    <3>4. BlockOf(doc, m + 1) = b
      BY <1>2, <3>2, <3>3, BlockIs
    <3>5. \A i \in BodiesAt(doc) : i < m + 1 => i < m
      BY <1>1, <1>5
    <3> QED BY <3>2, <3>4, <3>5
  <2>2. CASE out = "ai"
    <3>1. doc[m][1] = "thread"
      BY <1>2, <2>2 DEF Opener
    <3>2. PICK e \in 1 .. n : Block(doc, m, e)
      BY <2>2, <3>1, BlockThere
    <3>3. /\ e \in Nat /\ m + 5 < e /\ m + 3 \in 1 .. n /\ m + 1 \in 1 .. n /\ m + 2 \in 1 .. n
          /\ doc[m + 3][1] = "body" /\ m + 3 \in Nat /\ m \in 1 .. m + 3 /\ m < m + 3
      BY <1>1, <3>2 DEF Block
    <3>4. doc[m + 1][1] = "open" /\ doc[m + 2][1] = "item"
      <4>1. doc[m + 1][1] = "open"
        <5>1. doc[m][1] \notin {"header", "end", "threadEnd"}
          BY <3>1
        <5>2. Follows(doc[m], doc[m + 1])
          BY <5>1, Next1
        <5> QED BY <3>1, <5>2, Neighbours
      <4>2. (m + 1) + 1 = m + 2
        BY <1>1
      <4>3. Follows(doc[m + 1], doc[(m + 1) + 1])
        <5>1. doc[m + 1][1] \notin {"header", "end", "threadEnd"}
          BY <4>1
        <5> QED BY <3>3, <5>1, Next1
      <4> QED BY <4>1, <4>2, <4>3, Neighbours
    <3>5. m + 1 .. m + 3 = {m + 1, m + 2, m + 3}
      BY <1>1
    <3>6. \A h \in m + 1 .. m + 3 : doc[h][1] \notin Opens
      BY <3>3, <3>4, <3>5 DEF Opens
    <3>7. BlockOf(doc, m + 3) = b
      BY <1>2, <3>3, <3>6, BlockIs
    <3>8. ASSUME NEW i \in BodiesAt(doc), i < m + 3 PROVE i < m
      <4>1. i \in 1 .. n /\ i # m /\ i # m + 1 /\ i # m + 2
        BY <1>5, <3>4 DEF BodiesAt
      <4> QED BY <1>1, <3>8, <4>1
    <3>9. m + 3 \in BodiesAt(doc)
      BY <1>1, <3>3 DEF BodiesAt
    <3> QED BY <3>3, <3>7, <3>8, <3>9
  <2> QED BY <2>1, <2>2 DEF Output
<1> DEFINE B       == BodiesAt(doc)
           es      == Entries(doc)
           members == Keyed!Members(es, b)
           kept    == {q \in Keyed!Places(es) : \A x \in members : <<q, x>> \in es.order}
           E(d)    == {[place |-> Place(d, i), version |-> d[i][3]] : i \in BodiesAt(d)}
           O(d)    == {<<Place(d, q[1]), Place(d, q[2])>> :
                         q \in {x \in BodiesAt(d) \X BodiesAt(d) : x[1] < x[2]}}
<1>11. /\ es.held = E(doc) /\ es.order = O(doc)
       /\ Entries(p) = [held |-> E(p), order |-> O(p)]
  BY DEF Entries
<1>12. Keyed!Places(es) = {Place(doc, i) : i \in B}
  <2>1. Keyed!Places(es) = {x.place : x \in E(doc)}
    BY <1>11 DEF Keyed!Places
  <2>2. \A x \in E(doc) : x.place \in {Place(doc, i) : i \in B}
    OBVIOUS
  <2>3. ASSUME NEW i \in B PROVE Place(doc, i) \in {x.place : x \in E(doc)}
    <3>1. [place |-> Place(doc, i), version |-> doc[i][3]] \in E(doc)
      OBVIOUS
    <3> QED BY <3>1
  <2> HIDE DEF E
  <2> QED BY <2>1, <2>2, <2>3
<1>13. \A i, j \in B : <<Place(doc, i), Place(doc, j)>> \in es.order <=> i < j
  <2> SUFFICES ASSUME NEW i \in B, NEW j \in B
               PROVE  <<Place(doc, i), Place(doc, j)>> \in es.order <=> i < j
    OBVIOUS
  <2>1. ASSUME i < j PROVE <<Place(doc, i), Place(doc, j)>> \in O(doc)
    <3> DEFINE q == <<i, j>>
    <3>1. q \in {x \in B \X B : x[1] < x[2]} /\ q[1] = i /\ q[2] = j
      BY <2>1
    <3> HIDE DEF q
    <3>2. <<Place(doc, q[1]), Place(doc, q[2])>> \in O(doc)
      BY <3>1
    <3> QED BY <3>1, <3>2
  <2>2. ASSUME <<Place(doc, i), Place(doc, j)>> \in O(doc) PROVE i < j
    <3>1. PICK g \in B, h \in B : g < h /\ Place(doc, i) = Place(doc, g) /\ Place(doc, j) = Place(doc, h)
      BY <2>2
    <3>2. g = i /\ h = j
      BY <3>1 DEF Shape
    <3> QED BY <3>1, <3>2
  <2> HIDE DEF O
  <2> QED BY <1>11, <2>1, <2>2
<1>14. ASSUME NEW i \in B PROVE Place(doc, i) \in kept <=> i < m
  <2>1. Place(doc, i) \in Keyed!Places(es)
    BY <1>12
  <2>2. ASSUME i < m, NEW x \in members PROVE <<Place(doc, i), x>> \in es.order
    <3>1. PICK h \in B : x = Place(doc, h)
      BY <1>12 DEF Keyed!Members
    <3>2. BlockOf(doc, h) = b
      BY <3>1 DEF Keyed!Members, Place
    <3>3. i < h
      <4>1. h \in 1 .. n /\ i \in 1 .. n /\ ~(h < m)
        BY <1>5, <3>2
      <4> QED BY <1>1, <2>2, <4>1
    <3> HIDE DEF es
    <3> QED BY <1>13, <3>1, <3>3
  <2>3. ASSUME Place(doc, i) \in kept PROVE i < m
    <3>1. PICK h \in B : m < h /\ BlockOf(doc, h) = b /\ \A g \in B : g < h => g < m
      BY <1>10
    <3>2. Place(doc, h) \in members
      BY <1>12, <3>1 DEF Keyed!Members, Place
    <3>3. <<Place(doc, i), Place(doc, h)>> \in es.order
      BY <2>3, <3>2
    <3> HIDE DEF es
    <3> QED BY <1>13, <3>1, <3>3
  <2> QED BY <2>1, <2>2, <2>3
<1>15. E(p) = {x \in es.held : x.place \in kept}
  <2> HIDE DEF kept
  <2>1. ASSUME NEW i \in BodiesAt(p)
        PROVE  /\ [place |-> Place(p, i), version |-> p[i][3]] \in E(doc)
               /\ Place(p, i) \in kept
    <3>1. i \in B /\ i < m /\ Place(p, i) = Place(doc, i) /\ p[i] = doc[i]
      BY <1>6, <1>7
    <3> QED BY <1>14, <3>1
  <2>2. ASSUME NEW i \in B, Place(doc, i) \in kept
        PROVE  [place |-> Place(doc, i), version |-> doc[i][3]] \in E(p)
    <3>1. i \in BodiesAt(p)
      BY <1>6, <1>14, <2>2
    <3>2. Place(p, i) = Place(doc, i) /\ p[i] = doc[i]
      BY <1>7, <3>1
    <3> QED BY <3>1, <3>2
  <2>3. \A x \in E(p) : x \in E(doc) /\ x.place \in kept
    <3> SUFFICES ASSUME NEW i \in BodiesAt(p), NEW x, x = [place |-> Place(p, i), version |-> p[i][3]]
                 PROVE  x \in E(doc) /\ x.place \in kept
      OBVIOUS
    <3>1. x.place = Place(p, i)
      OBVIOUS
    <3> HIDE DEF E
    <3> QED BY <2>1, <3>1
  <2>4. \A x \in E(doc) : x.place \in kept => x \in E(p)
    <3> SUFFICES ASSUME NEW i \in B, NEW x, x = [place |-> Place(doc, i), version |-> doc[i][3]],
                        x.place \in kept
                 PROVE  x \in E(p)
      OBVIOUS
    <3>1. Place(doc, i) \in kept
      OBVIOUS
    <3> HIDE DEF E
    <3> QED BY <2>2, <3>1
  <2> HIDE DEF E
  <2> QED BY <1>11, <2>3, <2>4
<1>16. O(p) = es.order \cap (kept \X kept)
  <2> HIDE DEF kept, es
  <2>1. ASSUME NEW i \in BodiesAt(p), NEW j \in BodiesAt(p), i < j
        PROVE  <<Place(p, i), Place(p, j)>> \in es.order \cap (kept \X kept)
    <3>1. /\ i \in B /\ j \in B /\ i < m /\ j < m
          /\ Place(p, i) = Place(doc, i) /\ Place(p, j) = Place(doc, j)
      BY <1>6, <1>7
    <3>2. <<Place(doc, i), Place(doc, j)>> \in es.order
      BY <1>13, <2>1, <3>1
    <3> QED BY <1>14, <3>1, <3>2
  <2>2. ASSUME NEW i \in B, NEW j \in B, i < j, Place(doc, i) \in kept, Place(doc, j) \in kept
        PROVE  <<Place(doc, i), Place(doc, j)>> \in O(p)
    <3>1. i \in BodiesAt(p) /\ j \in BodiesAt(p) /\ Place(p, i) = Place(doc, i) /\ Place(p, j) = Place(doc, j)
      BY <1>6, <1>7, <1>14, <2>2
    <3> DEFINE q == <<i, j>>
    <3>2. q \in {x \in BodiesAt(p) \X BodiesAt(p) : x[1] < x[2]} /\ q[1] = i /\ q[2] = j
      BY <2>2, <3>1
    <3> HIDE DEF q
    <3>3. <<Place(p, q[1]), Place(p, q[2])>> \in O(p)
      BY <3>2
    <3> QED BY <3>1, <3>2, <3>3
  <2>3. \A x \in O(p) : x \in es.order \cap (kept \X kept)
    BY <2>1
  <2>4. \A x \in es.order \cap (kept \X kept) : x \in O(p)
    <3> SUFFICES ASSUME NEW x \in O(doc), x \in kept \X kept PROVE x \in O(p)
      BY <1>11
    <3>1. PICK i \in B, j \in B : i < j /\ x = <<Place(doc, i), Place(doc, j)>>
      OBVIOUS
    <3>2. Place(doc, i) \in kept /\ Place(doc, j) \in kept
      BY <3>1
    <3> HIDE DEF O
    <3> QED BY <2>2, <3>1, <3>2
  <2> HIDE DEF O
  <2> QED BY <2>3, <2>4
<1>17. Keyed!Cut(es, b) = [held |-> {x \in es.held : x.place \in kept}, order |-> es.order \cap (kept \X kept)]
  BY DEF Keyed!Cut
<1> HIDE DEF E, O, kept, es
<1>18. Entries(p) = Keyed!Cut(es, b)
  BY <1>11, <1>15, <1>16, <1>17
<1>19. UpTo(p, doc, out, m, b)
  BY <1>3, <1>8, <1>9, <1>18 DEF UpTo, es
<1> QED BY <1>19

-----------------------------------------------------------------------------
(* What the upserts do to any document, whatever it and the body hold. *)

\* str::find, in either case.
LEMMA IndexAny ==
  ASSUME NEW doc \in Seq(Token), NEW from \in Nat \ {0}, NEW t
  PROVE  LET i == IndexFrom(doc, from, t) IN
         \/ i = 0 /\ \A j \in from .. Len(doc) : doc[j] # t
         \/ /\ i \in from .. Len(doc) /\ i # 0 /\ i \in 1 .. Len(doc) /\ doc[i] = t
            /\ \A j \in from .. i - 1 : doc[j] # t
<1> DEFINE i == IndexFrom(doc, from, t)
<1>1. CASE \A j \in from .. Len(doc) : doc[j] # t
  BY <1>1, IndexNone
<1>2. CASE \E j \in from .. Len(doc) : doc[j] = t
  <2>1. i \in from .. Len(doc) /\ doc[i] = t /\ \A j \in from .. Len(doc) : doc[j] = t => i <= j
    BY <1>2, IndexFound
  <2> HIDE DEF i
  <2>2. Len(doc) \in Nat
    BY LenProperties
  <2>3. ASSUME NEW j \in from .. i - 1 PROVE doc[j] # t
    <3>1. j \in from .. Len(doc) /\ ~(i <= j)
      BY <2>1, <2>2
    <3> QED BY <2>1, <3>1
  <2>4. i # 0 /\ i \in 1 .. Len(doc)
    BY <2>1, <2>2
  <2> QED BY <2>1, <2>3, <2>4 DEF i
<1> QED BY <1>1, <1>2

\* Every body of doc2 comes from one of the two.
BodiesFrom(doc2, doc, part) ==
  \A j \in 1 .. Len(doc2) : doc2[j][1] = "body" =>
    (\E i \in 1 .. Len(doc) : doc2[j] = doc[i]) \/ (\E i \in 1 .. Len(part) : doc2[j] = part[i])

\* So does every token.
TokensFrom(doc2, doc, part) ==
  \A j \in 1 .. Len(doc2) :
    (\E i \in 1 .. Len(doc) : doc2[j] = doc[i]) \/ (\E i \in 1 .. Len(part) : doc2[j] = part[i])

\* A document is as it was up to the first mark t, or has it behind all it had.
Kept(doc, doc2, t) ==
  LET s == IndexFrom(doc, 1, t) IN
  /\ doc2 \in Seq(Token)
  /\ s = 0 => /\ Len(doc) < Len(doc2) /\ doc2[Len(doc) + 1] = t
              /\ \A j \in 1 .. Len(doc) : doc2[j] = doc[j]
  /\ s # 0 => s <= Len(doc2) /\ \A j \in 1 .. s : doc2[j] = doc[j]

\* A part is appended:
LEMMA Appended ==
  ASSUME NEW doc \in Seq(Token), NEW part \in Seq(Token), Len(part) > 0
  PROVE  /\ doc \o part \in Seq(Token) /\ Len(doc) < Len(doc \o part)
         /\ (doc \o part)[Len(doc) + 1] = part[1]
         /\ \A j \in 1 .. Len(doc) : (doc \o part)[j] = doc[j]
         /\ BodiesFrom(doc \o part, doc, part) /\ TokensFrom(doc \o part, doc, part)
<1> DEFINE n == Len(doc)
           m == Len(part)
           r == doc \o part
<1>1. /\ r \in Seq(Token) /\ Len(r) = n + m /\ n \in Nat /\ m \in Nat
      /\ \A j \in 1 .. n + m : r[j] = IF j <= n THEN doc[j] ELSE part[j - n]
  BY ConcatProperties, LenProperties
<1> HIDE DEF r, n, m
<1>2. ASSUME NEW j \in 1 .. n + m
      PROVE  (\E i \in 1 .. n : r[j] = doc[i]) \/ (\E i \in 1 .. m : r[j] = part[i])
  <2>1. CASE j <= n
    <3>1. j \in 1 .. n
      BY <1>1, <2>1
    <3> QED BY <1>1, <2>1, <3>1
  <2>2. CASE ~(j <= n)
    <3>1. j - n \in 1 .. m
      BY <1>1, <2>2
    <3> QED BY <1>1, <2>2, <3>1
  <2> QED BY <2>1, <2>2
<1>3. BodiesFrom(r, doc, part) /\ TokensFrom(r, doc, part)
  BY <1>1, <1>2 DEF BodiesFrom, TokensFrom, n, m
<1>4. n < n + m /\ r[n + 1] = part[1]
  <2>1. m > 0
    BY DEF m
  <2>2. n < n + m /\ n + 1 \in 1 .. n + m /\ ~(n + 1 <= n) /\ (n + 1) - n = 1
    BY <1>1, <2>1
  <2> QED BY <1>1, <2>2
<1>5. ASSUME NEW j \in 1 .. n PROVE r[j] = doc[j]
  <2>1. j \in 1 .. n + m /\ j <= n
    BY <1>1
  <2> QED BY <1>1, <2>1
<1> QED BY <1>1, <1>3, <1>4, <1>5 DEF r, n

\* or put in place of another.
LEMMA Spliced ==
  ASSUME NEW doc \in Seq(Token), NEW from \in 1 .. Len(doc) + 1,
         NEW to \in from - 1 .. Len(doc), NEW part \in Seq(Token), Len(part) > 0
  PROVE  LET r == Splice(doc, from, to, part) IN
         /\ r \in Seq(Token) /\ from <= Len(r) /\ r[from] = part[1]
         /\ \A j \in 1 .. from - 1 : r[j] = doc[j]
         /\ BodiesFrom(r, doc, part) /\ TokensFrom(r, doc, part)
<1> DEFINE n == Len(doc)
           m == Len(part)
           w == to - from + 1
           r == Splice(doc, from, to, part)
<1>1. n \in Nat /\ m \in Nat /\ m > 0 /\ w \in Nat /\ from \in Nat /\ to \in Int /\ 1 <= from /\ from + w <= n + 1
  BY LenProperties
<1>2. /\ r \in Seq(Token) /\ Len(r) = n - w + m
      /\ \A i \in 1 .. n - w + m :
           r[i] = IF i < from THEN doc[i] ELSE IF i < from + m THEN part[i - from + 1] ELSE doc[i - m + w]
  <2>1. /\ r \in Seq(Token) /\ Len(r) = Len(doc) - (to - from + 1) + Len(part)
        /\ \A i \in 1 .. Len(doc) - (to - from + 1) + Len(part) :
             r[i] = IF i < from THEN doc[i]
                    ELSE IF i < from + Len(part) THEN part[i - from + 1]
                    ELSE doc[i - Len(part) + (to - from + 1)]
    <3>1. /\ doc \in Seq(Token) /\ part \in Seq(Token)
          /\ from \in 1 .. Len(doc) + 1 /\ to \in from - 1 .. Len(doc)
      OBVIOUS
    <3> QED BY ONLY <3>1, SpliceIs
  <2> HIDE DEF r
  <2> QED BY <2>1
<1> HIDE DEF r, n, m, w
<1>3. ASSUME NEW j \in 1 .. n - w + m
      PROVE  (\E i \in 1 .. n : r[j] = doc[i]) \/ (\E i \in 1 .. m : r[j] = part[i])
  <2>1. CASE j < from
    <3>1. j \in 1 .. n
      BY <1>1, <2>1
    <3> QED BY <1>2, <2>1, <3>1
  <2>2. CASE ~(j < from) /\ j < from + m
    <3>1. j - from + 1 \in 1 .. m
      BY <1>1, <2>2
    <3> QED BY <1>2, <2>2, <3>1
  <2>3. CASE ~(j < from) /\ ~(j < from + m)
    <3>1. j - m + w \in 1 .. n
      BY <1>1, <2>3
    <3> QED BY <1>2, <2>3, <3>1
  <2> QED BY <2>1, <2>2, <2>3
<1>4. BodiesFrom(r, doc, part) /\ TokensFrom(r, doc, part)
  BY <1>2, <1>3 DEF BodiesFrom, TokensFrom, n, m
<1>5. from <= n - w + m /\ r[from] = part[1]
  <2>1. from \in 1 .. n - w + m /\ ~(from < from) /\ from < from + m /\ from - from + 1 = 1
    BY <1>1
  <2> QED BY <1>2, <2>1
<1>6. ASSUME NEW j \in 1 .. from - 1 PROVE r[j] = doc[j]
  <2>1. j \in 1 .. n - w + m /\ j < from
    BY <1>1
  <2> QED BY <1>2, <2>1
<1> QED BY <1>2, <1>4, <1>5, <1>6 DEF r

\* An entry and an item start with their mark; their bodies are the body's.
LEMMA RenderedParts ==
  ASSUME NEW k \in Key, NEW t \in Key, NEW body \in Seq(Token)
  PROVE  /\ RenderEntry(k, body) \in Seq(Token) /\ Len(RenderEntry(k, body)) > 0
         /\ RenderEntry(k, body)[1] = Mark("start", k)
         /\ BodiesFrom(RenderEntry(k, body), body, <<>>)
         /\ RenderItem(k, body) \in Seq(Token) /\ Len(RenderItem(k, body)) > 0
         /\ BodiesFrom(RenderItem(k, body), body, <<>>)
         /\ LET b == ThreadBlock(t, RenderItem(k, body)) IN
            /\ b \in Seq(Token) /\ Len(b) > 0 /\ b[1] = Mark("thread", t)
            /\ BodiesFrom(b, body, <<>>)
<1>1. ASSUME NEW x \in Token, NEW y \in Token, x[1] # "body", y[1] # "body", NEW part \in Seq(Token),
             BodiesFrom(part, body, <<>>)
      PROVE  LET r == (<<x>> \o part) \o <<y>> IN
             /\ r \in Seq(Token) /\ Len(r) > 0 /\ r[1] = x
             /\ BodiesFrom(r, body, <<>>)
  <2> DEFINE q == <<x>> \o part
             r == q \o <<y>>
             m == Len(part)
  <2>1. /\ <<x>> \in Seq(Token) /\ Len(<<x>>) = 1 /\ <<x>>[1] = x /\ m \in Nat
        /\ <<y>> \in Seq(Token) /\ Len(<<y>>) = 1 /\ <<y>>[1] = y
    BY <1>1, LenProperties
  <2>2. /\ q \in Seq(Token) /\ Len(q) = 1 + m
        /\ \A i \in 1 .. 1 + m : q[i] = IF i <= 1 THEN <<x>>[i] ELSE part[i - 1]
    <3>1. /\ q \in Seq(Token) /\ Len(q) = Len(<<x>>) + Len(part)
          /\ \A i \in 1 .. Len(<<x>>) + Len(part) : q[i] = IF i <= Len(<<x>>) THEN <<x>>[i] ELSE part[i - Len(<<x>>)]
      BY <1>1, <2>1, ConcatProperties
    <3> HIDE DEF q
    <3> QED BY <2>1, <3>1
  <2> HIDE DEF q
  <2>3. /\ r \in Seq(Token) /\ Len(r) = m + 2
        /\ \A i \in 1 .. m + 2 : r[i] = IF i <= 1 + m THEN q[i] ELSE <<y>>[i - (1 + m)]
    <3>1. /\ r \in Seq(Token) /\ Len(r) = Len(q) + Len(<<y>>)
          /\ \A i \in 1 .. Len(q) + Len(<<y>>) : r[i] = IF i <= Len(q) THEN q[i] ELSE <<y>>[i - Len(q)]
      BY <2>1, <2>2, ConcatProperties
    <3>2. Len(q) + Len(<<y>>) = m + 2
      BY <2>1, <2>2
    <3> HIDE DEF r
    <3> QED BY <2>2, <3>1, <3>2
  <2> HIDE DEF r, m
  <2>4. r[1] = x /\ m + 2 > 0
    <3>1. 1 \in 1 .. m + 2 /\ 1 \in 1 .. 1 + m /\ 1 <= 1 + m /\ m + 2 > 0
      BY <2>1
    <3>2. r[1] = q[1]
      BY <2>3, <3>1
    <3>3. q[1] = x
      BY <2>1, <2>2, <3>1
    <3> QED BY <3>1, <3>2, <3>3
  <2>5. ASSUME NEW i \in 1 .. m + 2, r[i][1] = "body" PROVE \E j \in 1 .. Len(body) : r[i] = body[j]
    <3>1. i # 1
      BY <1>1, <2>4, <2>5
    <3>2. i # m + 2
      <4>1. ~(m + 2 <= 1 + m) /\ (m + 2) - (1 + m) = 1 /\ m + 2 \in 1 .. m + 2
        BY <2>1
      <4>2. r[m + 2] = y
        BY <2>1, <2>3, <4>1
      <4> QED BY <1>1, <2>5, <4>2
    <3>3. i - 1 \in 1 .. m /\ i \in 1 .. 1 + m /\ i <= 1 + m /\ ~(i <= 1)
      BY <2>1, <3>1, <3>2
    <3>4. r[i] = part[i - 1]
      BY <2>2, <2>3, <3>3
    <3>5. \A h \in 1 .. Len(part) : part[h][1] = "body" =>
            (\E j \in 1 .. Len(body) : part[h] = body[j]) \/ (\E j \in 1 .. Len(<< >>) : part[h] = << >>[j])
      BY <1>1 DEF BodiesFrom
    <3>6. 1 .. Len(<< >>) = {}
      OBVIOUS
    <3> QED BY <2>5, <3>3, <3>4, <3>5, <3>6 DEF m
  <2>6. BodiesFrom(r, body, << >>)
    BY <2>3, <2>5 DEF BodiesFrom
  <2> QED BY <2>3, <2>4, <2>6 DEF r, q
<1>2. BodiesFrom(body, body, << >>)
  BY DEF BodiesFrom
<1>3. /\ \A what \in {"start", "end", "item", "itemEnd"} : Mark(what, k) \in Token /\ Mark(what, k)[1] # "body"
      /\ Mark("thread", t) \in Token /\ Mark("thread", t)[1] # "body"
      /\ \A what \in {"open", "close", "threadEnd"} : Mark(what, NoKey) \in Token /\ Mark(what, NoKey)[1] # "body"
  BY MarksAreTokens DEF Marks
<1>4. /\ RenderEntry(k, body) \in Seq(Token) /\ Len(RenderEntry(k, body)) > 0
      /\ RenderEntry(k, body)[1] = Mark("start", k)
      /\ BodiesFrom(RenderEntry(k, body), body, <<>>)
  BY <1>1, <1>2, <1>3 DEF RenderEntry
<1>5. /\ RenderItem(k, body) \in Seq(Token) /\ Len(RenderItem(k, body)) > 0
      /\ BodiesFrom(RenderItem(k, body), body, <<>>)
  BY <1>1, <1>2, <1>3 DEF RenderItem
<1> DEFINE item  == RenderItem(k, body)
           inner == (<<Mark("open", NoKey)>> \o item) \o <<Mark("close", NoKey)>>
           outer == (<<Mark("thread", t)>> \o inner) \o <<Mark("threadEnd", NoKey)>>
<1>6. inner \in Seq(Token) /\ BodiesFrom(inner, body, <<>>)
  BY <1>1, <1>3, <1>5
<1>7. /\ outer \in Seq(Token) /\ Len(outer) > 0 /\ outer[1] = Mark("thread", t)
      /\ BodiesFrom(outer, body, <<>>)
  <2> HIDE DEF inner
  <2> QED BY <1>1, <1>3, <1>6
<1>8. ThreadBlock(t, item) = outer
  <2> DEFINE a == <<Mark("thread", t)>>
             b == <<Mark("open", NoKey)>>
             c == <<Mark("close", NoKey)>>
             d == <<Mark("threadEnd", NoKey)>>
  <2>1. a \in Seq(Token) /\ b \in Seq(Token) /\ c \in Seq(Token) /\ d \in Seq(Token) /\ item \in Seq(Token)
    BY <1>3, <1>5
  <2>2. <<Mark("thread", t), Mark("open", NoKey)>> = a \o b /\ <<Mark("close", NoKey), Mark("threadEnd", NoKey)>> = c \o d
    BY <1>3
  <2>3. ThreadBlock(t, item) = ((a \o b) \o item) \o (c \o d)
    BY <2>2 DEF ThreadBlock
  <2> HIDE DEF a, b, c, d, item
  <2> DEFINE bi  == b \o item
             abi == a \o bi
  <2>4. (a \o b) \o item = abi /\ bi \in Seq(Token) /\ abi \in Seq(Token)
    <3>1. bi \in Seq(Token)
      BY <2>1, ConcatProperties
    <3>2. abi \in Seq(Token)
      <4> HIDE DEF bi
      <4> QED BY <2>1, <3>1, ConcatProperties
    <3>3. (a \o b) \o item = a \o (b \o item)
      BY <2>1, ConcatAssociative, SMTT(30)
    <3> QED BY <3>1, <3>2, <3>3
  <2> HIDE DEF abi
  <2>5. abi \o (c \o d) = (abi \o c) \o d
    <3>1. abi \in Seq(Token) /\ c \in Seq(Token) /\ d \in Seq(Token)
      BY <2>1, <2>4
    <3> QED BY ONLY <3>1, ConcatAssociative, SMTT(30)
  <2>6. ThreadBlock(t, item) = (abi \o c) \o d
    BY <2>3, <2>4, <2>5
  <2> HIDE DEF bi
  <2>7. (a \o bi) \o c = a \o (bi \o c)
    <3>1. a \in Seq(Token) /\ bi \in Seq(Token) /\ c \in Seq(Token)
      BY <2>1, <2>4
    <3> QED BY ONLY <3>1, ConcatAssociative
  <2>8. ThreadBlock(t, item) = (a \o (bi \o c)) \o d
    BY <2>6, <2>7 DEF abi
  <2> QED BY <2>8 DEF a, b, c, d, bi
<1>9. ThreadBlock(t, RenderItem(k, body)) = outer
  BY <1>8
<1> HIDE DEF outer, item
<1>10. LET b == ThreadBlock(t, RenderItem(k, body)) IN
       /\ b \in Seq(Token) /\ Len(b) > 0 /\ b[1] = Mark("thread", t)
       /\ BodiesFrom(b, body, <<>>)
  BY <1>7, <1>9
<1> QED BY <1>4, <1>5, <1>10

\* Bodies of a part that is the body's are the body's.
LEMMA BodiesThrough ==
  ASSUME NEW doc2, NEW doc, NEW part, NEW body,
         BodiesFrom(doc2, doc, part), BodiesFrom(part, body, <<>>)
  PROVE  BodiesFrom(doc2, doc, body)
<1>1. 1 .. Len(<< >>) = {}
  OBVIOUS
<1> QED BY <1>1 DEF BodiesFrom

\* The upsert of the log keeps what is up to the entry.
LEMMA LogKeeps ==
  ASSUME NEW doc \in Seq(Token), NEW k \in Key, NEW body \in Seq(Token), NEW doc2,
         doc2 = UpsertDailyEntry(doc, k, RenderEntry(k, body))
  PROVE  Kept(doc, doc2, Mark("start", k)) /\ BodiesFrom(doc2, doc, body)
<1> DEFINE part == RenderEntry(k, body)
           s    == IndexFrom(doc, 1, Mark("start", k))
           e    == IF s = 0 THEN 0 ELSE IndexFrom(doc, s, Mark("end", k))
<1>1. /\ part \in Seq(Token) /\ Len(part) > 0 /\ part[1] = Mark("start", k)
      /\ BodiesFrom(part, body, <<>>)
  BY RenderedParts
<1>2. doc2 = IF e = 0 THEN doc \o part ELSE Splice(doc, s, e, part)
  BY DEF UpsertDailyEntry
<1> HIDE DEF part
<1>3. s = 0 \/ (s \in 1 .. Len(doc) /\ doc[s] = Mark("start", k))
  BY IndexAny
<1>4. Len(doc) \in Nat
  BY LenProperties
<1>5. CASE e = 0
  <2>1. /\ doc2 \in Seq(Token) /\ Len(doc) < Len(doc2) /\ doc2[Len(doc) + 1] = part[1]
        /\ \A j \in 1 .. Len(doc) : doc2[j] = doc[j]
        /\ BodiesFrom(doc2, doc, part)
    BY <1>1, <1>2, <1>5, Appended
  <2>2. Kept(doc, doc2, Mark("start", k))
    <3> HIDE DEF s
    <3>1. s # 0 => s <= Len(doc2) /\ \A j \in 1 .. s : doc2[j] = doc[j]
      <4>1. Len(doc2) \in Nat
        BY <2>1, LenProperties
      <4>2. s # 0 => s \in Nat /\ s <= Len(doc) /\ \A j \in 1 .. s : j \in 1 .. Len(doc)
        BY <1>3, <1>4
      <4> QED BY <1>4, <2>1, <4>1, <4>2
    <3> QED BY <1>1, <2>1, <3>1 DEF Kept, s
  <2> QED BY <1>1, <2>1, <2>2, BodiesThrough
<1>6. CASE e # 0
  <2>1. s # 0 /\ s \in 1 .. Len(doc) /\ doc[s] = Mark("start", k)
    BY <1>3, <1>6
  <2>2. e \in s .. Len(doc)
    <3>1. s \in Nat \ {0}
      BY <1>4, <2>1
    <3> HIDE DEF s
    <3> QED BY <1>6, <2>1, <3>1, IndexAny
  <2> HIDE DEF s, e
  <2>3. s \in 1 .. Len(doc) + 1 /\ e \in s - 1 .. Len(doc)
    BY <1>4, <2>1, <2>2
  <2>4. /\ doc2 \in Seq(Token) /\ s <= Len(doc2) /\ doc2[s] = part[1]
        /\ \A j \in 1 .. s - 1 : doc2[j] = doc[j]
        /\ BodiesFrom(doc2, doc, part)
    BY <1>1, <1>2, <1>6, <2>3, Spliced
  <2>5. \A j \in 1 .. s : doc2[j] = doc[j]
    <3>1. \A j \in 1 .. s : j \in 1 .. s - 1 \/ j = s
      BY <1>4, <2>1
    <3> QED BY <1>1, <2>1, <2>4, <3>1
  <2>6. Kept(doc, doc2, Mark("start", k))
    BY <2>1, <2>4, <2>5 DEF Kept, s
  <2> QED BY <1>1, <2>4, <2>6, BodiesThrough
<1> QED BY <1>5, <1>6

\* Where the upsert of the source looks, once it has found its block.
LEMMA AiPlaces ==
  ASSUME NEW doc \in Seq(Token), NEW t, NEW k, NEW s, NEW e,
         s = IndexFrom(doc, 1, Mark("thread", t)), s # 0,
         e = IndexFrom(doc, s, Mark("threadEnd", NoKey)), e # 0,
         NEW is, is = IndexFrom(SubSeq(doc, 1, e - 1), s, Mark("item", k)),
         NEW ie, ie = IF is = 0 THEN 0 ELSE IndexFrom(SubSeq(doc, 1, e - 1), is, Mark("itemEnd", k)),
         NEW at, at = InsertionPoint(doc, s, e)
  PROVE  /\ s \in 1 .. Len(doc) /\ e \in s + 1 .. Len(doc) /\ doc[s] = Mark("thread", t)
         /\ ie # 0 => is \in s + 1 .. Len(doc) /\ ie \in is .. Len(doc)
         /\ at \in s + 1 .. Len(doc)
<1> DEFINE n == Len(doc)
           p == SubSeq(doc, 1, e - 1)
<1>1. n \in Nat /\ s \in 1 .. n /\ s \in Nat \ {0} /\ doc[s] = Mark("thread", t) /\ doc[s][1] = "thread"
  <2>1. n \in Nat /\ s \in 1 .. n /\ doc[s] = Mark("thread", t)
    BY IndexAny, LenProperties
  <2> QED BY <2>1, MarksAreTokens
<1>2. e \in s .. n /\ doc[e] = Mark("threadEnd", NoKey) /\ doc[e][1] = "threadEnd"
  <2>1. e \in s .. n /\ doc[e] = Mark("threadEnd", NoKey)
    BY <1>1, IndexAny
  <2> QED BY <2>1, MarksAreTokens
<1>3. e \in s + 1 .. n /\ e \in 1 .. n
  <2>1. e # s
    BY <1>1, <1>2
  <2> QED BY <1>1, <1>2, <2>1
<1>4. p \in Seq(Token) /\ Len(p) = e - 1 /\ \A i \in 1 .. e - 1 : p[i] = doc[i]
  BY <1>3, Prefix
<1> HIDE DEF p, n
<1>5. ASSUME NEW x \in s .. e - 1, NEW t1, p[x] = t1, t1[1] # "thread"
      PROVE  x \in s + 1 .. n /\ x \in Nat \ {0}
  <2>1. x \in 1 .. e - 1
    BY <1>1, <1>3
  <2>2. x # s
    BY <1>1, <1>4, <1>5, <2>1
  <2> QED BY <1>1, <1>3, <2>2
<1>6. ASSUME ie # 0 PROVE is \in s + 1 .. n /\ ie \in is .. n
  <2>1. is # 0 /\ is = IndexFrom(p, s, Mark("item", k)) /\ ie = IndexFrom(p, is, Mark("itemEnd", k))
    BY <1>6 DEF p
  <2>2. is \in s .. e - 1 /\ p[is] = Mark("item", k)
    BY <1>1, <1>4, <2>1, IndexAny
  <2>3. is \in s + 1 .. n /\ is \in Nat \ {0}
    BY <1>5, <2>2, MarksAreTokens
  <2>4. ie \in is .. e - 1
    BY <1>4, <1>6, <2>1, <2>3, IndexAny
  <2> QED BY <1>1, <1>3, <2>3, <2>4
<1>7. at \in s + 1 .. n
  <2> DEFINE c == IndexFrom(p, s, Mark("close", NoKey))
  <2>1. at = IF c = 0 THEN e ELSE c
    BY DEF InsertionPoint, p
  <2>2. c = 0 \/ (c \in s .. e - 1 /\ p[c] = Mark("close", NoKey))
    BY <1>1, <1>4, IndexAny
  <2> HIDE DEF c
  <2>3. c = 0 \/ c \in s + 1 .. n
    BY <1>5, <2>2, MarksAreTokens
  <2> QED BY <1>3, <2>1, <2>3
<1> QED BY <1>1, <1>3, <1>6, <1>7 DEF n

\* So the upsert of the source keeps what is up to the start of the block.
LEMMA AiKeeps ==
  ASSUME NEW doc \in Seq(Token), NEW t \in Key, NEW k \in Key, NEW body \in Seq(Token), NEW doc2,
         doc2 = UpsertAiThreadItem(doc, t, k, RenderItem(k, body))
  PROVE  Kept(doc, doc2, Mark("thread", t)) /\ BodiesFrom(doc2, doc, body)
<1> DEFINE item == RenderItem(k, body)
           new  == ThreadBlock(t, item)
           s    == IndexFrom(doc, 1, Mark("thread", t))
           e    == IF s = 0 THEN 0 ELSE IndexFrom(doc, s, Mark("threadEnd", NoKey))
           is   == IndexFrom(SubSeq(doc, 1, e - 1), s, Mark("item", k))
           ie   == IF is = 0 THEN 0 ELSE IndexFrom(SubSeq(doc, 1, e - 1), is, Mark("itemEnd", k))
           at   == InsertionPoint(doc, s, e)
<1>1. /\ item \in Seq(Token) /\ Len(item) > 0 /\ BodiesFrom(item, body, <<>>)
      /\ new \in Seq(Token) /\ Len(new) > 0 /\ new[1] = Mark("thread", t) /\ BodiesFrom(new, body, <<>>)
  BY RenderedParts
<1>2. doc2 = IF e = 0 THEN doc \o new
             ELSE IF ie # 0 THEN Splice(doc, is, ie, item) ELSE Splice(doc, at, at - 1, item)
  BY DEF UpsertAiThreadItem
<1> HIDE DEF item, new
<1>3. s = 0 \/ (s \in 1 .. Len(doc) /\ doc[s] = Mark("thread", t))
  BY IndexAny
<1>4. Len(doc) \in Nat
  BY LenProperties
<1>5. CASE e = 0
  <2> HIDE DEF e, is, ie, at
  <2>1. /\ doc2 \in Seq(Token) /\ Len(doc) < Len(doc2) /\ doc2[Len(doc) + 1] = new[1]
        /\ \A j \in 1 .. Len(doc) : doc2[j] = doc[j]
        /\ BodiesFrom(doc2, doc, new)
    BY <1>1, <1>2, <1>5, Appended
  <2>2. Kept(doc, doc2, Mark("thread", t))
    <3> HIDE DEF s
    <3>1. s # 0 => s <= Len(doc2) /\ \A j \in 1 .. s : doc2[j] = doc[j]
      <4>1. Len(doc2) \in Nat
        BY <2>1, LenProperties
      <4>2. s # 0 => s \in Nat /\ s <= Len(doc) /\ \A j \in 1 .. s : j \in 1 .. Len(doc)
        BY <1>3, <1>4
      <4> QED BY <1>4, <2>1, <4>1, <4>2
    <3> QED BY <1>1, <2>1, <3>1 DEF Kept, s
  <2> QED BY <1>1, <2>1, <2>2, BodiesThrough
<1>6. CASE e # 0
  <2>1. s # 0 /\ e = IndexFrom(doc, s, Mark("threadEnd", NoKey))
    BY <1>6
  <2> HIDE DEF s, e, is, ie, at
  <2>2. /\ s \in 1 .. Len(doc)
        /\ ie # 0 => is \in s + 1 .. Len(doc) /\ ie \in is .. Len(doc)
        /\ at \in s + 1 .. Len(doc)
    <3>1. s = IndexFrom(doc, 1, Mark("thread", t))
      BY DEF s
    <3>2. is = IndexFrom(SubSeq(doc, 1, e - 1), s, Mark("item", k))
      BY DEF is
    <3>3. ie = IF is = 0 THEN 0 ELSE IndexFrom(SubSeq(doc, 1, e - 1), is, Mark("itemEnd", k))
      BY DEF ie
    <3>4. at = InsertionPoint(doc, s, e)
      BY DEF at
    <3>5. doc \in Seq(Token)
      OBVIOUS
    <3> QED BY ONLY <1>6, <2>1, <3>1, <3>2, <3>3, <3>4, <3>5, AiPlaces
  <2>3. PICK from \in s + 1 .. Len(doc), to \in Int :
          to \in from - 1 .. Len(doc) /\ doc2 = Splice(doc, from, to, item)
    <3>1. CASE ie # 0
      <4>1. doc2 = Splice(doc, is, ie, item)
        BY <1>2, <1>6, <3>1
      <4>2. is \in s + 1 .. Len(doc) /\ ie \in Int /\ ie \in is - 1 .. Len(doc)
        BY <1>4, <2>2, <3>1
      <4> QED BY <4>1, <4>2
    <3>2. CASE ie = 0
      <4>1. doc2 = Splice(doc, at, at - 1, item)
        BY <1>2, <1>6, <3>2
      <4>2. at \in s + 1 .. Len(doc) /\ at - 1 \in Int /\ at - 1 \in at - 1 .. Len(doc)
        BY <1>4, <2>2
      <4> QED BY <4>1, <4>2
    <3> QED BY <3>1, <3>2
  <2>4. from \in 1 .. Len(doc) + 1 /\ from \in Nat /\ s \in Nat /\ s < from
    BY <1>4, <2>2
  <2>5. /\ doc2 \in Seq(Token) /\ from <= Len(doc2)
        /\ \A j \in 1 .. from - 1 : doc2[j] = doc[j]
        /\ BodiesFrom(doc2, doc, item)
    BY <1>1, <2>3, <2>4, Spliced
  <2>6. s <= Len(doc2) /\ \A j \in 1 .. s : doc2[j] = doc[j]
    <3>1. Len(doc2) \in Nat
      BY <2>5, LenProperties
    <3>2. \A j \in 1 .. s : j \in 1 .. from - 1
      BY <2>4
    <3> QED BY <2>4, <2>5, <3>1, <3>2
  <2>7. Kept(doc, doc2, Mark("thread", t))
    BY <2>1, <2>5, <2>6 DEF Kept, s
  <2> QED BY <1>1, <2>5, <2>7, BodiesThrough
<1> QED BY <1>5, <1>6

-----------------------------------------------------------------------------
(* What the upserts do inside the sound part does not depend on the rest. *)

LEMMA IndexInside ==
  ASSUME NEW p \in Seq(Token), NEW r \in Seq(Token), NEW from \in Nat \ {0}, NEW t,
         IndexFrom(p, from, t) # 0
  PROVE  IndexFrom(p \o r, from, t) = IndexFrom(p, from, t)
<1> DEFINE i == IndexFrom(p, from, t)
           d == p \o r
<1>1. i \in from .. Len(p) /\ p[i] = t /\ \A j \in from .. i - 1 : p[j] # t
  BY IndexAny
<1>2. /\ d \in Seq(Token) /\ Len(d) = Len(p) + Len(r) /\ Len(p) \in Nat /\ Len(r) \in Nat
      /\ \A j \in 1 .. Len(p) : d[j] = p[j]
  BY Concat
<1> HIDE DEF i, d
<1>3. i \in from .. Len(d) /\ i \in 1 .. Len(p) /\ \A j \in from .. i - 1 : j \in 1 .. Len(p)
  BY <1>1, <1>2
<1>4. d[i] = t /\ \A j \in from .. i - 1 : d[j] # t
  BY <1>1, <1>2, <1>3
<1>5. IndexFrom(d, from, t) = i
  BY <1>2, <1>3, <1>4, IndexIs
<1> QED BY <1>5 DEF i, d

LEMMA PrefixInside ==
  ASSUME NEW p \in Seq(Token), NEW r \in Seq(Token), NEW e \in 1 .. Len(p)
  PROVE  SubSeq(p \o r, 1, e - 1) = SubSeq(p, 1, e - 1)
<1> DEFINE d == p \o r
           x == SubSeq(d, 1, e - 1)
           y == SubSeq(p, 1, e - 1)
<1>1. /\ d \in Seq(Token) /\ Len(d) = Len(p) + Len(r) /\ Len(p) \in Nat /\ Len(r) \in Nat
      /\ \A j \in 1 .. Len(p) : d[j] = p[j]
  BY Concat
<1> HIDE DEF d
<1>2. y \in Seq(Token) /\ Len(y) = e - 1 /\ \A i \in 1 .. e - 1 : y[i] = p[i]
  BY Prefix
<1>3. x \in Seq(Token) /\ Len(x) = e - 1 /\ \A i \in 1 .. e - 1 : x[i] = d[i]
  <2>1. e \in 1 .. Len(d)
    BY <1>1
  <2> QED BY <1>1, <2>1, Prefix
<1> HIDE DEF x, y
<1>4. \A i \in 1 .. e - 1 : i \in 1 .. Len(p)
  BY <1>1
<1>5. x = y
  BY <1>1, <1>2, <1>3, <1>4, SeqEqual
<1> QED BY <1>5 DEF x, y, d

LEMMA SpliceInside ==
  ASSUME NEW p \in Seq(Token), NEW r \in Seq(Token), NEW part \in Seq(Token),
         NEW from \in 1 .. Len(p) + 1, NEW to \in from - 1 .. Len(p)
  PROVE  Splice(p \o r, from, to, part) = Splice(p, from, to, part) \o r
<1> DEFINE d == p \o r
           x == Splice(d, from, to, part)
           q == Splice(p, from, to, part)
           y == q \o r
           n == Len(p)
           l == Len(r)
           m == Len(part)
           w == to - from + 1
<1>1. /\ n \in Nat /\ l \in Nat /\ m \in Nat /\ w \in Nat /\ from \in Nat /\ 1 <= from
      /\ from + w <= n + 1 /\ w = to - from + 1
  BY LenProperties
<1>2. /\ d \in Seq(Token) /\ Len(d) = n + l
      /\ \A j \in 1 .. n + l : d[j] = IF j <= n THEN p[j] ELSE r[j - n]
  BY ConcatProperties
<1> HIDE DEF d
<1>3. /\ q \in Seq(Token) /\ Len(q) = n - w + m
      /\ \A i \in 1 .. n - w + m :
           q[i] = IF i < from THEN p[i] ELSE IF i < from + m THEN part[i - from + 1] ELSE p[i - m + w]
  <2>1. /\ q \in Seq(Token) /\ Len(q) = Len(p) - (to - from + 1) + Len(part)
        /\ \A i \in 1 .. Len(p) - (to - from + 1) + Len(part) :
             q[i] = IF i < from THEN p[i]
                    ELSE IF i < from + Len(part) THEN part[i - from + 1]
                    ELSE p[i - Len(part) + (to - from + 1)]
    BY SpliceIs
  <2> HIDE DEF q
  <2> QED BY <2>1
<1>4. /\ x \in Seq(Token) /\ Len(x) = n + l - w + m
      /\ \A i \in 1 .. n + l - w + m :
           x[i] = IF i < from THEN d[i] ELSE IF i < from + m THEN part[i - from + 1] ELSE d[i - m + w]
  <2>1. from \in 1 .. Len(d) + 1 /\ to \in from - 1 .. Len(d)
    BY <1>1, <1>2
  <2>2. /\ x \in Seq(Token) /\ Len(x) = Len(d) - (to - from + 1) + Len(part)
        /\ \A i \in 1 .. Len(d) - (to - from + 1) + Len(part) :
             x[i] = IF i < from THEN d[i]
                    ELSE IF i < from + Len(part) THEN part[i - from + 1]
                    ELSE d[i - Len(part) + (to - from + 1)]
    BY <1>2, <2>1, SpliceIs
  <2>3. Len(d) = n + l
    BY <1>2
  <2> HIDE DEF x
  <2> QED BY <2>2, <2>3
<1> HIDE DEF q, x, n, l, m, w
<1>5. /\ y \in Seq(Token) /\ Len(y) = (n - w + m) + l
      /\ \A i \in 1 .. (n - w + m) + l : y[i] = IF i <= n - w + m THEN q[i] ELSE r[i - (n - w + m)]
  BY <1>3, ConcatProperties DEF l
<1> HIDE DEF y
<1>6. ASSUME NEW i \in 1 .. n + l - w + m PROVE x[i] = y[i]
  <2>1. i \in 1 .. (n - w + m) + l
    BY <1>1
  <2>2. CASE i < from
    <3>1. i \in 1 .. n - w + m /\ i <= n - w + m /\ i \in 1 .. n + l /\ i <= n
      BY <1>1, <2>2
    <3>2. x[i] = d[i] /\ d[i] = p[i]
      BY <1>2, <1>4, <2>2, <3>1
    <3>3. y[i] = q[i] /\ q[i] = p[i]
      BY <1>3, <1>5, <2>1, <2>2, <3>1
    <3> QED BY <3>2, <3>3
  <2>3. CASE ~(i < from) /\ i < from + m
    <3>1. i \in 1 .. n - w + m /\ i <= n - w + m
      BY <1>1, <2>3
    <3>2. y[i] = q[i] /\ q[i] = part[i - from + 1]
      BY <1>3, <1>5, <2>1, <2>3, <3>1
    <3> QED BY <1>4, <2>3, <3>2
  <2>4. CASE ~(i < from) /\ ~(i < from + m) /\ i <= n - w + m
    <3>1. i \in 1 .. n - w + m /\ i - m + w \in 1 .. n + l /\ i - m + w <= n
      BY <1>1, <2>4
    <3>2. x[i] = d[i - m + w] /\ d[i - m + w] = p[i - m + w]
      BY <1>2, <1>4, <2>4, <3>1
    <3>3. y[i] = q[i] /\ q[i] = p[i - m + w]
      BY <1>3, <1>5, <2>1, <2>4, <3>1
    <3> QED BY <3>2, <3>3
  <2>5. CASE ~(i < from) /\ ~(i < from + m) /\ ~(i <= n - w + m)
    <3>1. i - m + w \in 1 .. n + l /\ ~(i - m + w <= n) /\ (i - m + w) - n = i - (n - w + m)
      BY <1>1, <2>5
    <3>2. x[i] = d[i - m + w] /\ d[i - m + w] = r[(i - m + w) - n]
      BY <1>2, <1>4, <2>5, <3>1
    <3>3. y[i] = r[i - (n - w + m)]
      BY <1>5, <2>1, <2>5
    <3> QED BY <3>1, <3>2, <3>3
  <2> QED BY <2>2, <2>3, <2>4, <2>5
<1>7. Len(x) = Len(y) /\ Len(x) = n + l - w + m
  BY <1>1, <1>4, <1>5
<1>8. x = y
  BY <1>4, <1>5, <1>6, <1>7, SeqEqual
<1> QED BY <1>8 DEF x, y, q, d

\* A part's blocks and entries come from p, if none of it opens another.
OpenedFrom(doc2, p) ==
  \A j \in 1 .. Len(doc2) : doc2[j][1] \in Opens => \E i \in 1 .. Len(p) : doc2[j] = p[i]

\* An entry that is there is replaced,
LEMMA LogInside ==
  ASSUME NEW p, Shape(p, "log"), NEW r \in Seq(Token), NEW k \in Key,
         NEW m \in 1 .. Len(p), p[m] = Mark("start", k),
         NEW part \in Seq(Token), Len(part) > 0,
         \A i \in 1 .. Len(part) : part[i][1] \in Opens => part[i] = Mark("start", k)
  PROVE  /\ UpsertDailyEntry(p \o r, k, part) = UpsertDailyEntry(p, k, part) \o r
         /\ OpenedFrom(UpsertDailyEntry(p, k, part), p)
<1> DEFINE s == IndexFrom(p, 1, Mark("start", k))
           e == IndexFrom(p, s, Mark("end", k))
<1>1. p \in Seq(Token) /\ Len(p) \in Nat /\ "log" \in Output
  BY LenProperties DEF Shape, Output
<1>2. s \in 1 .. Len(p) /\ p[s] = Mark("start", k)
  <2>1. p \in Seq(Token) /\ 1 \in Nat \ {0} /\ m \in 1 .. Len(p) /\ p[m] = Mark("start", k)
    BY <1>1
  <2> QED BY ONLY <2>1, IndexFound
<1>3. IndexFrom(p \o r, 1, Mark("start", k)) = s
  <2>1. s # 0
    BY <1>1, <1>2
  <2> QED BY <1>1, <2>1, IndexInside
<1> HIDE DEF s
<1>4. s + 2 \in s .. Len(p) /\ p[s + 2] = Mark("end", k) /\ s \in Nat \ {0}
  <2>1. p[s][1] \in {"start", "item"} /\ p[s][2] = k
    BY <1>2, MarksAreTokens
  <2>2. s + 2 \in 1 .. Len(p) /\ p[s + 2] = Mark("end", k)
    BY <1>1, <1>2, <2>1, BodyFollows
  <2> QED BY <1>1, <1>2, <2>2
<1>5. e \in s .. Len(p) /\ e # 0
  <2>1. e \in s .. Len(p)
    BY <1>1, <1>4, IndexFound
  <2> QED BY <1>1, <1>4, <2>1
<1>6. IndexFrom(p \o r, s, Mark("end", k)) = e
  BY <1>1, <1>4, <1>5, IndexInside
<1> HIDE DEF e
<1>7. /\ UpsertDailyEntry(p, k, part) = Splice(p, s, e, part)
      /\ UpsertDailyEntry(p \o r, k, part) = Splice(p \o r, s, e, part)
  <2>1. s # 0
    BY <1>4
  <2>2. UpsertDailyEntry(p, k, part) = Splice(p, s, e, part)
    BY <1>5, <2>1 DEF UpsertDailyEntry, s, e
  <2>3. UpsertDailyEntry(p \o r, k, part) = Splice(p \o r, s, e, part)
    BY <1>3, <1>5, <1>6, <2>1 DEF UpsertDailyEntry
  <2> QED BY <2>2, <2>3
<1>8. s \in 1 .. Len(p) + 1 /\ e \in s - 1 .. Len(p)
  BY <1>1, <1>2, <1>5
<1>9. Splice(p \o r, s, e, part) = Splice(p, s, e, part) \o r
  BY <1>1, <1>8, SpliceInside
<1>10. TokensFrom(Splice(p, s, e, part), p, part)
  BY <1>1, <1>8, Spliced
<1>11. OpenedFrom(Splice(p, s, e, part), p)
  BY <1>10 DEF TokensFrom, OpenedFrom
<1> QED BY <1>7, <1>9, <1>11

\* and an item put into the block that is there.
LEMMA AiInside ==
  ASSUME NEW p, Shape(p, "ai"), NEW r \in Seq(Token), NEW t \in Key, NEW k \in Key,
         NEW m \in 1 .. Len(p), p[m] = Mark("thread", t),
         NEW item \in Seq(Token), Len(item) > 0,
         \A i \in 1 .. Len(item) : item[i][1] \notin Opens
  PROVE  /\ UpsertAiThreadItem(p \o r, t, k, item) = UpsertAiThreadItem(p, t, k, item) \o r
         /\ OpenedFrom(UpsertAiThreadItem(p, t, k, item), p)
<1> DEFINE s  == IndexFrom(p, 1, Mark("thread", t))
           e  == IndexFrom(p, s, Mark("threadEnd", NoKey))
           is == IndexFrom(SubSeq(p, 1, e - 1), s, Mark("item", k))
           ie == IF is = 0 THEN 0 ELSE IndexFrom(SubSeq(p, 1, e - 1), is, Mark("itemEnd", k))
           at == InsertionPoint(p, s, e)
           from == IF ie # 0 THEN is ELSE at
           to   == IF ie # 0 THEN ie ELSE at - 1
<1>1. p \in Seq(Token) /\ Len(p) \in Nat
  BY LenProperties DEF Shape
<1>2. s \in 1 .. Len(p) /\ p[s] = Mark("thread", t) /\ s # 0 /\ s \in Nat \ {0}
  <2>1. s \in 1 .. Len(p) /\ p[s] = Mark("thread", t)
    BY <1>1, IndexFound
  <2> HIDE DEF s
  <2> QED BY <1>1, <2>1
<1>3. IndexFrom(p \o r, 1, Mark("thread", t)) = s
  BY <1>1, <1>2, IndexInside
<1>4. e \in 1 .. Len(p) /\ e # 0
  <2> HIDE DEF s
  <2>1. p[s][1] = "thread"
    BY <1>2, MarksAreTokens
  <2>2. PICK x \in 1 .. Len(p) : Block(p, s, x)
    BY <1>2, <2>1, BlockThere
  <2>3. x \in s .. Len(p) /\ p[x] = Mark("threadEnd", NoKey)
    BY <1>1, <1>2, <2>2 DEF Block
  <2>4. e \in s .. Len(p)
    BY <1>1, <1>2, <2>3, IndexFound
  <2> HIDE DEF e
  <2> QED BY <1>1, <1>2, <2>4
<1>5. IndexFrom(p \o r, s, Mark("threadEnd", NoKey)) = e
  <2> HIDE DEF s
  <2> QED BY <1>1, <1>2, <1>4, IndexInside
<1>6. SubSeq(p \o r, 1, e - 1) = SubSeq(p, 1, e - 1)
  <2> HIDE DEF e
  <2> QED BY <1>1, <1>4, PrefixInside
<1>7. InsertionPoint(p \o r, s, e) = at
  <2> HIDE DEF s, e
  <2> QED BY <1>6 DEF InsertionPoint
<1>8. /\ ie # 0 => is \in s + 1 .. Len(p) /\ ie \in is .. Len(p)
      /\ at \in s + 1 .. Len(p)
  <2> HIDE DEF s, e, is, ie, at
  <2>1. s = IndexFrom(p, 1, Mark("thread", t))
    BY DEF s
  <2>2. e = IndexFrom(p, s, Mark("threadEnd", NoKey))
    BY DEF e
  <2>3. is = IndexFrom(SubSeq(p, 1, e - 1), s, Mark("item", k))
    BY DEF is
  <2>4. ie = IF is = 0 THEN 0 ELSE IndexFrom(SubSeq(p, 1, e - 1), is, Mark("itemEnd", k))
    BY DEF ie
  <2>5. at = InsertionPoint(p, s, e)
    BY DEF at
  <2> QED BY ONLY <1>1, <1>2, <1>4, <2>1, <2>2, <2>3, <2>4, <2>5, AiPlaces
<1>9. UpsertAiThreadItem(p, t, k, item) = Splice(p, from, to, item)
  <2>1. /\ s = IndexFrom(p, 1, Mark("thread", t))
        /\ e = IF s = 0 THEN 0 ELSE IndexFrom(p, s, Mark("threadEnd", NoKey))
        /\ is = IndexFrom(SubSeq(p, 1, e - 1), s, Mark("item", k))
        /\ ie = IF is = 0 THEN 0 ELSE IndexFrom(SubSeq(p, 1, e - 1), is, Mark("itemEnd", k))
        /\ at = InsertionPoint(p, s, e)
    BY <1>2
  <2> HIDE DEF s, e, is, ie, at
  <2> QED BY <1>4, <2>1 DEF UpsertAiThreadItem
<1>10. UpsertAiThreadItem(p \o r, t, k, item) = Splice(p \o r, from, to, item)
  <2>1. /\ s = IndexFrom(p \o r, 1, Mark("thread", t))
        /\ e = IF s = 0 THEN 0 ELSE IndexFrom(p \o r, s, Mark("threadEnd", NoKey))
        /\ is = IndexFrom(SubSeq(p \o r, 1, e - 1), s, Mark("item", k))
        /\ ie = IF is = 0 THEN 0 ELSE IndexFrom(SubSeq(p \o r, 1, e - 1), is, Mark("itemEnd", k))
        /\ at = InsertionPoint(p \o r, s, e)
    <3>1. is = IndexFrom(SubSeq(p, 1, e - 1), s, Mark("item", k))
      OBVIOUS
    <3>2. ie = IF is = 0 THEN 0 ELSE IndexFrom(SubSeq(p, 1, e - 1), is, Mark("itemEnd", k))
      OBVIOUS
    <3> HIDE DEF s, e, is, ie, at
    <3> QED BY <1>2, <1>3, <1>5, <1>6, <1>7, <3>1, <3>2
  <2> HIDE DEF s, e, is, ie, at
  <2> QED BY <1>4, <2>1 DEF UpsertAiThreadItem
<1>11. from \in 1 .. Len(p) + 1 /\ to \in from - 1 .. Len(p)
  <2> HIDE DEF s, e, is, ie, at
  <2>1. CASE ie # 0
    BY <1>1, <1>2, <1>8, <2>1
  <2>2. CASE ie = 0
    BY <1>1, <1>2, <1>8, <2>2
  <2> QED BY <2>1, <2>2
<1> HIDE DEF s, e, is, ie, at, from, to
<1>12. Splice(p \o r, from, to, item) = Splice(p, from, to, item) \o r
  BY <1>1, <1>11, SpliceInside, ZenonT(40)
<1>13. TokensFrom(Splice(p, from, to, item), p, item)
  BY <1>1, <1>11, Spliced
<1>14. OpenedFrom(Splice(p, from, to, item), p)
  BY <1>13 DEF TokensFrom, OpenedFrom
<1> QED BY <1>9, <1>10, <1>12, <1>14

-----------------------------------------------------------------------------
(* What an upsert does to the sound part. *)

\* The upsert of either document, and the block or entry it looks for.
Upserted(out, doc, t, k, body) ==
  IF out = "log" THEN UpsertDailyEntry(doc, k, RenderEntry(k, body))
                 ELSE UpsertAiThreadItem(doc, t, k, RenderItem(k, body))
Sought(out, t, k) == IF out = "log" THEN k ELSE t

\* Of any document and any body it keeps what is ahead.
LEMMA UpsertedKeeps ==
  ASSUME NEW out \in Output, NEW doc \in Seq(Token), NEW t \in Key, NEW k \in Key,
         NEW body \in Seq(Token), NEW doc2, doc2 = Upserted(out, doc, t, k, body)
  PROVE  /\ Kept(doc, doc2, Mark(Opener(out), Sought(out, t, k)))
         /\ BodiesFrom(doc2, doc, body) /\ Sought(out, t, k) \in Key
<1>1. CASE out = "log"
  BY <1>1, LogKeeps DEF Upserted, Sought, Opener
<1>2. CASE out # "log"
  BY <1>2, AiKeeps DEF Upserted, Sought, Opener
<1> QED BY <1>1, <1>2

\* The only mark a text brings that opens anything is the one sought.
LEMMA TextsOpen ==
  ASSUME NEW t \in Key, NEW k \in Key, NEW v \in Version
  PROVE  LET entry == RenderEntry(k, <<Body(k, v)>>)
             item  == RenderItem(k, <<Body(k, v)>>)
             block == ThreadBlock(t, item) IN
         /\ entry \in Seq(Token) /\ Len(entry) > 0
         /\ \A i \in 1 .. Len(entry) : entry[i][1] \in Opens => entry[i] = Mark("start", k)
         /\ item \in Seq(Token) /\ Len(item) > 0
         /\ \A i \in 1 .. Len(item) : item[i][1] \notin Opens
         /\ block \in Seq(Token) /\ Len(block) > 0
         /\ \A i \in 1 .. Len(block) : block[i][1] \in Opens => block[i] = Mark("thread", t)
<1> DEFINE entry == RenderEntry(k, <<Body(k, v)>>)
           item  == RenderItem(k, <<Body(k, v)>>)
           block == ThreadBlock(t, item)
<1>1. /\ entry \in Seq(Token) /\ Len(entry) = 3 /\ entry[1] = Mark("start", k)
      /\ entry[2] = Body(k, v) /\ entry[3] = Mark("end", k)
      /\ item \in Seq(Token) /\ Len(item) = 3 /\ item[1] = Mark("item", k)
      /\ item[2] = Body(k, v) /\ item[3] = Mark("itemEnd", k)
  BY SmallParts
<1> HIDE DEF entry, item
<1>2. /\ block \in Seq(Token) /\ Len(block) = 7
      /\ block[1] = Mark("thread", t) /\ block[2] = Mark("open", NoKey)
      /\ block[3] = item[1] /\ block[4] = item[2] /\ block[5] = item[3]
      /\ block[6] = Mark("close", NoKey) /\ block[7] = Mark("threadEnd", NoKey)
  BY <1>1, NewBlock
<1> HIDE DEF block
<1>3. /\ Mark("end", k)[1] \notin Opens /\ Body(k, v)[1] \notin Opens
      /\ Mark("item", k)[1] \notin Opens /\ Mark("itemEnd", k)[1] \notin Opens
      /\ Mark("open", NoKey)[1] \notin Opens /\ Mark("close", NoKey)[1] \notin Opens
      /\ Mark("threadEnd", NoKey)[1] \notin Opens
  BY MarksAreTokens DEF Opens
<1>4. ASSUME NEW i \in 1 .. Len(entry), entry[i][1] \in Opens PROVE entry[i] = Mark("start", k)
  <2>1. i = 1 \/ i = 2 \/ i = 3
    BY <1>1
  <2> QED BY <1>1, <1>3, <1>4, <2>1
<1>5. ASSUME NEW i \in 1 .. Len(item) PROVE item[i][1] \notin Opens
  <2>1. i = 1 \/ i = 2 \/ i = 3
    BY <1>1
  <2> QED BY <1>1, <1>3, <2>1
<1>6. ASSUME NEW i \in 1 .. Len(block), block[i][1] \in Opens PROVE block[i] = Mark("thread", t)
  <2>1. i = 1 \/ i = 2 \/ i = 3 \/ i = 4 \/ i = 5 \/ i = 6 \/ i = 7
    BY <1>2
  <2> QED BY <1>1, <1>2, <1>3, <1>6, <2>1
<1>7. Len(entry) > 0 /\ Len(item) > 0 /\ Len(block) > 0
  BY <1>1, <1>2
<1> QED BY <1>1, <1>2, <1>4, <1>5, <1>6, <1>7 DEF entry, item, block

\* A shaped part that has what is sought is changed as if nothing came after;
LEMMA UpsertedInside ==
  ASSUME NEW out \in Output, NEW p, Shape(p, out), NEW r \in Seq(Token),
         NEW t \in Key, NEW k \in Key, NEW v \in Version,
         NEW m \in 1 .. Len(p), p[m] = Mark(Opener(out), Sought(out, t, k))
  PROVE  /\ Upserted(out, p \o r, t, k, <<Body(k, v)>>) = Upserted(out, p, t, k, <<Body(k, v)>>) \o r
         /\ OpenedFrom(Upserted(out, p, t, k, <<Body(k, v)>>), p)
<1>1. CASE out = "log"
  <2>1. Shape(p, "log") /\ p[m] = Mark("start", k)
    BY <1>1 DEF Opener, Sought
  <2>2. /\ UpsertDailyEntry(p \o r, k, RenderEntry(k, <<Body(k, v)>>)) =
             UpsertDailyEntry(p, k, RenderEntry(k, <<Body(k, v)>>)) \o r
        /\ OpenedFrom(UpsertDailyEntry(p, k, RenderEntry(k, <<Body(k, v)>>)), p)
    BY <2>1, TextsOpen, LogInside
  <2> QED BY <1>1, <2>2 DEF Upserted
<1>2. CASE out # "log"
  <2>1. Shape(p, "ai") /\ p[m] = Mark("thread", t)
    BY <1>2 DEF Opener, Sought, Output
  <2>2. /\ UpsertAiThreadItem(p \o r, t, k, RenderItem(k, <<Body(k, v)>>)) =
             UpsertAiThreadItem(p, t, k, RenderItem(k, <<Body(k, v)>>)) \o r
        /\ OpenedFrom(UpsertAiThreadItem(p, t, k, RenderItem(k, <<Body(k, v)>>)), p)
    BY <2>1, TextsOpen, AiInside
  <2> QED BY <1>2, <2>2 DEF Upserted
<1> QED BY <1>1, <1>2

\* one that has not gets it at its end.
LEMMA UpsertedBehind ==
  ASSUME NEW out \in Output, NEW doc \in Seq(Token),
         NEW t \in Key, NEW k \in Key, NEW v \in Version,
         \A i \in 1 .. Len(doc) : doc[i] # Mark(Opener(out), Sought(out, t, k)),
         NEW doc2, doc2 = Upserted(out, doc, t, k, <<Body(k, v)>>),
         NEW j \in 1 .. Len(doc2), doc2[j][1] \in Opens
  PROVE  doc2[j] = Mark(Opener(out), Sought(out, t, k)) \/ \E i \in 1 .. Len(doc) : doc2[j] = doc[i]
<1> DEFINE o == Mark(Opener(out), Sought(out, t, k))
<1>1. IndexFrom(doc, 1, o) = 0
  BY IndexNone
<1>2. PICK part \in Seq(Token) : /\ doc2 = doc \o part /\ Len(part) > 0
                                 /\ \A i \in 1 .. Len(part) : part[i][1] \in Opens => part[i] = o
  <2>1. CASE out = "log"
    <3>1. o = Mark("start", k)
      BY <2>1 DEF Opener, Sought
    <3>2. doc2 = doc \o RenderEntry(k, <<Body(k, v)>>)
      BY <1>1, <2>1, <3>1 DEF Upserted, UpsertDailyEntry
    <3> DEFINE part == RenderEntry(k, <<Body(k, v)>>)
    <3>3. /\ part \in Seq(Token) /\ Len(part) > 0
          /\ \A i \in 1 .. Len(part) : part[i][1] \in Opens => part[i] = Mark("start", k)
      BY TextsOpen
    <3>4. doc2 = doc \o part
      BY <3>2
    <3> HIDE DEF part, o
    <3> QED BY <3>1, <3>3, <3>4
  <2>2. CASE out # "log"
    <3>1. o = Mark("thread", t)
      BY <2>2 DEF Opener, Sought
    <3>2. doc2 = doc \o ThreadBlock(t, RenderItem(k, <<Body(k, v)>>))
      BY <1>1, <2>2, <3>1 DEF Upserted, UpsertAiThreadItem
    <3> DEFINE part == ThreadBlock(t, RenderItem(k, <<Body(k, v)>>))
    <3>3. /\ part \in Seq(Token) /\ Len(part) > 0
          /\ \A i \in 1 .. Len(part) : part[i][1] \in Opens => part[i] = Mark("thread", t)
      BY TextsOpen
    <3>4. doc2 = doc \o part
      BY <3>2
    <3> HIDE DEF part, o
    <3> QED BY <3>1, <3>3, <3>4
  <2> QED BY <2>1, <2>2
<1>3. TokensFrom(doc2, doc, part)
  BY <1>2, Appended
<1> QED BY <1>2, <1>3 DEF TokensFrom

\* If the sound part has not what is sought, it is untouched: by what comes
\* after it, if anything does, or by the new block behind it.
LEMMA PartUntouched ==
  ASSUME NEW p, NEW doc, NEW blocks, IsPart(p, doc, blocks), NEW o, NEW doc2,
         \A i \in 1 .. Len(p) : p[i] # o, Kept(doc, doc2, o)
  PROVE  /\ Len(p) < Len(doc2) /\ doc2 \in Seq(Token)
         /\ \A j \in 1 .. Len(p) : doc2[j] = p[j]
         /\ doc2[Len(p) + 1] = IF Len(p) < Len(doc) THEN doc[Len(p) + 1] ELSE o
         /\ Len(p) = Len(doc) => p = doc
<1> DEFINE s == IndexFrom(doc, 1, o)
           l == Len(p)
<1>1. /\ p \in Seq(Token) /\ doc \in Seq(Token) /\ doc2 \in Seq(Token)
      /\ l \in Nat /\ Len(doc) \in Nat /\ Len(doc2) \in Nat /\ l <= Len(doc)
      /\ \A j \in 1 .. l : doc[j] = p[j]
  BY LenProperties DEF IsPart, Kept
<1>2. /\ s = 0 => /\ Len(doc) < Len(doc2) /\ doc2[Len(doc) + 1] = o
                  /\ \A j \in 1 .. Len(doc) : doc2[j] = doc[j]
      /\ s # 0 => s <= Len(doc2) /\ \A j \in 1 .. s : doc2[j] = doc[j]
  BY DEF Kept
<1>3. s = 0 \/ (s \in 1 .. Len(doc) /\ doc[s] = o)
  BY <1>1, IndexAny
<1> HIDE DEF s
<1>4. s # 0 => l + 1 <= s /\ s \in Nat
  <2> SUFFICES ASSUME s # 0 PROVE l + 1 <= s /\ s \in Nat
    OBVIOUS
  <2>1. s \in 1 .. Len(doc) /\ doc[s] = o
    BY <1>3
  <2>2. ~(s \in 1 .. l)
    BY <1>1, <2>1
  <2> QED BY <1>1, <2>1, <2>2
<1>5. l = Len(doc) => p = doc
  BY <1>1, SeqEqual
<1>6. CASE s = 0
  <2>1. \A j \in 1 .. l : j \in 1 .. Len(doc)
    BY <1>1
  <2>2. l < Len(doc) => l + 1 \in 1 .. Len(doc)
    BY <1>1
  <2>3. ~(l < Len(doc)) => l = Len(doc)
    BY <1>1
  <2>4. l < Len(doc2)
    BY <1>1, <1>2, <1>6
  <2> QED BY <1>1, <1>2, <1>5, <1>6, <2>1, <2>2, <2>3, <2>4
<1>7. CASE s # 0
  <2>1. \A j \in 1 .. l + 1 : j \in 1 .. s
    BY <1>1, <1>4, <1>7
  <2>2. l + 1 \in 1 .. l + 1 /\ \A j \in 1 .. l : j \in 1 .. l + 1
    BY <1>1
  <2>3. l < Len(doc2) /\ l < Len(doc)
    BY <1>1, <1>2, <1>3, <1>4, <1>7
  <2>4. doc2[l + 1] = doc[l + 1] /\ \A j \in 1 .. l : doc2[j] = p[j]
    BY <1>1, <1>2, <1>7, <2>1, <2>2
  <2> QED BY <1>1, <1>5, <2>3, <2>4
<1> QED BY <1>6, <1>7

\* A text that quotes no marks changes the sound part as it would change a
\* document that holds nothing else, or not at all.
LEMMA CleanPart ==
  ASSUME NEW out \in Output, NEW doc, NEW blocks, NEW p, IsPart(p, doc, blocks), Shape(p, out),
         NEW t \in Key, NEW k \in Key, NEW v \in Version,
         NEW doc2, doc2 = Upserted(out, doc, t, k, <<Body(k, v)>>)
  PROVE  \E p2 : /\ IsPart(p2, doc2, blocks) /\ Shape(p2, out)
                 /\ p2 = p \/ Outcome(p, p2, out, k, v)
<1> DEFINE b  == Sought(out, t, k)
           o  == Mark(Opener(out), b)
           p2 == Upserted(out, p, t, k, <<Body(k, v)>>)
<1>1. /\ p \in Seq(Token) /\ doc \in Seq(Token) /\ Len(p) \in Nat /\ Len(doc) \in Nat
      /\ Len(p) <= Len(doc) /\ \A j \in 1 .. Len(p) : doc[j] = p[j]
  BY LenProperties DEF IsPart
<1>2. <<Body(k, v)>> \in Seq(Token)
  BY MarksAreTokens
<1>3. Kept(doc, doc2, o)
  BY <1>1, <1>2, UpsertedKeeps
<1>4. Outcome(p, p2, out, k, v)
  BY UpsertOutcome DEF Upserted, Output
<1>5. Shape(p2, out) /\ p2 \in Seq(Token) /\ Len(p2) \in Nat
  BY <1>4, LenProperties DEF Outcome, Shape
<1>6. o[1] \in Opens /\ o[2] = b
  BY MarksAreTokens DEF Opener, Opens
<1>7. CASE \E m \in 1 .. Len(p) : p[m] = o
  <2>1. PICK m \in 1 .. Len(p) : p[m] = o
    BY <1>7
  <2> DEFINE r == SubSeq(doc, Len(p) + 1, Len(doc))
  <2>2. doc = p \o r /\ r \in Seq(Token) /\ Len(r) = Len(doc) - Len(p)
        /\ (Len(r) > 0 => r[1] = doc[Len(p) + 1])
    <3>1. \A i \in Len(p) + 1 .. Len(doc) : doc[i] \in Token
      BY <1>1, ElementOfSeq
    <3>2. /\ r \in Seq(Token)
          /\ Len(r) = IF Len(p) + 1 <= Len(doc) THEN Len(doc) - (Len(p) + 1) + 1 ELSE 0
          /\ \A i \in 1 .. Len(doc) - (Len(p) + 1) + 1 : r[i] = doc[(Len(p) + 1) + i - 1]
      BY <1>1, <3>1, SubSeqProperties
    <3> HIDE DEF r
    <3>3. Len(r) = Len(doc) - Len(p) /\ \A i \in 1 .. Len(doc) - Len(p) : r[i] = doc[Len(p) + i]
      <4>1. Len(r) = Len(doc) - Len(p) /\ Len(doc) - (Len(p) + 1) + 1 = Len(doc) - Len(p)
        BY <1>1, <3>2
      <4>2. ASSUME NEW i \in 1 .. Len(doc) - Len(p) PROVE r[i] = doc[Len(p) + i]
        <5>1. (Len(p) + 1) + i - 1 = Len(p) + i
          BY <1>1
        <5> QED BY <3>2, <4>1, <5>1
      <4> QED BY <4>1, <4>2
    <3>4. /\ p \o r \in Seq(Token) /\ Len(p \o r) = Len(p) + Len(r)
          /\ \A i \in 1 .. Len(p) + Len(r) : (p \o r)[i] = IF i <= Len(p) THEN p[i] ELSE r[i - Len(p)]
      BY <1>1, <3>2, ConcatProperties
    <3>5. ASSUME NEW i \in 1 .. Len(doc) PROVE doc[i] = (p \o r)[i]
      <4>1. i \in 1 .. Len(p) + Len(r)
        BY <1>1, <3>3
      <4>2. CASE i <= Len(p)
        <5>1. i \in 1 .. Len(p)
          BY <1>1, <4>2
        <5> QED BY <1>1, <3>4, <4>1, <4>2, <5>1
      <4>3. CASE ~(i <= Len(p))
        <5>1. i - Len(p) \in 1 .. Len(doc) - Len(p) /\ Len(p) + (i - Len(p)) = i
          BY <1>1, <4>3
        <5> QED BY <3>3, <3>4, <4>1, <4>3, <5>1
      <4> QED BY <4>2, <4>3
    <3>6. Len(doc) = Len(p \o r)
      BY <1>1, <3>3, <3>4
    <3>7. doc = p \o r
      BY <1>1, <3>4, <3>5, <3>6, SeqEqual
    <3>8. Len(r) > 0 => r[1] = doc[Len(p) + 1]
      <4>1. Len(r) > 0 => 1 \in 1 .. Len(doc) - Len(p)
        BY <1>1, <3>3
      <4> QED BY <3>3, <4>1
    <3> QED BY <3>2, <3>3, <3>7, <3>8
  <2> HIDE DEF r
  <2>3. doc2 = p2 \o r /\ OpenedFrom(p2, p)
    <3>1. p[m] = Mark(Opener(out), Sought(out, t, k))
      BY <2>1
    <3>2. /\ Upserted(out, p \o r, t, k, <<Body(k, v)>>) = Upserted(out, p, t, k, <<Body(k, v)>>) \o r
          /\ OpenedFrom(Upserted(out, p, t, k, <<Body(k, v)>>), p)
      BY <2>2, <3>1, UpsertedInside
    <3> QED BY <2>2, <3>2
  <2> HIDE DEF p2, o, b
  <2>4. /\ doc2 \in Seq(Token) /\ Len(doc2) = Len(p2) + Len(r) /\ Len(r) \in Nat
        /\ \A i \in 1 .. Len(p2) : doc2[i] = p2[i]
        /\ \A i \in 1 .. Len(r) : doc2[Len(p2) + i] = r[i]
    <3>1. p2 \in Seq(Token) /\ r \in Seq(Token) /\ doc2 = p2 \o r
      BY <1>5, <2>2, <2>3
    <3> QED BY ONLY <3>1, Concat
  <2>5. ASSUME NEW j \in 1 .. Len(p2), p2[j][1] \in Opens PROVE p2[j][2] \notin blocks
    <3>1. PICK i \in 1 .. Len(p) : p2[j] = p[i]
      BY <2>3, <2>5 DEF OpenedFrom
    <3> QED BY <2>5, <3>1 DEF IsPart
  <2>6. Len(p2) < Len(doc2) =>
          doc2[Len(p2) + 1][1] \in Opens /\ doc2[Len(p2) + 1][2] \in blocks
    <3> SUFFICES ASSUME Len(p2) < Len(doc2)
                 PROVE doc2[Len(p2) + 1][1] \in Opens /\ doc2[Len(p2) + 1][2] \in blocks
      OBVIOUS
    <3>1. Len(r) > 0 /\ 1 \in 1 .. Len(r) /\ Len(p) < Len(doc)
      BY <1>1, <1>5, <2>2, <2>4
    <3>2. doc2[Len(p2) + 1] = doc[Len(p) + 1]
      BY <2>2, <2>4, <3>1
    <3> QED BY <3>1, <3>2 DEF IsPart
  <2>7. Len(p2) <= Len(doc2)
    BY <1>5, <2>4
  <2>8. IsPart(p2, doc2, blocks)
    BY <1>5, <2>4, <2>5, <2>6, <2>7 DEF IsPart
  <2> QED BY <1>4, <1>5, <2>8
<1>8. CASE \A m \in 1 .. Len(p) : p[m] # o
  <2>1. /\ Len(p) < Len(doc2) /\ doc2 \in Seq(Token)
        /\ \A j \in 1 .. Len(p) : doc2[j] = p[j]
        /\ doc2[Len(p) + 1] = IF Len(p) < Len(doc) THEN doc[Len(p) + 1] ELSE o
        /\ Len(p) = Len(doc) => p = doc
    <3> HIDE DEF o
    <3> QED BY <1>3, <1>8, PartUntouched
  <2>2. CASE Len(p) < Len(doc) \/ b \in blocks
    <3>1. doc2[Len(p) + 1][1] \in Opens /\ doc2[Len(p) + 1][2] \in blocks
      <4>1. CASE Len(p) < Len(doc)
        BY <2>1, <4>1 DEF IsPart
      <4>2. CASE ~(Len(p) < Len(doc))
        <5> HIDE DEF o, b
        <5> QED BY <1>6, <2>1, <2>2, <4>2
      <4> QED BY <4>1, <4>2
    <3>2. Len(p) <= Len(doc2)
      BY <1>1, <2>1, LenProperties
    <3>3. IsPart(p, doc2, blocks)
      BY <2>1, <3>1, <3>2 DEF IsPart
    <3> QED BY <3>3
  <2>3. CASE ~(Len(p) < Len(doc)) /\ b \notin blocks
    <3>1. p = doc /\ doc2 = p2
      BY <1>1, <2>1, <2>3
    <3>2. ASSUME NEW j \in 1 .. Len(p2), p2[j][1] \in Opens PROVE p2[j][2] \notin blocks
      <4>1. p2[j] = o \/ \E i \in 1 .. Len(p) : p2[j] = p[i]
        <5>1. \A i \in 1 .. Len(p) : p[i] # Mark(Opener(out), Sought(out, t, k))
          BY <1>8
        <5>2. p2 = Upserted(out, p, t, k, <<Body(k, v)>>)
          OBVIOUS
        <5> HIDE DEF p2
        <5>3. p2[j] = Mark(Opener(out), Sought(out, t, k)) \/ \E i \in 1 .. Len(p) : p2[j] = p[i]
          BY <1>1, <3>2, <5>1, <5>2, UpsertedBehind
        <5> QED BY <5>3
      <4> HIDE DEF p2, o, b
      <4>2. CASE p2[j] = o
        BY <1>6, <2>3, <4>2
      <4>3. CASE p2[j] # o
        BY <3>2, <4>1, <4>3 DEF IsPart
      <4> QED BY <4>2, <4>3
    <3> HIDE DEF p2
    <3>3. IsPart(p2, p2, blocks)
      <4>1. Len(p2) <= Len(p2) /\ ~(Len(p2) < Len(p2))
        BY <1>5
      <4> QED BY <1>5, <3>2, <4>1 DEF IsPart
    <3>4. IsPart(p2, doc2, blocks)
      BY <3>1, <3>3
    <3> QED BY <1>4, <1>5, <3>4
  <2> QED BY <2>2, <2>3
<1> QED BY <1>7, <1>8

\* A list that has no such block is not cut.
LEMMA CutNone ==
  ASSUME NEW out \in Output, NEW doc, Shape(doc, out), NEW b \in Key,
         \A i \in 1 .. Len(doc) : doc[i] # Mark(Opener(out), b)
  PROVE  Keyed!Cut(Entries(doc), b) = Entries(doc)
<1> DEFINE list == Entries(doc)
<1>1. \A pl \in Keyed!Places(list) : \E i \in BodiesAt(doc) : pl = Place(doc, i)
  BY DEF Keyed!Places, Entries
<1>2. ASSUME NEW i \in BodiesAt(doc) PROVE Place(doc, i)[1] # b
  <2>1. i \in 1 .. Len(doc) /\ i \in Nat
    BY LenProperties DEF BodiesAt, Shape
  <2>2. CASE \A h \in 1 .. i : doc[h][1] \notin Opens
    <3>1. BlockOf(doc, i) = NoKey
      BY <2>2, BlockNone
    <3> QED BY <3>1, SourceAssumption DEF Place
  <2>3. CASE \E j \in 1 .. i : doc[j][1] \in Opens /\ \A h \in j + 1 .. i : doc[h][1] \notin Opens
    <3>1. PICK j \in 1 .. i : doc[j][1] \in Opens /\ \A h \in j + 1 .. i : doc[h][1] \notin Opens
      BY <2>3
    <3>2. BlockOf(doc, i) = doc[j][2]
      BY <2>1, <3>1, BlockIs
    <3>3. j \in 1 .. Len(doc)
      BY <2>1, LenProperties DEF Shape
    <3>4. doc[j] = Mark(Opener(out), doc[j][2])
      BY <3>1, <3>3, OpenersAre
    <3> QED BY <3>2, <3>3, <3>4 DEF Place
  <2> QED BY <2>1, <2>2, <2>3, BlockCases
<1>3. Keyed!Members(list, b) = {}
  <2> HIDE DEF list
  <2> QED BY <1>1, <1>2 DEF Keyed!Members
<1>4. \A x \in list.held : x.place \in Keyed!Places(list)
  BY DEF Keyed!Places
<1>5. list.order \subseteq Keyed!Places(list) \X Keyed!Places(list)
  <2>1. \A i \in BodiesAt(doc) : Place(doc, i) \in Keyed!Places(list)
    <3>1. \A i \in BodiesAt(doc) : [place |-> Place(doc, i), version |-> doc[i][3]] \in list.held
      BY DEF Entries
    <3> HIDE DEF list
    <3>2. \A x \in list.held : x.place \in Keyed!Places(list)
      BY DEF Keyed!Places
    <3>3. \A i \in BodiesAt(doc) : [place |-> Place(doc, i), version |-> doc[i][3]].place = Place(doc, i)
      OBVIOUS
    <3>4. ASSUME NEW i \in BodiesAt(doc) PROVE Place(doc, i) \in Keyed!Places(list)
      <4>1. PICK x : x = [place |-> Place(doc, i), version |-> doc[i][3]]
        OBVIOUS
      <4>2. x \in list.held /\ x.place = Place(doc, i)
        BY <3>1, <4>1
      <4> QED BY <3>2, <4>2
    <3> QED BY <3>4
  <2>2. \A x \in list.order : \E i, j \in BodiesAt(doc) : x = <<Place(doc, i), Place(doc, j)>>
    BY DEF Entries
  <2> HIDE DEF list
  <2> QED BY <2>1, <2>2
<1>6. list = [held |-> list.held, order |-> list.order]
  BY DEF Entries
<1> HIDE DEF list
<1>7. Keyed!Cut(list, b) = [held |-> {x \in list.held : x.place \in Keyed!Places(list)},
                            order |-> list.order \cap (Keyed!Places(list) \X Keyed!Places(list))]
  BY <1>3 DEF Keyed!Cut
<1>8. /\ {x \in list.held : x.place \in Keyed!Places(list)} = list.held
      /\ list.order \cap (Keyed!Places(list) \X Keyed!Places(list)) = list.order
  BY <1>4, <1>5
<1> QED BY <1>6, <1>7, <1>8 DEF list

\* Any other text may do what it likes behind its own mark: the sound part is
\* cut there, unless it ended before.
LEMMA QuotingPart ==
  ASSUME NEW out \in Output, NEW doc, NEW blocks, NEW p, IsPart(p, doc, blocks), Shape(p, out),
         NEW t \in Key, NEW k \in Key, NEW body \in Seq(Token),
         NEW doc2, doc2 = Upserted(out, doc, t, k, body),
         NEW b, b = Sought(out, t, k)
  PROVE  \E p2 : /\ IsPart(p2, doc2, blocks \cup {b}) /\ Shape(p2, out)
                 /\ \/ p2 = p /\ b \in blocks
                    \/ b \notin blocks /\ Entries(p2) = Keyed!Cut(Entries(p), b)
<1> DEFINE o == Mark(Opener(out), b)
<1>1. /\ p \in Seq(Token) /\ doc \in Seq(Token) /\ Len(p) \in Nat /\ Len(doc) \in Nat
      /\ Len(p) <= Len(doc) /\ \A j \in 1 .. Len(p) : doc[j] = p[j]
  BY LenProperties DEF IsPart
<1>2. Kept(doc, doc2, o) /\ b \in Key
  BY <1>1, UpsertedKeeps
<1>3. o[1] \in Opens /\ o[2] = b /\ o = Mark(Opener(out), b)
  BY MarksAreTokens DEF Opener, Opens
<1> HIDE DEF o
<1>4. CASE \E m \in 1 .. Len(p) : p[m] = o
  <2>1. PICK m \in 1 .. Len(p) : p[m] = o
    BY <1>4
  <2> DEFINE s == IndexFrom(doc, 1, o)
  <2>2. s \in 1 .. Len(doc) /\ doc[s] = o /\ s <= m
    <3>1. m \in 1 .. Len(doc) /\ doc[m] = o
      BY <1>1, <2>1
    <3> QED BY <1>1, <3>1, IndexFound
  <2> HIDE DEF s
  <2>3. s \in 1 .. Len(p) /\ p[s] = o /\ s # 0
    <3>1. s \in 1 .. Len(p) /\ s # 0
      BY <1>1, <2>1, <2>2
    <3> QED BY <1>1, <2>2, <3>1
  <2>4. b \notin blocks
    BY <1>3, <2>3 DEF IsPart
  <2>5. s <= Len(doc2) /\ doc2 \in Seq(Token) /\ \A j \in 1 .. s : doc2[j] = doc[j]
    BY <1>2, <2>3 DEF Kept, s
  <2>6. PICK p2 : /\ Shape(p2, out) /\ Len(p2) = s - 1
                  /\ \A j \in 1 .. Len(p2) : p[j] = p2[j] /\ ~(p2[j][1] \in Opens /\ p2[j][2] = b)
                  /\ Entries(p2) = Keyed!Cut(Entries(p), b)
    <3>1. PICK i \in 1 .. Len(p) : i = s
      BY <2>3
    <3>2. p[i] = Mark(Opener(out), b) /\ b \in Key
      BY <1>2, <1>3, <2>3, <3>1
    <3>3. \E q : UpTo(q, p, out, i, b)
      BY <3>2, CutPart
    <3> QED BY <3>1, <3>3 DEF UpTo
  <2>7. ASSUME NEW j \in 1 .. Len(p2)
        PROVE  doc2[j] = p2[j] /\ ~(p2[j][1] \in Opens /\ p2[j][2] \in blocks \cup {b})
    <3>1. j \in 1 .. Len(p) /\ j \in 1 .. s
      BY <1>1, <2>3, <2>6
    <3>2. p[j] = p2[j] /\ ~(p2[j][1] \in Opens /\ p2[j][2] = b)
      BY <2>6
    <3>3. ~(p[j][1] \in Opens /\ p[j][2] \in blocks)
      BY <3>1 DEF IsPart
    <3> QED BY <1>1, <2>5, <3>1, <3>2, <3>3
  <2>8. /\ Len(p2) <= Len(doc2) /\ p2 \in Seq(Token)
        /\ doc2[Len(p2) + 1][1] \in Opens /\ doc2[Len(p2) + 1][2] \in blocks \cup {b}
    <3>1. Len(p2) + 1 = s /\ s \in 1 .. s
      BY <1>1, <2>3, <2>6
    <3>2. doc2[Len(p2) + 1] = o
      BY <2>2, <2>5, <3>1
    <3>3. Len(p2) <= Len(doc2)
      BY <1>1, <2>3, <2>5, <2>6, LenProperties
    <3> QED BY <1>3, <2>6, <3>2, <3>3 DEF Shape
  <2>9. IsPart(p2, doc2, blocks \cup {b})
    BY <2>5, <2>7, <2>8 DEF IsPart
  <2> QED BY <2>4, <2>6, <2>9
<1>5. CASE \A m \in 1 .. Len(p) : p[m] # o
  <2>1. /\ Len(p) < Len(doc2) /\ doc2 \in Seq(Token)
        /\ \A j \in 1 .. Len(p) : doc2[j] = p[j]
        /\ doc2[Len(p) + 1] = IF Len(p) < Len(doc) THEN doc[Len(p) + 1] ELSE o
    BY <1>2, <1>5, PartUntouched
  <2>2. doc2[Len(p) + 1][1] \in Opens /\ doc2[Len(p) + 1][2] \in blocks \cup {b}
    <3>1. CASE Len(p) < Len(doc)
      BY <2>1, <3>1 DEF IsPart
    <3>2. CASE ~(Len(p) < Len(doc))
      BY <1>3, <2>1, <3>2
    <3> QED BY <3>1, <3>2
  <2>3. ASSUME NEW j \in 1 .. Len(p) PROVE ~(p[j][1] \in Opens /\ p[j][2] \in blocks \cup {b})
    <3>1. p[j][1] \in Opens => p[j] = Mark(Opener(out), p[j][2])
      BY OpenersAre
    <3>2. ~(p[j][1] \in Opens /\ p[j][2] = b)
      BY <1>3, <1>5, <3>1
    <3> QED BY <3>2 DEF IsPart
  <2>4. IsPart(p, doc2, blocks \cup {b})
    <3>1. Len(p) <= Len(doc2)
      BY <1>1, <2>1, LenProperties
    <3> QED BY <1>1, <2>1, <2>2, <2>3, <3>1 DEF IsPart
  <2>5. Entries(p) = Keyed!Cut(Entries(p), b)
    BY <1>2, <1>3, <1>5, CutNone
  <2> QED BY <2>4, <2>5
<1> QED BY <1>4, <1>5

-----------------------------------------------------------------------------
(* The writer. *)

File(d) == files[<<d[1], d[2], "md">>]

\* What the attempt has read, or starts with; what it writes, of which document.
Current == IF files[TargetPath] = Missing THEN <<Header>> ELSE files[TargetPath]
Target  == <<output, DayOf[key]>>
NewBody == MarkdownBody(key, turn, quote[output])

\* The sound part of a document that is there has its shape; no body is newer
\* than the attempt; the draft is of the document as it still stands; and when
\* the source is written the log has the body already, unless it is spoilt.
IInv ==
  /\ TypeOK
  /\ \A d \in Documents : File(d) = Missing \/ Shape(PartBefore(File(d), spoilt[d]), d[1])
  /\ \A d \in Documents : \A i \in BodiesAt(Text(d)) : Text(d)[i][3] <= turn
  /\ LogCoversSource
  /\ pc # "idle" => turn >= 1
  /\ pc \in {"create", "write", "rename"} => draft = Rendered(output, Current)
  /\ pc = "rename" => files[TmpPath] = draft
  /\ pc # "idle" /\ output = "ai" /\ spoilt[<<"log", DayOf[key]>>] = {} =>
       \E j \in BodiesAt(Text(<<"log", DayOf[key]>>)) :
         Text(<<"log", DayOf[key]>>)[j] = Body(key, turn)

\* A body is text; without quotes it is one text, and what it quotes is no text.
LEMMA BodyParts ==
  ASSUME NEW out \in Output, NEW k \in Key, NEW v \in Version, NEW q \in Seq(MarkToken(out))
  PROVE  /\ MarkdownBody(k, v, q) \in Seq(Token)
         /\ q = <<>> => MarkdownBody(k, v, q) = <<Body(k, v)>>
         /\ \A i \in 1 .. Len(MarkdownBody(k, v, q)) :
              MarkdownBody(k, v, q)[i][1] = "body" => MarkdownBody(k, v, q)[i] = Body(k, v)
<1> DEFINE x == <<Body(k, v)>>
           y == x \o q
           z == y \o x
<1>1. x \in Seq(Token) /\ Len(x) = 1 /\ x[1] = Body(k, v) /\ \A i \in 1 .. Len(x) : x[i] = Body(k, v)
  BY MarksAreTokens
<1>2. \A m \in MarkToken(out) : m \in Token /\ m[1] # "body"
  BY DEF MarkToken, MarksOf, Marks, Token
<1>3. q \in Seq(Token) /\ Len(q) \in Nat /\ \A i \in 1 .. Len(q) : q[i][1] # "body"
  <2>1. Len(q) \in Nat /\ \A i \in 1 .. Len(q) : q[i] \in MarkToken(out)
    BY LenProperties, ElementOfSeq
  <2>2. Seq(MarkToken(out)) \subseteq Seq(Token)
    BY <1>2
  <2> QED BY <1>2, <2>1, <2>2
<1>4. MarkdownBody(k, v, q) = IF q = <<>> THEN x ELSE z
  BY DEF MarkdownBody
<1> HIDE DEF x
<1>5. y \in Seq(Token) /\ \A i \in 1 .. Len(y) : y[i][1] = "body" => y[i] = Body(k, v)
  <2>1. /\ y \in Seq(Token) /\ Len(y) = Len(x) + Len(q)
        /\ \A i \in 1 .. Len(x) + Len(q) : y[i] = IF i <= Len(x) THEN x[i] ELSE q[i - Len(x)]
    BY <1>1, <1>3, ConcatProperties
  <2> HIDE DEF y
  <2>2. ASSUME NEW i \in 1 .. Len(y), y[i][1] = "body" PROVE y[i] = Body(k, v)
    <3>1. i \in 1 .. 1 + Len(q) /\ y[i] = IF i <= 1 THEN x[i] ELSE q[i - 1]
      BY <1>1, <2>1
    <3>2. CASE i <= 1
      <4>1. i = 1
        BY <1>3, <3>1, <3>2
      <4> QED BY <1>1, <3>1, <4>1
    <3>3. CASE ~(i <= 1)
      <4>1. i - 1 \in 1 .. Len(q)
        BY <1>3, <3>1, <3>3
      <4> QED BY <1>3, <2>2, <3>1, <3>3, <4>1
    <3> QED BY <3>2, <3>3
  <2> QED BY <2>1, <2>2
<1> HIDE DEF y
<1>6. z \in Seq(Token) /\ \A i \in 1 .. Len(z) : z[i][1] = "body" => z[i] = Body(k, v)
  <2>1. /\ z \in Seq(Token) /\ Len(z) = Len(y) + Len(x)
        /\ \A i \in 1 .. Len(y) : z[i] = y[i]
        /\ \A i \in 1 .. Len(x) : z[Len(y) + i] = x[i]
        /\ Len(y) \in Nat
    BY <1>1, <1>5, Concat
  <2> HIDE DEF z
  <2>2. ASSUME NEW i \in 1 .. Len(z), z[i][1] = "body" PROVE z[i] = Body(k, v)
    <3>1. i \in 1 .. Len(y) \/ i = Len(y) + 1
      BY <1>1, <2>1
    <3>2. CASE i \in 1 .. Len(y)
      BY <1>5, <2>1, <2>2, <3>2
    <3>3. CASE i = Len(y) + 1
      <4>1. 1 \in 1 .. Len(x)
        BY <1>1
      <4> QED BY <1>1, <2>1, <3>3, <4>1
    <3> QED BY <3>1, <3>2, <3>3
  <2> QED BY <2>1, <2>2
<1> HIDE DEF z
<1>7. CASE q = <<>>
  BY <1>1, <1>4, <1>7 DEF x
<1>8. CASE q # <<>>
  BY <1>4, <1>6, <1>8
<1> QED BY <1>7, <1>8

\* A header is no block.
LEMMA HeaderPart ==
  ASSUME NEW blocks
  PROVE  PartBefore(<<Header>>, blocks) = <<Header>> /\ PartBefore(<< >>, blocks) = << >>
<1>1. IsPart(<<Header>>, <<Header>>, blocks)
  BY MarksAreTokens DEF IsPart, Opens
<1>2. IsPart(<< >>, << >>, blocks)
  BY EmptySeq DEF IsPart
<1> QED BY <1>1, <1>2, PartBeforeIs

\* An attempt makes the draft of the document as it stands.
LEMMA RenderedOutcome ==
  ASSUME IInv, pc # "idle"
  PROVE  /\ Target \in Documents /\ Target[1] = output /\ turn \in Version
         /\ Current \in Seq(Token) /\ Shape(PartBefore(Current, spoilt[Target]), output)
         /\ Entries(PartBefore(Current, spoilt[Target])) = Entries(SoundPart(Target))
         /\ BodiesAt(Current) = BodiesAt(Text(Target))
         /\ \A i \in BodiesAt(Current) : Current[i] = Text(Target)[i]
         /\ Rendered(output, Current) = Upserted(output, Current, thread, key, NewBody)
         /\ NewBody \in Seq(Token) /\ (quote[output] = <<>> => NewBody = <<Body(key, turn)>>)
         /\ \A i \in 1 .. Len(NewBody) : NewBody[i][1] = "body" => NewBody[i] = Body(key, turn)
         /\ BlockName = Sought(output, thread, key) /\ BlockName \in Key
<1>1. /\ Target \in Documents /\ Target[1] = output /\ output \in Output
      /\ Target = <<output, DayOf[key]>> /\ files[TargetPath] = File(Target)
      /\ key \in Key /\ thread \in Key
  BY SourceAssumption DEF IInv, TypeOK, Target, TargetPath, File, Documents
<1>2. turn \in Version
  BY SourceAssumption DEF IInv, TypeOK, Version
<1>3. Text(Target) = IF File(Target) = Missing THEN <<>> ELSE File(Target)
  BY DEF Text, File
<1>4. /\ Current \in Seq(Token) /\ Shape(PartBefore(Current, spoilt[Target]), output)
      /\ Entries(PartBefore(Current, spoilt[Target])) = Entries(SoundPart(Target))
      /\ BodiesAt(Current) = BodiesAt(Text(Target))
      /\ \A i \in BodiesAt(Current) : Current[i] = Text(Target)[i]
  <2>1. CASE File(Target) = Missing
    <3>1. Current = <<Header>> /\ Text(Target) = << >>
      BY <1>1, <1>3, <2>1 DEF Current
    <3>2. PartBefore(Current, spoilt[Target]) = <<Header>> /\ SoundPart(Target) = << >>
      BY <3>1, HeaderPart DEF SoundPart
    <3>3. <<Header>> \in Seq(Token)
      BY MarksAreTokens
    <3> QED BY <1>1, <3>1, <3>2, <3>3, HeaderOnly
  <2>2. CASE File(Target) # Missing
    <3>1. Current = File(Target) /\ Text(Target) = File(Target)
      BY <1>1, <1>3, <2>2 DEF Current
    <3>2. Shape(PartBefore(File(Target), spoilt[Target]), output)
      BY <1>1, <2>2 DEF IInv
    <3>3. File(Target) \in Seq(Token)
      <4>1. TargetPath \in Path
        BY <1>1, SourceAssumption DEF TargetPath, Path
      <4> QED BY <1>1, <2>2, <4>1 DEF IInv, TypeOK
    <3> QED BY <3>1, <3>2, <3>3 DEF SoundPart
  <2> QED BY <2>1, <2>2
<1>5. quote[output] \in Seq(MarkToken(output))
  <2>1. quote \in Quote
    BY SourceAssumption DEF IInv, TypeOK
  <2>2. output = "log" \/ output = "ai"
    BY <1>1 DEF Output
  <2> QED BY <2>1, <2>2 DEF Quote
<1>6. /\ NewBody \in Seq(Token) /\ (quote[output] = <<>> => NewBody = <<Body(key, turn)>>)
      /\ \A i \in 1 .. Len(NewBody) : NewBody[i][1] = "body" => NewBody[i] = Body(key, turn)
  BY <1>1, <1>2, <1>5, BodyParts DEF NewBody
<1>7. Rendered(output, Current) = Upserted(output, Current, thread, key, NewBody)
  BY DEF Rendered, Upserted, NewBody
<1>8. BlockName = Sought(output, thread, key) /\ BlockName \in Key
  BY <1>1 DEF BlockName, Sought
<1> QED BY <1>1, <1>2, <1>4, <1>6, <1>7, <1>8

\* What an attempt does to the list of its document, ahead of the spoilt blocks.
Change(before, after) ==
  \/ spoilt' = spoilt /\ after = before
  \/ spoilt' = spoilt /\ \E b \in Key \cup {NoKey} : after = Keyed!Put(before, b, key, turn)
  \/ \E b \in Key \ spoilt[Target] :
       /\ spoilt' = [spoilt EXCEPT ![Target] = @ \cup {b}]
       /\ after = Keyed!Cut(before, b)

\* A rename gives the document its draft, and changes no other.
LEMMA RenameChanges ==
  ASSUME IInv, RenameTmp
  PROVE  /\ Target \in Documents
         /\ \A d \in Documents : IF d = Target THEN File(d)' = draft /\ Text(d)' = draft
                                 ELSE File(d)' = File(d) /\ Text(d)' = Text(d)
         /\ draft = Upserted(output, Current, thread, key, NewBody)
         /\ draft \in Seq(Token) /\ draft # <<>> /\ draft # Missing /\ turn \in Version
         /\ files' \in [Path -> Seq(Token) \cup {Missing}]
<1>1. /\ Target \in Documents /\ turn \in Version /\ pc = "rename"
      /\ draft = Rendered(output, Current) /\ files[TmpPath] = draft
      /\ Current \in Seq(Token) /\ NewBody \in Seq(Token)
      /\ Rendered(output, Current) = Upserted(output, Current, thread, key, NewBody)
  BY RenderedOutcome DEF IInv, RenameTmp
<1>2. draft \in Seq(Token) /\ draft # Missing /\ draft # <<>>
  <2>1. output \in Output /\ thread \in Key /\ key \in Key
    BY DEF IInv, TypeOK
  <2>2. PICK o : Kept(Current, draft, o)
    BY <1>1, <2>1, UpsertedKeeps
  <2>3. draft \in Seq(Token) /\ Len(draft) # 0
    <3>1. draft \in Seq(Token) /\ Len(draft) \in Nat /\ Len(Current) \in Nat
      BY <1>1, <2>2, LenProperties DEF Kept
    <3>2. IndexFrom(Current, 1, o) = 0 \/ IndexFrom(Current, 1, o) \in 1 .. Len(Current)
      BY <1>1, IndexAny
    <3> QED BY <2>2, <3>1, <3>2 DEF Kept
  <2> QED BY <2>3, MissingAssumption
<1>3. /\ TmpPath \in Path /\ TargetPath \in Path /\ TmpPath # TargetPath
      /\ files \in [Path -> Seq(Token) \cup {Missing}]
  BY SourceAssumption DEF IInv, TypeOK, TmpPath, TargetPath, Path, Output
<1>4. files' = [files EXCEPT ![TmpPath] = Missing, ![TargetPath] = draft]
  BY <1>1 DEF RenameTmp
<1>5. /\ files' \in [Path -> Seq(Token) \cup {Missing}]
      /\ files'[TargetPath] = draft
      /\ \A p \in Path : p # TmpPath /\ p # TargetPath => files'[p] = files[p]
  BY <1>2, <1>3, <1>4
<1>6. ASSUME NEW d \in Documents
      PROVE  IF d = Target THEN File(d)' = draft /\ Text(d)' = draft
             ELSE File(d)' = File(d) /\ Text(d)' = Text(d)
  <2> DEFINE path == <<d[1], d[2], "md">>
  <2>1. path \in Path /\ path # TmpPath /\ (path = TargetPath <=> d = Target)
    BY DEF Documents, Path, TmpPath, TargetPath, Target
  <2>2. File(d)' = files'[path] /\ File(d) = files[path]
    BY DEF File
  <2>3. /\ Text(d)' = IF files'[path] = Missing THEN <<>> ELSE files'[path]
        /\ Text(d) = IF files[path] = Missing THEN <<>> ELSE files[path]
    BY DEF Text
  <2> HIDE DEF path
  <2>4. CASE d = Target
    BY <1>2, <1>5, <2>1, <2>2, <2>3, <2>4
  <2>5. CASE d # Target
    BY <1>5, <2>1, <2>2, <2>3, <2>5
  <2> QED BY <2>4, <2>5
<1> QED BY <1>1, <1>2, <1>5, <1>6

\* Which blocks are spoilt after it.
LEMMA RenameSpoils ==
  ASSUME IInv, RenameTmp
  PROVE  /\ spoilt \in [Documents -> SUBSET Key] /\ spoilt' \in [Documents -> SUBSET Key]
         /\ \A d \in Documents : d # Target => spoilt'[d] = spoilt[d]
         /\ quote[output] = <<>> => spoilt' = spoilt
         /\ quote[output] # <<>> =>
              /\ spoilt' = [spoilt EXCEPT ![Target] = @ \cup {BlockName}]
              /\ spoilt'[Target] = spoilt[Target] \cup {BlockName}
<1>1. Target \in Documents /\ BlockName \in Key /\ spoilt \in [Documents -> SUBSET Key]
  BY RenderedOutcome DEF RenameTmp, IInv, TypeOK
<1>2. spoilt' = IF quote[output] = <<>> THEN spoilt
                ELSE [spoilt EXCEPT ![Target] = @ \cup {BlockName}]
  BY DEF RenameTmp, Target
<1> QED BY <1>1, <1>2

\* The new sound part has its shape and its list; bodies come from the old
\* document or are new; and in a document with no spoilt block none gets lost.
LEMMA RenameOutcome ==
  ASSUME IInv, RenameTmp
  PROVE  /\ Shape(PartBefore(draft, spoilt'[Target]), output)
         /\ Change(Entries(SoundPart(Target)), Entries(PartBefore(draft, spoilt'[Target])))
         /\ \A j \in BodiesAt(draft) : \/ draft[j] = Body(key, turn)
                                      \/ \E i \in BodiesAt(Text(Target)) : Text(Target)[i] = draft[j]
         /\ spoilt'[Target] = {} => WroteOnly(Current, draft, key, turn) /\ spoilt[Target] = {}
<1> DEFINE blocks == spoilt[Target]
           p == PartBefore(Current, blocks)
<1>1. /\ Target \in Documents /\ turn \in Version
      /\ Current \in Seq(Token) /\ Shape(p, output)
      /\ Entries(p) = Entries(SoundPart(Target))
      /\ NewBody \in Seq(Token) /\ (quote[output] = <<>> => NewBody = <<Body(key, turn)>>)
      /\ BlockName = Sought(output, thread, key) /\ BlockName \in Key
  BY RenderedOutcome DEF RenameTmp
<1>2. output \in Output /\ thread \in Key /\ key \in Key
  BY DEF IInv, TypeOK
<1>3. draft = Upserted(output, Current, thread, key, NewBody) /\ draft \in Seq(Token)
  BY RenameChanges
<1>4. IsPart(p, Current, blocks)
  BY <1>1, PartIs
<1> HIDE DEF p
<1>5. ASSUME NEW j \in BodiesAt(draft)
      PROVE  \/ draft[j] = Body(key, turn)
             \/ \E i \in BodiesAt(Text(Target)) : Text(Target)[i] = draft[j]
  <2>1. BodiesFrom(draft, Current, NewBody)
    BY <1>1, <1>2, <1>3, UpsertedKeeps
  <2>2. j \in 1 .. Len(draft) /\ draft[j][1] = "body"
    BY <1>3, LenProperties DEF BodiesAt
  <2>3. CASE \E i \in 1 .. Len(NewBody) : draft[j] = NewBody[i]
    BY <2>2, <2>3, RenderedOutcome DEF RenameTmp
  <2>4. CASE \E i \in 1 .. Len(Current) : draft[j] = Current[i]
    <3>1. PICK i \in 1 .. Len(Current) : draft[j] = Current[i]
      BY <2>4
    <3>2. i \in BodiesAt(Current)
      BY <1>1, <2>2, <3>1, LenProperties DEF BodiesAt
    <3>3. /\ BodiesAt(Current) = BodiesAt(Text(Target))
          /\ \A h \in BodiesAt(Current) : Current[h] = Text(Target)[h]
      BY RenderedOutcome DEF RenameTmp
    <3> QED BY <3>1, <3>2, <3>3
  <2> QED BY <2>1, <2>2, <2>3, <2>4 DEF BodiesFrom
<1>6. CASE quote[output] = <<>>
  <2>1. spoilt' = spoilt /\ NewBody = <<Body(key, turn)>>
    BY <1>1, <1>6, RenameSpoils
  <2>2. draft = Upserted(output, Current, thread, key, <<Body(key, turn)>>)
    BY <1>3, <2>1
  <2>3. PICK p2 : /\ IsPart(p2, draft, blocks) /\ Shape(p2, output)
                  /\ p2 = p \/ Outcome(p, p2, output, key, turn)
    <3> HIDE DEF blocks
    <3> QED BY <1>1, <1>2, <1>4, <2>2, CleanPart
  <2>4. PartBefore(draft, spoilt'[Target]) = p2
    BY <2>1, <2>3, PartBeforeIs
  <2>5. Change(Entries(SoundPart(Target)), Entries(p2))
    BY <1>1, <2>1, <2>3 DEF Change, Outcome
  <2>6. ASSUME spoilt'[Target] = {} PROVE WroteOnly(Current, draft, key, turn) /\ spoilt[Target] = {}
    <3>1. blocks = {}
      BY <2>1, <2>6
    <3>2. Shape(Current, output)
      BY <1>1, <3>1, WholePart DEF p
    <3>3. Outcome(Current, Upserted(output, Current, thread, key, <<Body(key, turn)>>), output, key, turn)
      BY <1>1, <1>2, <3>2, UpsertOutcome DEF Upserted, Output
    <3> QED BY <2>2, <3>1, <3>3 DEF Outcome
  <2> QED BY <1>5, <2>3, <2>4, <2>5, <2>6
<1>7. CASE quote[output] # <<>>
  <2>1. /\ spoilt' = [spoilt EXCEPT ![Target] = @ \cup {BlockName}]
        /\ spoilt'[Target] = blocks \cup {BlockName} /\ spoilt \in [Documents -> SUBSET Key]
    BY <1>7, RenameSpoils
  <2>2. PICK p2 : /\ IsPart(p2, draft, blocks \cup {BlockName}) /\ Shape(p2, output)
                  /\ \/ p2 = p /\ BlockName \in blocks
                     \/ BlockName \notin blocks /\ Entries(p2) = Keyed!Cut(Entries(p), BlockName)
    <3> HIDE DEF blocks
    <3> QED BY <1>1, <1>2, <1>3, <1>4, QuotingPart
  <2>3. PartBefore(draft, spoilt'[Target]) = p2
    BY <2>1, <2>2, PartBeforeIs
  <2>4. Change(Entries(SoundPart(Target)), Entries(p2))
    <3>1. CASE BlockName \in blocks
      <4>1. spoilt' = spoilt /\ p2 = p
        BY <1>1, <2>1, <2>2, <3>1
      <4> QED BY <1>1, <4>1 DEF Change
    <3>2. CASE BlockName \notin blocks
      BY <1>1, <2>1, <2>2, <3>2 DEF Change
    <3> QED BY <3>1, <3>2
  <2>5. spoilt'[Target] # {}
    BY <2>1
  <2> QED BY <1>5, <2>2, <2>3, <2>4, <2>5
<1> QED BY <1>6, <1>7

\* No other step changes a document: the others write beside it.
LEMMA OthersKeep ==
  ASSUME IInv, \/ Render \/ CreateTmp \/ WriteTmp \/ Fail
               \/ \E k \in Key, t \in Key, q \in Quotes : Begin(k, t, q)
               \/ UNCHANGED vars
  PROVE  /\ \A d \in Documents : File(d)' = File(d) /\ Text(d)' = Text(d)
         /\ files' \in [Path -> Seq(Token) \cup {Missing}]
         /\ spoilt' = spoilt
<1>1. /\ TmpPath \in Path /\ files \in [Path -> Seq(Token) \cup {Missing}] /\ draft \in Seq(Token)
  BY SourceAssumption DEF IInv, TypeOK, TmpPath, Path, Output
<1>2. /\ files' \in [Path -> Seq(Token) \cup {Missing}]
      /\ \A p \in Path : p # TmpPath => files'[p] = files[p]
  <2>1. CASE UNCHANGED files
    BY <1>1, <2>1
  <2>2. CASE CreateTmp
    BY <1>1, <2>2 DEF CreateTmp
  <2>3. CASE WriteTmp
    BY <1>1, <2>3 DEF WriteTmp
  <2> QED BY <2>1, <2>2, <2>3 DEF Render, Fail, Begin, vars
<1>3. ASSUME NEW d \in Documents PROVE File(d)' = File(d) /\ Text(d)' = Text(d)
  <2> DEFINE path == <<d[1], d[2], "md">>
  <2>1. path \in Path /\ path # TmpPath
    BY DEF Documents, Path, TmpPath
  <2>2. files'[path] = files[path]
    BY <1>2, <2>1
  <2> QED BY <2>2 DEF File, Text
<1>4. spoilt' = spoilt
  BY DEF Render, CreateTmp, WriteTmp, Fail, Begin, vars
<1> QED BY <1>2, <1>3, <1>4

\* What the documents say of themselves, and of each other.
Documented ==
  /\ \A d \in Documents : File(d) = Missing \/ Shape(PartBefore(File(d), spoilt[d]), d[1])
  /\ LogCoversSource

\* As long as no document changes it stays, and no body becomes too new.
LEMMA KeptDocuments ==
  ASSUME IInv, turn' >= turn, turn' \in Nat, spoilt' = spoilt,
         \A d \in Documents : File(d)' = File(d) /\ Text(d)' = Text(d)
  PROVE  /\ Documented'
         /\ \A d \in Documents : \A i \in BodiesAt(Text(d)') : Text(d)'[i][3] <= turn'
<1>1. \A d \in Documents : File(d)' = Missing \/ Shape(PartBefore(File(d)', spoilt'[d]), d[1])
  BY DEF IInv
<1>2. LogCoversSource'
  <2>1. \A day \in Day : <<"ai", day>> \in Documents /\ <<"log", day>> \in Documents
    BY DEF Documents, Output
  <2>2. \A day \in Day : /\ Text(<<"ai", day>>)' = Text(<<"ai", day>>)
                         /\ Text(<<"log", day>>)' = Text(<<"log", day>>)
    BY <2>1
  <2> QED BY <2>2 DEF IInv, LogCoversSource
<1>3. ASSUME NEW d \in Documents, NEW i \in BodiesAt(Text(d)')
      PROVE  Text(d)'[i][3] <= turn'
  <2>1. Text(d)' = Text(d) /\ Text(d)[i][3] <= turn
    BY <1>3 DEF IInv
  <2>2. Text(d)[i][3] \in Nat /\ turn \in Nat
    <3>1. Text(d) \in Seq(Token)
      BY EmptySeq DEF IInv, TypeOK, Text, Documents, Path
    <3>2. i \in 1 .. Len(Text(d)) /\ Text(d)[i][1] = "body"
      BY <2>1, <3>1, LenProperties DEF BodiesAt
    <3>3. Text(d)[i] \in Token
      BY <3>1, <3>2, ElementOfSeq
    <3> QED BY <3>2, <3>3, TokenParts, SourceAssumption DEF Version, IInv, TypeOK
  <2> QED BY <2>1, <2>2
<1> QED BY <1>1, <1>2, <1>3 DEF Documented

\* It holds of a disk without documents.
LEMMA InitInv == Init => IInv
<1> SUFFICES ASSUME Init PROVE IInv
  OBVIOUS
<1>1. TypeOK
  BY SourceAssumption, EmptySeq DEF Init, TypeOK, Path, Output
<1>2. \A d \in Documents : File(d) = Missing /\ Text(d) = <<>>
  BY DEF Init, Documents, Path, File, Text
<1>3. BodiesAt(<< >>) = {}
  BY HeaderOnly DEF Output
<1>4. LogCoversSource
  <2>1. \A day \in Day : Text(<<"ai", day>>) = << >>
    BY <1>2 DEF Documents, Output
  <2> QED BY <1>3, <2>1 DEF LogCoversSource
<1> QED BY <1>1, <1>2, <1>3, <1>4 DEF IInv, Init

\* The rename makes the draft the document: the log stays ahead of the source.
LEMMA RenameInv ==
  ASSUME IInv, RenameTmp
  PROVE  IInv'
<1>1. /\ Target \in Documents /\ draft \in Seq(Token) /\ draft # <<>> /\ draft # Missing /\ turn \in Version
      /\ files' \in [Path -> Seq(Token) \cup {Missing}]
  BY RenameChanges
<1>2. \A d \in Documents : IF d = Target THEN File(d)' = draft /\ Text(d)' = draft
                           ELSE File(d)' = File(d) /\ Text(d)' = Text(d)
  BY RenameChanges
<1>3. /\ pc = "rename" /\ UNCHANGED <<key, thread, quote, turn>> /\ draft' = <<>>
      /\ output = "log" => output' = "ai" /\ pc' = "render"
      /\ output # "log" => output' = "log" /\ pc' = "idle"
  <2>1. (CHOOSE o \in Output : o # "log") = "ai"
    BY DEF Output
  <2> QED BY <2>1 DEF RenameTmp, FirstOutput
<1>4. /\ spoilt' \in [Documents -> SUBSET Key]
      /\ \A d \in Documents : d # Target => spoilt'[d] = spoilt[d]
  BY RenameSpoils
<1>5. TypeOK'
  BY <1>1, <1>3, <1>4, EmptySeq DEF IInv, TypeOK, Output
<1>6. /\ Shape(PartBefore(draft, spoilt'[Target]), output)
      /\ \A j \in BodiesAt(draft) : \/ draft[j] = Body(key, turn)
                                   \/ \E i \in BodiesAt(Text(Target)) : Text(Target)[i] = draft[j]
      /\ spoilt'[Target] = {} =>
           /\ spoilt[Target] = {}
           /\ \E j \in BodiesAt(draft) : draft[j] = Body(key, turn)
           /\ \A i \in BodiesAt(Text(Target)) : \E j \in BodiesAt(draft) :
                draft[j] = Text(Target)[i] \/ (Text(Target)[i][2] = key /\ draft[j] = Body(key, turn))
  <2>1. /\ BodiesAt(Current) = BodiesAt(Text(Target))
        /\ \A i \in BodiesAt(Current) : Current[i] = Text(Target)[i]
    BY <1>3, RenderedOutcome
  <2>2. /\ Shape(PartBefore(draft, spoilt'[Target]), output)
        /\ \A j \in BodiesAt(draft) : \/ draft[j] = Body(key, turn)
                                     \/ \E i \in BodiesAt(Text(Target)) : Text(Target)[i] = draft[j]
        /\ spoilt'[Target] = {} => WroteOnly(Current, draft, key, turn) /\ spoilt[Target] = {}
    BY RenameOutcome
  <2>3. ASSUME WroteOnly(Current, draft, key, turn)
        PROVE  /\ \E j \in BodiesAt(draft) : draft[j] = Body(key, turn)
               /\ \A i \in BodiesAt(Text(Target)) : \E j \in BodiesAt(draft) :
                    draft[j] = Text(Target)[i] \/ (Text(Target)[i][2] = key /\ draft[j] = Body(key, turn))
    BY <2>1, <2>3 DEF WroteOnly
  <2> QED BY <2>2, <2>3
<1>7. /\ turn \in Nat /\ Body(key, turn)[2] = key /\ Body(key, turn)[3] = turn
      /\ Target = <<output, DayOf[key]>> /\ output \in {"log", "ai"} /\ DayOf[key] \in Day
  BY SourceAssumption DEF IInv, TypeOK, Body, Target, Output
<1>8. \A d \in Documents : File(d)' = Missing \/ Shape(PartBefore(File(d)', spoilt'[d]), d[1])
  <2>1. Shape(PartBefore(draft, spoilt'[Target]), Target[1])
    BY <1>6, <1>7
  <2> QED BY <1>2, <1>4, <2>1 DEF IInv
<1>9. ASSUME NEW d \in Documents, NEW j \in BodiesAt(Text(d)')
      PROVE  Text(d)'[j][3] <= turn'
  <2>1. \A i \in BodiesAt(Text(d)) : Text(d)[i][3] <= turn
    BY DEF IInv
  <2>2. CASE d # Target
    BY <1>2, <1>3, <1>9, <2>1, <2>2
  <2>3. CASE d = Target
    <3>1. Text(d)' = draft /\ j \in BodiesAt(draft)
      BY <1>2, <1>9, <2>3
    <3>2. CASE draft[j] = Body(key, turn)
      BY <1>3, <1>7, <3>1, <3>2
    <3>3. CASE draft[j] # Body(key, turn)
      <4>1. PICK i \in BodiesAt(Text(Target)) : Text(Target)[i] = draft[j]
        BY <1>6, <3>1, <3>3
      <4> QED BY <1>3, <2>1, <2>3, <3>1, <4>1
    <3> QED BY <3>2, <3>3
  <2> QED BY <2>2, <2>3
<1>10. \A day \in Day : <<"ai", day>> \in Documents /\ <<"log", day>> \in Documents
  BY DEF Documents, Output
<1>11. LogCoversSource'
  <2> SUFFICES ASSUME NEW day \in Day, spoilt'[<<"log", day>>] = {}, NEW i \in BodiesAt(Text(<<"ai", day>>)')
               PROVE  \E j \in BodiesAt(Text(<<"log", day>>)') :
                        /\ Text(<<"log", day>>)'[j][2] = Text(<<"ai", day>>)'[i][2]
                        /\ Text(<<"log", day>>)'[j][3] >= Text(<<"ai", day>>)'[i][3]
    BY DEF LogCoversSource
  <2> DEFINE source == Text(<<"ai", day>>)
             log    == Text(<<"log", day>>)
  <2>1. spoilt[<<"log", day>>] = {}
    BY <1>4, <1>6, <1>10
  <2>2. \A h \in BodiesAt(source) : /\ source[h][3] <= turn
                                    /\ \E j \in BodiesAt(log) : log[j][2] = source[h][2] /\ log[j][3] >= source[h][3]
    BY <1>10, <2>1 DEF IInv, LogCoversSource
  <2>3. CASE Target = <<"log", day>>
    <3>1. /\ Text(<<"ai", day>>)' = source /\ Text(<<"log", day>>)' = draft
          /\ log = Text(Target)
      BY <1>2, <1>10, <2>3
    <3>2. \A g \in BodiesAt(log) : \E j \in BodiesAt(draft) :
            draft[j] = log[g] \/ (log[g][2] = key /\ draft[j] = Body(key, turn))
      BY <1>6, <2>3
    <3> HIDE DEF source, log
    <3>3. i \in BodiesAt(source)
      BY <3>1
    <3>4. PICK g \in BodiesAt(log) : log[g][2] = source[i][2] /\ log[g][3] >= source[i][3]
      BY <2>2, <3>3
    <3>5. PICK j \in BodiesAt(draft) : draft[j] = log[g] \/ (log[g][2] = key /\ draft[j] = Body(key, turn))
      BY <3>2, <3>4
    <3>6. source[i][3] <= turn
      BY <2>2, <3>3
    <3>7. draft[j][2] = source[i][2] /\ draft[j][3] >= source[i][3]
      BY <1>7, <3>4, <3>5, <3>6
    <3> QED BY <3>1, <3>5, <3>7
  <2>4. CASE Target = <<"ai", day>>
    <3>1. /\ Text(<<"ai", day>>)' = draft /\ Text(<<"log", day>>)' = log
          /\ source = Text(Target) /\ day = DayOf[key] /\ output = "ai"
      BY <1>2, <1>7, <1>10, <2>4
    <3>2. \E j \in BodiesAt(log) : log[j] = Body(key, turn)
      BY <1>3, <2>1, <3>1 DEF IInv
    <3> HIDE DEF source, log
    <3>3. i \in BodiesAt(draft)
      BY <3>1
    <3>4. CASE draft[i] = Body(key, turn)
      <4>1. PICK j \in BodiesAt(log) : log[j] = Body(key, turn)
        BY <3>2
      <4>2. log[j][2] = draft[i][2] /\ log[j][3] >= draft[i][3]
        BY <1>7, <3>4, <4>1
      <4> QED BY <3>1, <4>2
    <3>5. CASE draft[i] # Body(key, turn)
      <4>1. PICK h \in BodiesAt(source) : source[h] = draft[i]
        BY <1>6, <3>1, <3>3, <3>5
      <4> QED BY <2>2, <3>1, <4>1
    <3> QED BY <3>4, <3>5
  <2>5. CASE Target # <<"log", day>> /\ Target # <<"ai", day>>
    <3>1. Text(<<"ai", day>>)' = source /\ Text(<<"log", day>>)' = log
      BY <1>2, <1>10, <2>5
    <3> HIDE DEF source, log
    <3> QED BY <2>2, <3>1
  <2> QED BY <2>3, <2>4, <2>5
<1>12. output' = "ai" /\ pc' # "idle" /\ spoilt'[<<"log", DayOf[key]>>] = {} =>
         \E j \in BodiesAt(Text(<<"log", DayOf[key]>>)') :
           Text(<<"log", DayOf[key]>>)'[j] = Body(key, turn)
  <2> SUFFICES ASSUME output' = "ai", pc' # "idle", spoilt'[<<"log", DayOf[key]>>] = {}
               PROVE  \E j \in BodiesAt(Text(<<"log", DayOf[key]>>)') :
                        Text(<<"log", DayOf[key]>>)'[j] = Body(key, turn)
    OBVIOUS
  <2>1. Target = <<"log", DayOf[key]>>
    BY <1>3, <1>7
  <2>2. Text(<<"log", DayOf[key]>>)' = draft
    <3>1. DayOf[key] \in Day /\ Target[2] = DayOf[key] /\ Target[1] = "log"
      BY <1>7, <2>1
    <3>2. Text(<<"log", DayOf[key]>>)' = IF files'[<<"log", DayOf[key], "md">>] = Missing THEN <<>> ELSE files'[<<"log", DayOf[key], "md">>]
      BY <1>3 DEF Text
    <3>3. \A d \in Documents : File(d)' = files'[<<d[1], d[2], "md">>]
      BY DEF File
    <3>4. files'[<<"log", DayOf[key], "md">>] = draft
      BY <1>1, <1>2, <3>1, <3>3
    <3> QED BY <1>1, <3>2, <3>4
  <2>3. spoilt'[Target] = {}
    BY <2>1
  <2> QED BY <1>6, <2>2, <2>3
<1>13. turn' >= 1 /\ ~(pc' \in {"create", "write", "rename"})
  BY <1>3 DEF IInv
<1> QED BY <1>3, <1>5, <1>8, <1>9, <1>11, <1>12, <1>13 DEF IInv

\* Every step keeps the invariant.
LEMMA NextInv ==
  ASSUME IInv, [Next]_vars
  PROVE  IInv'
<1>1. ASSUME NEW k \in Key, NEW t \in Threads[k], NEW q \in Quotes, Begin(k, t, q) PROVE IInv'
  <2>1. t \in Key /\ turn \in Nat /\ turn' = turn + 1 /\ turn' \in 0 .. MaxTurns
    BY <1>1, SourceAssumption DEF IInv, TypeOK, Begin
  <2>2. Documented' /\ \A d \in Documents : \A i \in BodiesAt(Text(d)') : Text(d)'[i][3] <= turn'
    <3>1. (\A d \in Documents : File(d)' = File(d) /\ Text(d)' = Text(d)) /\ spoilt' = spoilt
      BY <1>1, <2>1, OthersKeep
    <3> QED BY <2>1, <3>1, KeptDocuments
  <2>3. TypeOK'
    BY <1>1, <2>1 DEF IInv, TypeOK, Begin, FirstOutput, Output
  <2>4. pc' = "render" /\ output' = "log" /\ turn' >= 1
    BY <1>1, <2>1 DEF Begin, FirstOutput
  <2> QED BY <2>2, <2>3, <2>4 DEF IInv, Documented
<1>2. CASE Render
  <2>1. Documented' /\ \A d \in Documents : \A i \in BodiesAt(Text(d)') : Text(d)'[i][3] <= turn'
    <3>1. (\A d \in Documents : File(d)' = File(d) /\ Text(d)' = Text(d)) /\ spoilt' = spoilt
      BY <1>2, OthersKeep
    <3>2. turn' >= turn /\ turn' \in Nat
      BY <1>2, SourceAssumption DEF IInv, TypeOK, Render
    <3> QED BY <3>1, <3>2, KeptDocuments
  <2>2. Rendered(output, Current) \in Seq(Token)
    <3>1. /\ Current \in Seq(Token) /\ NewBody \in Seq(Token)
          /\ Rendered(output, Current) = Upserted(output, Current, thread, key, NewBody)
      BY <1>2, RenderedOutcome DEF Render
    <3>2. output \in Output /\ thread \in Key /\ key \in Key
      BY DEF IInv, TypeOK
    <3>3. PICK doc2 : doc2 = Upserted(output, Current, thread, key, NewBody)
      OBVIOUS
    <3>4. PICK o : Kept(Current, doc2, o)
      BY <3>1, <3>2, <3>3, UpsertedKeeps
    <3> QED BY <3>1, <3>3, <3>4 DEF Kept
  <2>3. /\ draft' = Rendered(output, Current) /\ pc' = "create" /\ pc = "render"
        /\ UNCHANGED <<files, key, thread, quote, output, turn, spoilt>>
    BY <1>2 DEF Render, Current
  <2>4. Rendered(output, Current)' = Rendered(output, Current) /\ Current' = Current
    BY <2>3 DEF Rendered, Current, TargetPath
  <2>5. TypeOK'
    BY <2>2, <2>3 DEF IInv, TypeOK
  <2> QED BY <2>1, <2>3, <2>4, <2>5 DEF IInv, Documented, Text
<1>3. CASE CreateTmp \/ WriteTmp
  <2>1. UNCHANGED <<key, thread, quote, output, draft, turn, spoilt>> /\ pc \in {"create", "write"} /\ pc' \in {"write", "rename"}
    BY <1>3 DEF CreateTmp, WriteTmp
  <2>2. /\ \A d \in Documents : File(d)' = File(d) /\ Text(d)' = Text(d)
        /\ files' \in [Path -> Seq(Token) \cup {Missing}]
    BY <1>3, OthersKeep
  <2>3. Documented' /\ \A d \in Documents : \A i \in BodiesAt(Text(d)') : Text(d)'[i][3] <= turn'
    <3>1. turn' >= turn /\ turn' \in Nat
      BY <2>1, SourceAssumption DEF IInv, TypeOK
    <3> QED BY <2>1, <2>2, <3>1, KeptDocuments
  <2>4. TypeOK'
    BY <2>1, <2>2 DEF IInv, TypeOK
  <2>5. draft' = Rendered(output, Current)'
    <3>1. files'[TargetPath] = files[TargetPath]
      <4>1. Target \in Documents /\ TargetPath = <<Target[1], Target[2], "md">>
        BY <2>1, RenderedOutcome DEF Target, TargetPath
      <4>2. \A d \in Documents : files'[<<d[1], d[2], "md">>] = files[<<d[1], d[2], "md">>]
        BY <2>2 DEF File
      <4> QED BY <4>1, <4>2
    <3>2. Current' = Current
      BY <2>1, <3>1 DEF Current, TargetPath
    <3>3. Rendered(output, Current)' = Rendered(output, Current)
      BY <2>1, <3>2 DEF Rendered
    <3> QED BY <2>1, <3>3 DEF IInv
  <2>6. pc' = "rename" => files'[TmpPath] = draft
    <3>1. TmpPath \in Path
      BY SourceAssumption DEF IInv, TypeOK, TmpPath, Path
    <3> QED BY <1>3, <3>1 DEF CreateTmp, WriteTmp, IInv, TypeOK
  <2>7. <<"log", DayOf[key]>> \in Documents
    BY SourceAssumption DEF IInv, TypeOK, Documents, Output
  <2>8. Text(<<"log", DayOf[key]>>)' = Text(<<"log", DayOf[key]>>)
    BY <2>1, <2>2, <2>7
  <2> QED BY <2>1, <2>3, <2>4, <2>5, <2>6, <2>8 DEF IInv, Documented, TmpPath
<1>4. CASE RenameTmp
  BY <1>4, RenameInv
<1>5. CASE Fail
  <2>1. UNCHANGED <<key, thread, quote, turn, spoilt>> /\ pc' = "idle" /\ output' = "log" /\ draft' = <<>>
    BY <1>5 DEF Fail, FirstOutput
  <2>2. Documented' /\ \A d \in Documents : \A i \in BodiesAt(Text(d)') : Text(d)'[i][3] <= turn'
    <3>1. \A d \in Documents : File(d)' = File(d) /\ Text(d)' = Text(d)
      BY <1>5, OthersKeep
    <3>2. turn' >= turn /\ turn' \in Nat
      BY <2>1, SourceAssumption DEF IInv, TypeOK
    <3> QED BY <2>1, <3>1, <3>2, KeptDocuments
  <2>3. TypeOK'
    BY <1>5, <2>1, EmptySeq DEF IInv, TypeOK, Fail, Output
  <2> QED BY <2>1, <2>2, <2>3 DEF IInv, Documented
<1>6. CASE UNCHANGED vars
  <2>1. UNCHANGED <<files, pc, key, thread, quote, output, draft, turn, spoilt>>
    BY <1>6 DEF vars
  <2>2. Documented' /\ \A d \in Documents : \A i \in BodiesAt(Text(d)') : Text(d)'[i][3] <= turn'
    <3>1. \A d \in Documents : File(d)' = File(d) /\ Text(d)' = Text(d)
      BY <1>6, OthersKeep
    <3>2. turn' >= turn /\ turn' \in Nat
      BY <2>1, SourceAssumption DEF IInv, TypeOK
    <3> QED BY <2>1, <3>1, <3>2, KeptDocuments
  <2>3. TypeOK'
    BY <2>1 DEF IInv, TypeOK
  <2>4. /\ TmpPath' = TmpPath /\ Current' = Current /\ Rendered(output, Current)' = Rendered(output, Current)
        /\ Text(<<"log", DayOf[key]>>)' = Text(<<"log", DayOf[key]>>)
    BY <2>1 DEF TmpPath, TargetPath, Current, Rendered, Text
  <2> QED BY <2>1, <2>2, <2>3, <2>4 DEF IInv, Documented
<1> QED BY <1>1, <1>2, <1>3, <1>4, <1>5, <1>6 DEF Next

-----------------------------------------------------------------------------
(* The theorems. *)

\* The invariant holds throughout.
LEMMA Invariant == Spec => []IInv
BY InitInv, NextInv, PTL DEF Spec

\* Every file the writer leaves, with or without the temporary suffix, is a
\* sequence of markers and bodies or is not there.
THEOREM TypeCorrect == Spec => []TypeOK
<1>1. IInv => TypeOK
  BY DEF IInv
<1> QED BY <1>1, Invariant, PTL

\* Whatever bodies quote, whatever dies in between, and however often an item is
\* written again: up to the first block whose own body quotes markers, the
\* markers of both documents nest, and no block or entry occurs twice.
THEOREM DocumentsWellFormed == Spec => []WellFormed
<1>1. ASSUME IInv PROVE WellFormed
  <2> SUFFICES ASSUME NEW d \in Documents, Text(d) # <<>>
               PROVE  /\ SoundPart(d) # <<>> /\ SoundPart(d)[1] = Header
                      /\ SoundPart(d)[Len(SoundPart(d))][1] \in {"header", "end", "threadEnd"}
                      /\ \A i \in 1 .. Len(SoundPart(d)) - 1 : Follows(SoundPart(d)[i], SoundPart(d)[i + 1])
                      /\ \A i, j \in DOMAIN SoundPart(d) :
                           SoundPart(d)[i][1] \in Opens /\ SoundPart(d)[i] = SoundPart(d)[j] => i = j
    BY DEF WellFormed
  <2> DEFINE doc == SoundPart(d)
  <2>1. Shape(doc, d[1])
    <3>1. File(d) # Missing /\ Text(d) = File(d)
      BY DEF Text, File
    <3> QED BY <1>1, <3>1 DEF IInv, SoundPart
  <2> HIDE DEF doc
  <2>2. DOMAIN doc = 1 .. Len(doc) /\ doc # <<>>
    BY <2>1, LenProperties DEF Shape
  <2>3. /\ doc[1] = Header /\ doc[Len(doc)][1] \in {"header", "end", "threadEnd"}
        /\ \A i \in 1 .. Len(doc) - 1 : Follows(doc[i], doc[i + 1])
        /\ \A i, j \in DOMAIN doc : doc[i][1] \in Opens /\ doc[i] = doc[j] => i = j
    BY <2>1, <2>2 DEF Shape
  <2> QED BY <2>2, <2>3 DEF doc
<1> QED BY <1>1, Invariant, PTL

\* Every item of an AI source has an entry in that day's log, at least as new:
\* at every moment, so also where an attempt died between the two, and whatever
\* the source's markers have come to; unless a body quoted the log's markers.
THEOREM SourceIsCovered == Spec => []LogCoversSource
<1>1. IInv => LogCoversSource
  BY DEF IInv
<1> QED BY <1>1, Invariant, PTL

\* A document's list is that of its sound part.
LEMMA Lists == \A d \in Documents : ListOf(d) = Entries(SoundPart(d))
<1>1. ASSUME NEW x PROVE (CHOOSE y \in {x} : TRUE) = x
  OBVIOUS
<1> SUFFICES ASSUME NEW d \in Documents PROVE ListOf(d) = Entries(SoundPart(d))
  OBVIOUS
<1>2. {Entries(doc) : doc \in {SoundPart(d)}} = {Entries(SoundPart(d))}
  OBVIOUS
<1> QED BY <1>1, <1>2 DEF ListOf

\* An entry that is put is held.
LEMMA PutHolds ==
  ASSUME NEW before, NEW b, NEW k, NEW v
  PROVE  LET after == Keyed!Put(before, b, k, v) IN
         \E e \in after.held : after = Keyed!Put(before, e.place[1], e.place[2], e.version)
<1> DEFINE after == Keyed!Put(before, b, k, v)
           e == [place |-> <<b, k>>, version |-> v]
<1>1. e \in after.held
  BY DEF Keyed!Put
<1>2. e.place[1] = b /\ e.place[2] = k /\ e.version = v
  OBVIOUS
<1> QED BY <1>1, <1>2

\* Parsed by their markers up to the first spoilt block, the documents implement
\* the lists of keyed entries: a rename puts one entry into one of them, or
\* spoils one block, cutting the list there, or changes no list; every other
\* step changes none.
THEOREM Refinement == Spec => KeepsEntries
<1> DEFINE lists == [d \in Documents |-> ListOf(d)]
<1>1. ASSUME Init PROVE Keyed!Init
  <2>1. \A d \in Documents : Text(d) = <<>>
    BY <1>1 DEF Init, Documents, Path, Text
  <2>2. Entries(<< >>) = [held |-> {}, order |-> {}]
    BY HeaderOnly DEF Output
  <2>3. \A d \in Documents : ListOf(d) = [held |-> {}, order |-> {}]
    BY <2>1, <2>2, Lists, HeaderPart DEF SoundPart
  <2> QED BY <1>1, <2>3 DEF Keyed!Init, Init
<1>2. ASSUME IInv, [Next]_vars PROVE [Keyed!Next]_<<lists, spoilt>>
  <2>1. CASE RenameTmp
    <3>1. PICK t \in Documents : t = Target
      BY <1>2, <2>1, RenameChanges
    <3>2. ASSUME NEW d \in Documents
          PROVE  lists'[d] = IF d = t THEN Entries(PartBefore(draft, spoilt'[t])) ELSE lists[d]
      <4>1. IF d = Target THEN Text(d)' = draft ELSE Text(d)' = Text(d)
        BY <1>2, <2>1, RenameChanges
      <4>2. d # Target => spoilt'[d] = spoilt[d]
        BY <1>2, <2>1, RenameSpoils
      <4>3. ListOf(d)' = Entries(PartBefore(Text(d)', spoilt'[d]))
        <5>1. ListOf(d)' = (CHOOSE list \in {Entries(doc) : doc \in {PartBefore(Text(d)', spoilt'[d])}} : TRUE)
          BY DEF ListOf, SoundPart
        <5>2. ASSUME NEW x PROVE (CHOOSE y \in {x} : TRUE) = x
          OBVIOUS
        <5>3. {Entries(doc) : doc \in {PartBefore(Text(d)', spoilt'[d])}} = {Entries(PartBefore(Text(d)', spoilt'[d]))}
          OBVIOUS
        <5> QED BY <5>1, <5>2, <5>3
      <4>4. ListOf(d) = Entries(PartBefore(Text(d), spoilt[d]))
        BY Lists DEF SoundPart
      <4>5. lists'[d] = ListOf(d)' /\ lists[d] = ListOf(d)
        OBVIOUS
      <4> HIDE DEF lists
      <4> QED BY <3>1, <4>1, <4>2, <4>3, <4>4, <4>5
    <3>3. lists' = [lists EXCEPT ![t] = lists'[t]]
      <4>1. lists' = [d \in Documents |-> lists'[d]]
        OBVIOUS
      <4>2. [lists EXCEPT ![t] = lists'[t]] = [d \in Documents |-> IF d = t THEN lists'[t] ELSE lists[d]]
        OBVIOUS
      <4> HIDE DEF lists
      <4> QED BY <3>2, <4>1, <4>2
    <3>4. Change(lists[t], lists'[t])
      <4>1. lists[t] = Entries(SoundPart(t))
        BY Lists
      <4>2. lists'[t] = Entries(PartBefore(draft, spoilt'[t]))
        BY <3>2
      <4>3. Change(Entries(SoundPart(t)), Entries(PartBefore(draft, spoilt'[t])))
        BY <1>2, <2>1, <3>1, RenameOutcome
      <4> HIDE DEF lists
      <4> QED BY <4>1, <4>2, <4>3
    <3> HIDE DEF lists
    <3>5. CASE UNCHANGED <<lists, spoilt>>
      BY <3>5
    <3>6. CASE ~UNCHANGED <<lists, spoilt>>
      <4>1. lists'[t] # lists[t] \/ spoilt' # spoilt
        <5>1. lists'[t] = lists[t] => lists' = lists
          BY <3>2, <3>3 DEF lists
        <5> QED BY <3>6, <5>1
      <4>2. Keyed!Write(t, lists[t], lists'[t]) \/ Keyed!Spoil(t, lists[t], lists'[t])
        <5>1. CASE spoilt' = spoilt /\ \E b \in Key \cup {NoKey} : lists'[t] = Keyed!Put(lists[t], b, key, turn)
          BY <5>1, PutHolds DEF Keyed!Write
        <5>2. CASE \E b \in Key \ spoilt[Target] :
                     /\ spoilt' = [spoilt EXCEPT ![Target] = @ \cup {b}]
                     /\ lists'[t] = Keyed!Cut(lists[t], b)
          BY <3>1, <5>2 DEF Keyed!Spoil
        <5> QED BY <3>4, <4>1, <5>1, <5>2 DEF Change
      <4>3. lists' # lists \/ spoilt' # spoilt
        BY <3>6
      <4>4. Keyed!Next
        BY <3>3, <4>2, <4>3 DEF Keyed!Next, lists
      <4> QED BY <4>4
    <3> QED BY <3>5, <3>6
  <2>2. CASE ~RenameTmp
    <3>1. \/ Render \/ CreateTmp \/ WriteTmp \/ Fail
          \/ \E k \in Key, t \in Key, q \in Quotes : Begin(k, t, q)
          \/ UNCHANGED vars
      BY <1>2, <2>2, SourceAssumption DEF Next
    <3>2. (\A d \in Documents : Text(d)' = Text(d)) /\ spoilt' = spoilt
      BY <1>2, <3>1, OthersKeep
    <3>3. \A d \in Documents : ListOf(d)' = ListOf(d)
      BY <3>2 DEF ListOf, SoundPart
    <3> QED BY <3>2, <3>3
  <2> QED BY <2>1, <2>2
<1> QED BY <1>1, <1>2, Invariant, PTL DEF Spec, KeepsEntries, Keyed!Spec

=============================================================================
