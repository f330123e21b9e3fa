-------------------------- MODULE QueryTextProofs ---------------------------
(***************************************************************************)
(* What the texts of queries tell, for every set of keys and of values:    *)
(* the fields a list of ranges is expanded to, and the local path a query  *)
(* has and is read back from.  Both are sequences of sequences laid out    *)
(* behind each other, and rest on the same lemmas about FlattenSeq.        *)
(***************************************************************************)
EXTENDS Expand, LocalPath, SequenceTheorems, FiniteSetTheorems,
        WellFoundedInduction, TLAPS


-----------------------------------------------------------------------------
(* Induction over the naturals.                                            *)
LEMMA NaturalsBySteps ==
    ASSUME NEW I \in SUBSET Nat, 0 \in I, \A n \in I : n + 1 \in I
    PROVE  I = Nat
<1>. DEFINE R == OpToRel(<, Nat)
            T == Nat \ I
<1>1. IsWellFoundedOn(R, Nat)
    BY NatLessThanWellFounded
<1>2. \A m, k \in Nat : m < k => <<m, k>> \in R
    BY DEF OpToRel
<1>. HIDE DEF R
<1>3. SUFFICES ASSUME T # {} PROVE FALSE
    OBVIOUS
<1>4. PICK m \in T : \A k \in T : ~ (<<k, m>> \in R)
    BY <1>1, <1>3, WFMin
<1>5. m # 0 /\ m \in Nat
    OBVIOUS
<1>6. m - 1 \in Nat /\ m - 1 < m /\ (m - 1) + 1 = m
    BY <1>5
<1>7. m - 1 \notin T
    BY <1>2, <1>4, <1>6
<1>. QED BY <1>6, <1>7

-----------------------------------------------------------------------------
(* FlattenSeq is a recursive function over the positions of a sequence of  *)
(* sequences: it exists, is the only one, and concatenates.                *)
FlattenStep(f, ss, j) == IF j = 1 THEN ss[j] ELSE f[j - 1] \o ss[j]
Flattens(f, ss, n) == \A j \in 1..n : f[j] = FlattenStep(f, ss, j)

LEMMA FlattenExists ==
    ASSUME NEW ss, NEW m \in Nat
    PROVE  \E f : f = [j \in 1..m |-> FlattenStep(f, ss, j)]
<1>. DEFINE I == {n \in Nat : \E f : Flattens(f, ss, n)}
<1>1. 0 \in I
    BY DEF Flattens
<1>2. ASSUME NEW n \in I PROVE n + 1 \in I
    <2>1. n \in Nat
        OBVIOUS
    <2>2. PICK f : Flattens(f, ss, n)
        OBVIOUS
    <2>. DEFINE g == [j \in 1..(n + 1) |-> IF j <= n THEN f[j] ELSE FlattenStep(f, ss, j)]
    <2>3. ASSUME NEW j \in 1..(n + 1) PROVE g[j] = FlattenStep(g, ss, j)
        <3>1. g[j] = FlattenStep(f, ss, j)
            <4>1. CASE j <= n
                <5>1. j \in 1..n
                    BY <2>1, <4>1
                <5>. QED BY <2>2, <4>1, <5>1 DEF Flattens
            <4>2. CASE ~ (j <= n)
                BY <4>2
            <4>. QED BY <4>1, <4>2
        <3>2. ASSUME j # 1 PROVE g[j - 1] = f[j - 1]
            <4>1. j - 1 \in 1..(n + 1) /\ j - 1 <= n
                BY <2>1, <3>2
            <4>. QED BY <4>1
        <3>. HIDE DEF g
        <3>. QED BY <3>1, <3>2 DEF FlattenStep
    <2>. HIDE DEF g
    <2>4. Flattens(g, ss, n + 1)
        BY <2>3 DEF Flattens
    <2>. QED BY <2>1, <2>4
<1>3. m \in I
    <2>1. I \in SUBSET Nat
        OBVIOUS
    <2>. HIDE DEF I
    <2>2. I = Nat
        BY <1>1, <1>2, <2>1, NaturalsBySteps
    <2>. QED BY <2>2
<1>4. PICK f : Flattens(f, ss, m)
    BY <1>3
<1>. DEFINE g == [j \in 1..m |-> f[j]]
<1>5. ASSUME NEW j \in 1..m PROVE g[j] = FlattenStep(g, ss, j)
    <2>1. g[j] = FlattenStep(f, ss, j)
        BY <1>4 DEF Flattens
    <2>2. ASSUME j # 1 PROVE g[j - 1] = f[j - 1]
        <3>1. j - 1 \in 1..m
            BY <2>2
        <3>. QED BY <3>1
    <2>. HIDE DEF g
    <2>. QED BY <2>1, <2>2 DEF FlattenStep
<1>6. g = [j \in 1..m |-> FlattenStep(g, ss, j)]
    BY <1>5
<1>. QED BY <1>6

LEMMA FlattenUnique ==
    ASSUME NEW ss, NEW tt, NEW m \in Nat, NEW f, NEW g,
           Flattens(f, ss, m), Flattens(g, tt, m), \A j \in 1..m : ss[j] = tt[j]
    PROVE  \A j \in 1..m : f[j] = g[j]
<1>. DEFINE I == {n \in Nat : n \in 1..m => f[n] = g[n]}
<1>1. 0 \in I
    OBVIOUS
<1>2. ASSUME NEW n \in I PROVE n + 1 \in I
    <2>1. SUFFICES ASSUME n + 1 \in 1..m PROVE f[n + 1] = g[n + 1]
        OBVIOUS
    <2>2. f[n + 1] = FlattenStep(f, ss, n + 1) /\ g[n + 1] = FlattenStep(g, tt, n + 1)
        BY <2>1 DEF Flattens
    <2>3. n \in Nat /\ ss[n + 1] = tt[n + 1] /\ (n + 1) - 1 = n
        BY <2>1
    <2>4. CASE n = 0
        BY <2>2, <2>3, <2>4 DEF FlattenStep
    <2>5. CASE n # 0
        <3>1. n \in 1..m /\ n + 1 # 1
            BY <2>1, <2>3, <2>5
        <3>2. f[n] = g[n]
            BY <3>1
        <3>. QED BY <2>2, <2>3, <3>1, <3>2 DEF FlattenStep
    <2>. QED BY <2>4, <2>5
<1>3. I = Nat
    <2>1. I \in SUBSET Nat
        OBVIOUS
    <2>. HIDE DEF I
    <2>. QED BY <1>1, <1>2, <2>1, NaturalsBySteps
<1>4. \A j \in 1..m : j \in I
    <2>. HIDE DEF I
    <2>. QED BY <1>3
<1>. QED BY <1>4

LEMMA LastOfAppend ==
    ASSUME NEW S, NEW s \in Seq(S), s # <<>>
    PROVE  /\ SubSeq(s, 1, Len(s) - 1) \in Seq(S)
           /\ Len(SubSeq(s, 1, Len(s) - 1)) = Len(s) - 1
           /\ s[Len(s)] \in S
           /\ s = Append(SubSeq(s, 1, Len(s) - 1), s[Len(s)])
<1>1. Len(s) \in Nat \ {0}
    BY EmptySeq
<1>. DEFINE u == SubSeq(s, 1, Len(s) - 1)
<1>2. u \in Seq(S) /\ Len(u) = Len(s) - 1 /\ \A j \in 1..(Len(s) - 1) : u[j] = s[j]
    <2>1. \A j \in 1..(Len(s) - 1) : s[j] \in S
        BY <1>1, ElementOfSeq
    <2>2. Len(s) - 1 \in Nat /\ Len(s) - 1 \in Int
        BY <1>1
    <2>. DEFINE n == Len(s) - 1
    <2>3. u = [j \in 1..n |-> s[j]]
        BY <2>2
    <2>. HIDE DEF u
    <2>4. u \in Seq(S) /\ Len(u) = n
        <3>1. u \in [1..n -> S]
            BY <2>1, <2>3
        <3>. QED BY <2>2, <3>1
    <2>5. \A j \in 1..(Len(s) - 1) : u[j] = s[j]
        BY <2>3
    <2>. QED BY <2>4, <2>5
<1>3. s[Len(s)] \in S
    BY <1>1, ElementOfSeq
<1>. HIDE DEF u
<1>4. /\ Append(u, s[Len(s)]) \in Seq(S) /\ Len(Append(u, s[Len(s)])) = Len(s)
      /\ \A j \in 1..Len(s) : Append(u, s[Len(s)])[j] = s[j]
    BY <1>1, <1>2, <1>3, AppendProperties
<1>5. s = Append(u, s[Len(s)])
    BY <1>4, SeqEqual
<1>. QED BY <1>2, <1>3, <1>5 DEF u

LEMMA ConcatThenAppend ==
    ASSUME NEW S, NEW s \in Seq(S), NEW t \in Seq(S), NEW e \in S
    PROVE  s \o Append(t, e) = Append(s \o t, e)
<1>1. Append(t, e) = t \o <<e>> /\ <<e>> \in Seq(S)
    BY AppendIsConcat
<1>2. s \o t \in Seq(S)
    BY ConcatProperties
<1>3. Append(s \o t, e) = (s \o t) \o <<e>>
    BY <1>2, AppendIsConcat
<1>4. (s \o t) \o <<e>> = s \o (t \o <<e>>)
    BY <1>1, ConcatAssociative
<1>. QED BY <1>1, <1>3, <1>4

LEMMA FlattenEmpty == FlattenSeq(<<>>) = <<>>
BY EmptySeq DEF FlattenSeq

LEMMA FlattenFunction ==
    ASSUME NEW ss, Len(ss) \in Nat, Len(ss) # 0
    PROVE  \E f : Flattens(f, ss, Len(ss)) /\ FlattenSeq(ss) = f[Len(ss)]
<1>. DEFINE f == CHOOSE g : g = [j \in 1..Len(ss) |-> FlattenStep(g, ss, j)]
<1>1. FlattenSeq(ss) = f[Len(ss)]
    BY DEF FlattenSeq, FlattenStep
<1>2. f = [j \in 1..Len(ss) |-> FlattenStep(f, ss, j)]
    BY FlattenExists
<1>. HIDE DEF f
<1>3. Flattens(f, ss, Len(ss))
    BY <1>2 DEF Flattens
<1>. QED BY <1>1, <1>3

LEMMA FlattenAppend ==
    ASSUME NEW S, NEW ss \in Seq(Seq(S)), NEW t \in Seq(S)
    PROVE  FlattenSeq(Append(ss, t)) = FlattenSeq(ss) \o t
<1>. DEFINE tt == Append(ss, t)
            m == Len(ss)
<1>1. /\ m \in Nat /\ Len(tt) = m + 1 /\ tt[m + 1] = t
      /\ \A j \in 1..m : tt[j] = ss[j]
    BY AppendProperties
<1>. HIDE DEF tt
<1>2. Len(tt) \in Nat /\ Len(tt) # 0
    BY <1>1
<1>3. PICK g : Flattens(g, tt, Len(tt)) /\ FlattenSeq(tt) = g[Len(tt)]
    BY <1>2, FlattenFunction
<1>4. m + 1 \in 1..Len(tt) /\ \A j \in 1..m : j \in 1..Len(tt)
    BY <1>1
<1>5. g[m + 1] = FlattenStep(g, tt, m + 1) /\ Flattens(g, tt, m)
    BY <1>3, <1>4 DEF Flattens
<1>6. CASE m = 0
    <2>1. ss = <<>>
        BY <1>6, EmptySeq
    <2>2. FlattenSeq(ss) \o t = t
        BY <2>1, FlattenEmpty, ConcatEmptySeq
    <2>3. g[m + 1] = tt[m + 1]
        BY <1>5, <1>6 DEF FlattenStep
    <2>. QED BY <1>1, <1>3, <2>2, <2>3 DEF tt
<1>7. CASE m # 0
    <2>1. PICK h : Flattens(h, ss, m) /\ FlattenSeq(ss) = h[m]
        BY <1>1, <1>7, FlattenFunction
    <2>2. (m + 1) - 1 = m /\ m + 1 # 1 /\ m \in 1..m
        BY <1>1, <1>7
    <2>3. \A j \in 1..m : g[j] = h[j]
        <3>1. m \in Nat /\ \A j \in 1..m : tt[j] = ss[j]
            BY <1>1
        <3>2. Flattens(g, tt, m) /\ Flattens(h, ss, m)
            BY <1>5, <2>1
        <3>. HIDE DEF m
        <3>. QED BY <3>1, <3>2, FlattenUnique, SMTT(30)
    <2>4. g[m + 1] = g[m] \o tt[m + 1]
        BY <1>5, <2>2 DEF FlattenStep
    <2>5. g[m] = h[m]
        BY <2>2, <2>3
    <2>. QED BY <1>1, <1>3, <2>1, <2>4, <2>5 DEF tt
<1>. QED BY <1>6, <1>7

(* FlattenSeq of a sequence of sequences is a sequence, and concatenates.  *)
LEMMA FlattenType ==
    ASSUME NEW S, NEW ss \in Seq(Seq(S))
    PROVE  FlattenSeq(ss) \in Seq(S)
<1>. DEFINE I == {n \in Nat : \A tt \in Seq(Seq(S)) : Len(tt) = n => FlattenSeq(tt) \in Seq(S)}
<1>1. 0 \in I
    <2>1. \A tt \in Seq(Seq(S)) : Len(tt) = 0 => tt = <<>>
        BY EmptySeq
    <2>2. FlattenSeq(<<>>) \in Seq(S)
        BY FlattenEmpty, EmptySeq
    <2>. QED BY <2>1, <2>2
<1>2. ASSUME NEW n \in I PROVE n + 1 \in I
    <2>1. ASSUME NEW tt \in Seq(Seq(S)), Len(tt) = n + 1
          PROVE  FlattenSeq(tt) \in Seq(S)
        <3>1. tt # <<>>
            BY <2>1, EmptySeq
        <3>. DEFINE uu == SubSeq(tt, 1, Len(tt) - 1)
                    t == tt[Len(tt)]
        <3>2. uu \in Seq(Seq(S)) /\ Len(uu) = n /\ t \in Seq(S) /\ tt = Append(uu, t)
            BY <2>1, <3>1, LastOfAppend
        <3>. HIDE DEF uu, t
        <3>3. FlattenSeq(uu) \in Seq(S)
            BY <3>2
        <3>4. FlattenSeq(tt) = FlattenSeq(uu) \o t
            BY <3>2, FlattenAppend
        <3>. QED BY <3>2, <3>3, <3>4, ConcatProperties
    <2>. QED BY <2>1
<1>3. I = Nat
    <2>1. I \in SUBSET Nat
        OBVIOUS
    <2>. HIDE DEF I
    <2>. QED BY <1>1, <1>2, <2>1, NaturalsBySteps
<1>4. Len(ss) \in I
    <2>. HIDE DEF I
    <2>. QED BY <1>3
<1>. QED BY <1>4

Behind(a, b) == a \o b

LEMMA BehindRegroups ==
    ASSUME NEW S, NEW a \in Seq(S), NEW b \in Seq(S), NEW c \in Seq(S)
    PROVE  Behind(Behind(a, b), c) = Behind(a, Behind(b, c))
BY ConcatAssociative DEF Behind

LEMMA FlattenConcat ==
    ASSUME NEW S, NEW ss \in Seq(Seq(S)), NEW tt \in Seq(Seq(S))
    PROVE  FlattenSeq(ss \o tt) = FlattenSeq(ss) \o FlattenSeq(tt)
<1>. DEFINE I == {n \in Nat : \A uu \in Seq(Seq(S)) :
                    Len(uu) = n => FlattenSeq(ss \o uu) = FlattenSeq(ss) \o FlattenSeq(uu)}
<1>0. FlattenSeq(ss) \in Seq(S)
    BY FlattenType
<1>1. 0 \in I
    <2>1. \A uu \in Seq(Seq(S)) : Len(uu) = 0 => uu = <<>>
        BY EmptySeq
    <2>2. FlattenSeq(ss \o <<>>) = FlattenSeq(ss) \o FlattenSeq(<<>>)
        BY <1>0, FlattenEmpty, ConcatEmptySeq
    <2>. QED BY <2>1, <2>2
<1>2. ASSUME NEW n \in I PROVE n + 1 \in I
    <2>1. ASSUME NEW vv \in Seq(Seq(S)), Len(vv) = n + 1
          PROVE  FlattenSeq(ss \o vv) = FlattenSeq(ss) \o FlattenSeq(vv)
        <3>1. vv # <<>>
            BY <2>1, EmptySeq
        <3>. DEFINE uu == SubSeq(vv, 1, Len(vv) - 1)
                    t == vv[Len(vv)]
        <3>2. uu \in Seq(Seq(S)) /\ Len(uu) = n /\ t \in Seq(S) /\ vv = Append(uu, t)
            BY <2>1, <3>1, LastOfAppend
        <3>. HIDE DEF uu, t
        <3>3. FlattenSeq(ss \o uu) = FlattenSeq(ss) \o FlattenSeq(uu)
            BY <3>2
        <3>4. ss \o vv = Append(ss \o uu, t)
            BY <3>2, ConcatThenAppend
        <3>5. ss \o uu \in Seq(Seq(S)) /\ FlattenSeq(uu) \in Seq(S)
            BY <3>2, ConcatProperties, FlattenType
        <3>6. FlattenSeq(ss \o vv) = FlattenSeq(ss \o uu) \o t
            BY <3>2, <3>4, <3>5, FlattenAppend
        <3>7. FlattenSeq(vv) = FlattenSeq(uu) \o t
            BY <3>2, FlattenAppend
        <3>8. (FlattenSeq(ss) \o FlattenSeq(uu)) \o t = FlattenSeq(ss) \o (FlattenSeq(uu) \o t)
            <4>1. FlattenSeq(uu) \in Seq(S)
                BY <3>5
            <4>2. Behind(Behind(FlattenSeq(ss), FlattenSeq(uu)), t)
                    = Behind(FlattenSeq(ss), Behind(FlattenSeq(uu), t))
                BY <1>0, <3>2, <4>1, BehindRegroups
            <4>. QED BY <4>2 DEF Behind
        <3>. QED BY <3>3, <3>6, <3>7, <3>8
    <2>. QED BY <2>1
<1>3. I = Nat
    <2>1. I \in SUBSET Nat
        OBVIOUS
    <2>. HIDE DEF I
    <2>. QED BY <1>1, <1>2, <2>1, NaturalsBySteps
<1>4. Len(tt) \in I
    <2>. HIDE DEF I
    <2>. QED BY <1>3
<1>. QED BY <1>4

-----------------------------------------------------------------------------
(* The text of a request: its segments' texts behind each other.           *)
Item == Value \cup {To, By}
Texts(r) == [k \in 1..Len(r) |-> Text(r[k])]

LEMMA WordsAreNoValues == To \notin Value /\ By \notin Value /\ To # By
BY DEF To, By, Value

LEMMA SegmentParts ==
    ASSUME NEW s \in Segment
    PROVE  /\ s.first \in Value /\ s.last \in Value /\ s.ranged \in BOOLEAN
           /\ s.by \in Seq(Value) /\ Len(s.by) \in {0, 1}
           /\ s.by # <<>> => s.ranged /\ s.by[1] \in Value /\ Len(s.by) = 1
<1>1. /\ s.first \in Value /\ s.last \in Value /\ s.ranged \in BOOLEAN
      /\ s.by \in Seq(Value) /\ Len(s.by) <= IF s.ranged THEN 1 ELSE 0
    BY DEF Segment
<1>. DEFINE by == s.by
<1>2. by \in Seq(Value) /\ Len(by) \in Nat
    BY <1>1
<1>. HIDE DEF by
<1>3. by # <<>> => Len(by) # 0
    BY <1>2, EmptySeq
<1>4. by # <<>> => 1 \in 1..Len(by)
    BY <1>2, <1>3
<1>5. by # <<>> => by[1] \in Value
    BY <1>2, <1>4, ElementOfSeq
<1>6. Len(by) <= IF s.ranged THEN 1 ELSE 0
    BY <1>1 DEF by
<1>7. Len(by) \in {0, 1}
    <2>1. (IF s.ranged THEN 1 ELSE 0) \in {0, 1}
        OBVIOUS
    <2>. DEFINE m == IF s.ranged THEN 1 ELSE 0
    <2>. HIDE DEF m
    <2>2. Len(by) <= m /\ m \in {0, 1}
        BY <1>6, <2>1 DEF m
    <2>. DEFINE n == Len(by)
    <2>3. n \in Nat /\ n <= m
        BY <1>2, <2>2
    <2>. HIDE DEF n
    <2>4. n \in {0, 1}
        BY <2>2, <2>3
    <2>. QED BY <2>4 DEF n
<1>8. by # <<>> => s.ranged /\ Len(by) = 1
    BY <1>1, <1>3, <1>6, <1>7
<1>. QED BY <1>1, <1>5, <1>7, <1>8 DEF by

LEMMA TextType ==
    ASSUME NEW s \in Segment
    PROVE  /\ Text(s) \in Seq(Item)
           /\ ~ s.ranged => Text(s) = <<s.first>> /\ Len(Text(s)) = 1
           /\ s.ranged /\ s.by = <<>> =>
                Text(s) = <<s.first, To, s.last>> /\ Len(Text(s)) = 3
           /\ s.ranged /\ s.by # <<>> =>
                Text(s) = <<s.first, To, s.last, By, s.by[1]>> /\ Len(Text(s)) = 5
           /\ Len(Text(s)) >= 1 /\ Text(s)[1] = s.first
<1>1. /\ s.first \in Value /\ s.last \in Value /\ s.ranged \in BOOLEAN
      /\ s.by # <<>> => s.by[1] \in Value
    BY SegmentParts
<1>2. s.first \in Item /\ s.last \in Item /\ To \in Item /\ By \in Item
      /\ (s.by # <<>> => s.by[1] \in Item)
    BY <1>1 DEF Item
<1>3. CASE ~ s.ranged
    <2>1. Text(s) = <<s.first>>
        BY <1>3 DEF Text
    <2>2. <<s.first>> \in Seq(Item)
        BY <1>2
    <2>. QED BY <1>3, <2>1, <2>2
<1>4. CASE s.ranged /\ s.by = <<>>
    <2>1. Text(s) = <<s.first, To, s.last>>
        BY <1>4 DEF Text
    <2>2. <<s.first, To, s.last>> \in Seq(Item)
        BY <1>2
    <2>. QED BY <1>4, <2>1, <2>2
<1>5. CASE s.ranged /\ s.by # <<>>
    <2>1. Text(s) = <<s.first, To, s.last, By, s.by[1]>>
        BY <1>5 DEF Text
    <2>2. <<s.first, To, s.last, By, s.by[1]>> \in Seq(Item)
        BY <1>2, <1>5
    <2>. QED BY <1>5, <2>1, <2>2
<1>. QED BY <1>1, <1>3, <1>4, <1>5

LEMMA TextsType ==
    ASSUME NEW r \in Seq(Segment)
    PROVE  /\ Texts(r) \in Seq(Seq(Item)) /\ Len(Texts(r)) = Len(r)
           /\ TextOf(r) = FlattenSeq(Texts(r)) /\ TextOf(r) \in Seq(Item)
           /\ Len(TextOf(r)) \in Nat
<1>1. Len(r) \in Nat /\ DOMAIN r = 1..Len(r)
    OBVIOUS
<1>2. \A k \in 1..Len(r) : Text(r[k]) \in Seq(Item)
    BY TextType, ElementOfSeq
<1>3. Texts(r) \in [1..Len(r) -> Seq(Item)]
    BY <1>2 DEF Texts
<1>4. Texts(r) \in Seq(Seq(Item)) /\ Len(Texts(r)) = Len(r)
    BY <1>1, <1>3
<1>5. TextOf(r) = FlattenSeq(Texts(r))
    BY <1>1 DEF TextOf, Texts
<1>6. FlattenSeq(Texts(r)) \in Seq(Item)
    BY <1>4, FlattenType
<1>. QED BY <1>4, <1>5, <1>6

LEMMA TextOfConcat ==
    ASSUME NEW q \in Seq(Segment), NEW r \in Seq(Segment)
    PROVE  TextOf(q \o r) = TextOf(q) \o TextOf(r)
<1>1. /\ q \o r \in Seq(Segment) /\ Len(q \o r) = Len(q) + Len(r)
      /\ \A k \in 1..(Len(q) + Len(r)) :
            (q \o r)[k] = IF k <= Len(q) THEN q[k] ELSE r[k - Len(q)]
    BY ConcatProperties
<1>2. /\ Texts(q) \in Seq(Seq(Item)) /\ Len(Texts(q)) = Len(q)
      /\ Texts(r) \in Seq(Seq(Item)) /\ Len(Texts(r)) = Len(r)
    BY TextsType
<1>3. /\ Texts(q) \o Texts(r) \in Seq(Seq(Item))
      /\ Len(Texts(q) \o Texts(r)) = Len(q) + Len(r)
      /\ \A k \in 1..(Len(q) + Len(r)) :
            (Texts(q) \o Texts(r))[k] =
                IF k <= Len(q) THEN Texts(q)[k] ELSE Texts(r)[k - Len(q)]
    <2>. DEFINE a == Texts(q)
                b == Texts(r)
    <2>1. a \in Seq(Seq(Item)) /\ b \in Seq(Seq(Item)) /\ Len(a) = Len(q) /\ Len(b) = Len(r)
        BY <1>2
    <2>. HIDE DEF a, b
    <2>2. /\ a \o b \in Seq(Seq(Item)) /\ Len(a \o b) = Len(a) + Len(b)
          /\ \A k \in 1..(Len(a) + Len(b)) :
                (a \o b)[k] = IF k <= Len(a) THEN a[k] ELSE b[k - Len(a)]
        BY <2>1, ConcatProperties
    <2>. QED BY <2>1, <2>2 DEF a, b
<1>4. Texts(q \o r) \in Seq(Seq(Item)) /\ Len(Texts(q \o r)) = Len(q) + Len(r)
    BY <1>1, TextsType
<1>5. Len(q) \in Nat /\ Len(r) \in Nat
    OBVIOUS
<1>6. ASSUME NEW k \in 1..(Len(q) + Len(r))
      PROVE  Texts(q \o r)[k] = (Texts(q) \o Texts(r))[k]
    <2>1. Texts(q \o r)[k] = Text((q \o r)[k])
        BY <1>1 DEF Texts
    <2>2. CASE k <= Len(q)
        <3>1. k \in 1..Len(q)
            BY <1>5, <2>2
        <3>2. Texts(q)[k] = Text(q[k])
            BY <3>1 DEF Texts
        <3>. QED BY <1>1, <1>3, <2>1, <2>2, <3>2
    <2>3. CASE ~ (k <= Len(q))
        <3>1. k - Len(q) \in 1..Len(r)
            BY <1>5, <2>3
        <3>2. Texts(r)[k - Len(q)] = Text(r[k - Len(q)])
            BY <3>1 DEF Texts
        <3>. QED BY <1>1, <1>3, <2>1, <2>3, <3>2
    <2>. QED BY <2>2, <2>3
<1>7. Texts(q \o r) = Texts(q) \o Texts(r)
    BY <1>3, <1>4, <1>6, SeqEqual
<1>8. FlattenSeq(Texts(q) \o Texts(r)) = FlattenSeq(Texts(q)) \o FlattenSeq(Texts(r))
    BY <1>2, FlattenConcat
<1>. QED BY <1>1, <1>7, <1>8, TextsType

LEMMA TextOfOne ==
    ASSUME NEW s \in Segment
    PROVE  TextOf(<<s>>) = Text(s)
<1>1. <<s>> \in Seq(Segment) /\ Len(<<s>>) = 1 /\ <<s>>[1] = s
    OBVIOUS
<1>2. Text(s) \in Seq(Item)
    BY TextType
<1>3. Texts(<<s>>) = <<Text(s)>>
    BY <1>1 DEF Texts
<1>4. <<Text(s)>> = Append(<<>>, Text(s)) /\ <<>> \in Seq(Seq(Item))
    OBVIOUS
<1>5. FlattenSeq(<<Text(s)>>) = FlattenSeq(<<>>) \o Text(s)
    BY <1>2, <1>4, FlattenAppend
<1>6. FlattenSeq(<<>>) \o Text(s) = Text(s)
    BY <1>2, FlattenEmpty, ConcatEmptySeq
<1>. QED BY <1>1, <1>3, <1>5, <1>6, TextsType

(* The text up to segment k, that segment's, and the text behind it.       *)
LEMMA TextSplit ==
    ASSUME NEW r \in Seq(Segment), NEW k \in 0..(Len(r) - 1)
    PROVE  /\ SubSeq(r, 1, k) \in Seq(Segment) /\ SubSeq(r, k + 2, Len(r)) \in Seq(Segment)
           /\ r[k + 1] \in Segment
           /\ TextOf(SubSeq(r, 1, k + 1)) = TextOf(SubSeq(r, 1, k)) \o Text(r[k + 1])
           /\ TextOf(r) = TextOf(SubSeq(r, 1, k + 1)) \o TextOf(SubSeq(r, k + 2, Len(r)))
<1>1. Len(r) \in Nat /\ k \in Nat /\ k + 1 \in 1..Len(r) /\ k <= Len(r)
    OBVIOUS
<1>2. r[k + 1] \in Segment
    BY <1>1, ElementOfSeq
<1>3. SubSeq(r, 1, k) \in Seq(Segment) /\ SubSeq(r, 1, k + 1) \in Seq(Segment)
      /\ SubSeq(r, k + 2, Len(r)) \in Seq(Segment)
    <2>1. \A j \in 1..Len(r) : r[j] \in Segment
        BY ElementOfSeq
    <2>2. \A m \in 1..(Len(r) + 1), n \in 0..Len(r) : SubSeq(r, m, n) \in Seq(Segment)
        BY <1>1, SubSeqProperties
    <2>. QED BY <1>1, <2>2
<1>4. SubSeq(r, 1, k) \o SubSeq(r, k + 1, k + 1) = SubSeq(r, 1, k + 1)
    BY <1>1, ConcatAdjacentSubSeq
<1>5. SubSeq(r, k + 1, k + 1) = <<r[k + 1]>>
    <2>. DEFINE u == SubSeq(r, k + 1, k + 1)
    <2>. DEFINE m == k + 1
    <2>1. m \in Int /\ \A j \in m..m : r[j] \in Segment
        BY <1>1, <1>2
    <2>. HIDE DEF m
    <2>2. /\ SubSeq(r, m, m) \in Seq(Segment)
          /\ Len(SubSeq(r, m, m)) = IF m <= m THEN m - m + 1 ELSE 0
          /\ \A j \in 1..(m - m + 1) : SubSeq(r, m, m)[j] = r[m + j - 1]
        BY <2>1, SubSeqProperties
    <2>3. m <= m /\ m - m + 1 = 1 /\ m + 1 - 1 = m /\ 1 \in 1..1 /\ \A j \in 1..1 : j = 1
        BY <2>1
    <2>. DEFINE v == SubSeq(r, m, m)
                w == <<r[m]>>
    <2>4. v \in Seq(Segment) /\ Len(v) = 1 /\ v[1] = r[m]
        BY <2>2, <2>3
    <2>5. w \in Seq(Segment) /\ Len(w) = 1 /\ w[1] = r[m]
        BY <1>2 DEF m
    <2>. HIDE DEF v, w
    <2>6. v = w
        BY <2>3, <2>4, <2>5, SeqEqual
    <2>. QED BY <2>6 DEF u, v, w, m
<1>6. SubSeq(r, 1, k + 1) \o SubSeq(r, k + 2, Len(r)) = r
    <2>. DEFINE m == k + 1
    <2>1. m \in 1..Len(r) /\ m + 1 = k + 2
        BY <1>1
    <2>. HIDE DEF m
    <2>2. SubSeq(r, 1, m) \o SubSeq(r, m + 1, Len(r)) = SubSeq(r, 1, Len(r))
        BY <1>1, <2>1, ConcatAdjacentSubSeq
    <2>3. SubSeq(r, 1, Len(r)) = r
        BY <1>1, SubSeqFull
    <2>. QED BY <2>1, <2>2, <2>3 DEF m
<1>8. TextOf(SubSeq(r, 1, k + 1)) = TextOf(SubSeq(r, 1, k)) \o Text(r[k + 1])
    <2>1. <<r[k + 1]>> \in Seq(Segment)
        BY <1>2
    <2>2. TextOf(SubSeq(r, 1, k) \o <<r[k + 1]>>) = TextOf(SubSeq(r, 1, k)) \o TextOf(<<r[k + 1]>>)
        BY <1>3, <2>1, TextOfConcat
    <2>. QED BY <1>2, <1>4, <1>5, <2>2, TextOfOne
<1>9. TextOf(r) = TextOf(SubSeq(r, 1, k + 1)) \o TextOf(SubSeq(r, k + 2, Len(r)))
    BY <1>3, <1>6, TextOfConcat
<1>. QED BY <1>2, <1>3, <1>8, <1>9

(* A text that is not empty starts with a value.                           *)
LEMMA TextStarts ==
    ASSUME NEW r \in Seq(Segment), TextOf(r) # <<>>
    PROVE  TextOf(r)[1] \in Value /\ Len(TextOf(r)) >= 1
<1>1. r # <<>>
    <2>1. SUFFICES ASSUME r = <<>> PROVE FALSE
        OBVIOUS
    <2>2. Texts(<<>>) = <<>>
        BY DEF Texts
    <2>. QED BY <2>1, <2>2, FlattenEmpty, TextsType
<1>2. Len(r) \in Nat /\ 0 \in 0..(Len(r) - 1)
    BY <1>1, EmptySeq
<1>. DEFINE t == Text(r[1])
            rest == TextOf(SubSeq(r, 2, Len(r)))
            head == TextOf(SubSeq(r, 1, 0))
<1>3. /\ r[1] \in Segment /\ SubSeq(r, 2, Len(r)) \in Seq(Segment)
      /\ TextOf(r) = (head \o t) \o rest
    <2>1. 0 + 1 = 1 /\ 0 + 2 = 2
        OBVIOUS
    <2>2. /\ r[0 + 1] \in Segment /\ SubSeq(r, 0 + 2, Len(r)) \in Seq(Segment)
          /\ TextOf(SubSeq(r, 1, 0 + 1)) = TextOf(SubSeq(r, 1, 0)) \o Text(r[0 + 1])
          /\ TextOf(r) = TextOf(SubSeq(r, 1, 0 + 1)) \o TextOf(SubSeq(r, 0 + 2, Len(r)))
        BY <1>2, TextSplit
    <2>. QED BY <2>1, <2>2
<1>4. head = <<>>
    <2>1. SubSeq(r, 1, 0) = <<>> /\ <<>> \in Seq(Segment)
        OBVIOUS
    <2>2. Texts(<<>>) = <<>>
        BY DEF Texts
    <2>. QED BY <2>1, <2>2, FlattenEmpty, TextsType
<1>5. /\ t \in Seq(Item) /\ Len(t) >= 1 /\ t[1] = r[1].first /\ r[1].first \in Value
      /\ rest \in Seq(Item)
    BY <1>3, TextType, TextsType, SegmentParts
<1>. HIDE DEF t, rest, head
<1>6. head \o t = t
    BY <1>4, <1>5, ConcatEmptySeq
<1>7. TextOf(r) = t \o rest
    BY <1>3, <1>6
<1>8. Len(t \o rest) = Len(t) + Len(rest) /\ (t \o rest)[1] = t[1]
    BY <1>5, ConcatProperties
<1>9. Len(t) \in Nat /\ Len(rest) \in Nat
    BY <1>5
<1>. QED BY <1>5, <1>7, <1>8, <1>9

-----------------------------------------------------------------------------
(* A range's numbers: the ones that so many steps from its first reach     *)
(* before they pass its last.                                              *)
LEMMA QuotientBound ==
    ASSUME NEW d \in Nat, NEW s \in Nat \ {0}, NEW k \in Nat
    PROVE  d \div s \in Nat /\ (k <= d \div s <=> s * k <= d)
<1>. DEFINE q == d \div s
<1>1. q \in Nat /\ s * q <= d /\ d < s * q + s
    <2>1. q \in Int /\ s * q <= d /\ d < s * (q + 1)
        OBVIOUS
    <2>2. s * (q + 1) = s * q + s
        BY <2>1
    <2>3. q >= 0
        OBVIOUS
    <2>. QED BY <2>1, <2>2, <2>3
<1>. HIDE DEF q
<1>2. ASSUME k <= q PROVE s * k <= d
    <2>1. s * k <= s * q
        BY <1>1, <1>2
    <2>2. s * k \in Int /\ s * q \in Int
        BY <1>1
    <2>. QED BY <1>1, <2>1, <2>2
<1>3. ASSUME ~ (k <= q) PROVE ~ (s * k <= d)
    <2>1. q + 1 <= k
        BY <1>1, <1>3
    <2>2. s * (q + 1) <= s * k
        BY <1>1, <2>1
    <2>3. s * (q + 1) = s * q + s
        BY <1>1
    <2>4. s * k \in Int /\ s * q \in Int
        BY <1>1
    <2>. QED BY <1>1, <2>2, <2>3, <2>4
<1>. QED BY <1>1, <1>2, <1>3 DEF q

LEMMA SignsAgree ==
    ASSUME NEW d \in Int, NEW s \in Int, s # 0, d * s >= 0
    PROVE  (s > 0 /\ d >= 0) \/ (s < 0 /\ d <= 0)
<1>1. ASSUME s > 0, d < 0 PROVE FALSE
    BY <1>1
<1>2. ASSUME s < 0, d > 0 PROVE FALSE
    BY <1>2
<1>. QED BY <1>1, <1>2

LEMMA StepsWithin ==
    ASSUME NEW a \in Int, NEW b \in Int, NEW s \in Int, s # 0, (b - a) * s >= 0,
           NEW k \in Nat
    PROVE  /\ FloorDiv(b - a, s) \in Nat
           /\ k <= FloorDiv(b - a, s) <=> a + s * k \in Between(a, b)
<1>. DEFINE d == b - a
<1>1. d \in Int /\ b = a + d
    OBVIOUS
<1>2. (s > 0 /\ d >= 0) \/ (s < 0 /\ d <= 0)
    BY <1>1, SignsAgree
<1>. DEFINE m == s * k
<1>3. m \in Int
    OBVIOUS
<1>4. CASE s > 0 /\ d >= 0
    <2>1. d \in Nat /\ s \in Nat \ {0} /\ FloorDiv(d, s) = d \div s
        BY <1>1, <1>4 DEF FloorDiv
    <2>2. m >= 0
        BY <1>4
    <2>3. FloorDiv(d, s) \in Nat /\ (k <= FloorDiv(d, s) <=> m <= d)
        BY <2>1, QuotientBound
    <2>. HIDE DEF d, m
    <2>4. m <= d <=> a + m \in Between(a, b)
        BY <1>1, <1>3, <1>4, <2>2 DEF Between
    <2>. QED BY <2>3, <2>4 DEF d, m
<1>5. CASE s < 0 /\ d <= 0
    <2>1. (- d) \in Nat /\ (- s) \in Nat \ {0} /\ FloorDiv(d, s) = (- d) \div (- s)
        BY <1>1, <1>5 DEF FloorDiv
    <2>2. m <= 0 /\ (- s) * k = - m
        BY <1>5
    <2>3. FloorDiv(d, s) \in Nat /\ (k <= FloorDiv(d, s) <=> (- s) * k <= - d)
        BY <2>1, QuotientBound
    <2>4. k <= FloorDiv(d, s) <=> - m <= - d
        BY <2>2, <2>3
    <2>. HIDE DEF d, m
    <2>5. - m <= - d <=> a + m \in Between(a, b)
        BY <1>1, <1>3, <1>5, <2>2 DEF Between
    <2>. QED BY <2>3, <2>4, <2>5 DEF d, m
<1>. QED BY <1>2, <1>4, <1>5

LEMMA BetweenScaled ==
    ASSUME NEW a \in Int, NEW b \in Int, NEW x \in Int, NEW c \in Nat \ {0}
    PROVE  c * x \in Between(c * a, c * b) <=> x \in Between(a, b)
<1>1. \A y, z \in Int : c * y <= c * z <=> y <= z
    <2>1. ASSUME NEW y \in Int, NEW z \in Int, y <= z PROVE c * y <= c * z
        BY <2>1
    <2>2. ASSUME NEW y \in Int, NEW z \in Int, ~ (y <= z) PROVE ~ (c * y <= c * z)
        BY <2>2
    <2>. QED BY <2>1, <2>2
<1>2. c * a \in Int /\ c * b \in Int /\ c * x \in Int
    OBVIOUS
<1>3. (c * a <= c * b <=> a <= b) /\ (c * a <= c * x <=> a <= x) /\ (c * x <= c * b <=> x <= b)
      /\ (c * b <= c * x <=> b <= x) /\ (c * x <= c * a <=> x <= a)
    BY <1>1
<1>. DEFINE ca == c * a
            cb == c * b
            cx == c * x
<1>4. /\ ca \in Int /\ cb \in Int /\ cx \in Int
      /\ (ca <= cb <=> a <= b) /\ (ca <= cx <=> a <= x) /\ (cx <= cb <=> x <= b)
      /\ (cb <= cx <=> b <= x) /\ (cx <= ca <=> x <= a)
    BY <1>2, <1>3
<1>. HIDE DEF ca, cb, cx
<1>5. cx \in Between(ca, cb) <=> x \in Between(a, b)
    BY <1>4 DEF Between
<1>. QED BY <1>5 DEF ca, cb, cx

(* So many steps fit: no more than there are numbers between the ends.     *)
LEMMA FewerSteps ==
    ASSUME NEW a \in Int, NEW b \in Int, NEW s \in Int, s # 0, NEW k \in Nat,
           a + s * k \in Between(a, b)
    PROVE  k \in 0..Cardinality(Between(a, b))
<1>. DEFINE m == s * k
<1>1. m \in Int /\ (m >= k \/ m <= - k)
    <2>1. CASE s >= 1
        BY <2>1
    <2>2. CASE s <= - 1
        BY <2>2
    <2>. QED BY <2>1, <2>2
<1>. HIDE DEF m
<1>2. CASE a <= b
    <2>1. Between(a, b) = a..b /\ a..b # {}
        BY <1>2 DEF Between
    <2>2. Cardinality(a..b) = b - a + 1
        BY <1>2, FS_Interval
    <2>3. a <= a + m /\ a + m <= b
        BY <1>1, <2>1 DEF m
    <2>. QED BY <1>1, <2>1, <2>2, <2>3
<1>3. CASE ~ (a <= b)
    <2>1. Between(a, b) = b..a
        BY <1>3 DEF Between
    <2>2. Cardinality(b..a) = a - b + 1
        BY <1>3, FS_Interval
    <2>3. b <= a + m /\ a + m <= a
        BY <1>1, <2>1 DEF m
    <2>. QED BY <1>1, <2>1, <2>2, <2>3
<1>. QED BY <1>2, <1>3

Reached(first, last, size) ==
    {m \in Between(first, last) :
        \E k \in 0..Cardinality(Between(first, last)) : m = first + k * size}
Stepped(a, b, s, c) == {c * (a + s * (j - 1)) : j \in 1..(FloorDiv(b - a, s) + 1)}

LEMMA NumbersMeant ==
    ASSUME NEW a \in Int, NEW b \in Int, NEW s \in Int, s # 0, (b - a) * s >= 0,
           NEW c \in Nat \ {0}
    PROVE  Reached(c * a, c * b, c * s) = Stepped(a, b, s, c)
<1>. DEFINE first == c * a
            last == c * b
            size == c * s
            q == FloorDiv(b - a, s)
            M == {m \in Between(first, last) :
                    \E k \in 0..Cardinality(Between(first, last)) : m = first + k * size}
            N == {c * (a + s * (j - 1)) : j \in 1..(q + 1)}
<1>1. /\ q \in Nat
      /\ \A k \in Nat : k <= q <=> a + s * k \in Between(a, b)
    <2>1. 0 \in Nat
        OBVIOUS
    <2>. QED BY <2>1, StepsWithin
<1>2. \A k \in Int : first + k * size = c * (a + s * k)
    <2>1. ASSUME NEW k \in Int PROVE first + k * size = c * (a + s * k)
        <3>1. k * (c * s) = c * (s * k)
            <4>1. c \in Int /\ s \in Int
                OBVIOUS
            <4>2. k * (c * s) = (c * s) * k
                BY <4>1
            <4>3. (c * s) * k = c * (s * k)
                BY <4>1
            <4>. QED BY <4>2, <4>3
        <3>2. c * (a + s * k) = c * a + c * (s * k)
            <4>. DEFINE sk == s * k
            <4>1. sk \in Int
                OBVIOUS
            <4>. HIDE DEF sk
            <4>2. c * (a + sk) = c * a + c * sk
                BY <4>1
            <4>. QED BY <4>2 DEF sk
        <3>. QED BY <3>1, <3>2
    <2>. QED BY <2>1
<1>. HIDE DEF q
<1>3. ASSUME NEW m \in M PROVE m \in N
    <2>1. PICK k \in 0..Cardinality(Between(first, last)) : m = first + k * size
        OBVIOUS
    <2>2. m \in Between(first, last)
        OBVIOUS
    <2>. HIDE DEF M
    <2>3. k \in Int /\ k >= 0
        OBVIOUS
    <2>4. k \in Nat
        BY <2>3
    <2>. DEFINE x == a + s * k
    <2>5. x \in Int /\ m = c * x
        BY <1>2, <2>1, <2>3
    <2>6. x \in Between(a, b)
        <3>. HIDE DEF x
        <3>1. c * x \in Between(c * a, c * b)
            BY <2>2, <2>5
        <3>. QED BY <2>5, <3>1, BetweenScaled
    <2>7. k <= q
        BY <1>1, <2>4, <2>6
    <2>. DEFINE j == k + 1
    <2>8. j \in 1..(q + 1) /\ j - 1 = k
        BY <1>1, <2>4, <2>7
    <2>. HIDE DEF j
    <2>. QED BY <2>5, <2>8
<1>4. ASSUME NEW m \in N PROVE m \in M
    <2>1. PICK j \in 1..(q + 1) : m = c * (a + s * (j - 1))
        OBVIOUS
    <2>. HIDE DEF N
    <2>. DEFINE k == j - 1
    <2>2. k \in Nat /\ k <= q
        BY <1>1
    <2>3. m = c * (a + s * k)
        BY <2>1
    <2>. HIDE DEF k
    <2>. DEFINE x == a + s * k
    <2>4. x \in Int /\ x \in Between(a, b) /\ m = c * x
        <3>1. x \in Int
            BY <2>2
        <3>2. x \in Between(a, b)
            BY <1>1, <2>2
        <3>. QED BY <2>3, <3>1, <3>2
    <2>5. c * x \in Between(c * a, c * b)
        <3>. HIDE DEF x
        <3>. QED BY <2>4, BetweenScaled
    <2>6. m = first + k * size
        BY <1>2, <2>2, <2>3
    <2>7. m \in Between(first, last)
        BY <2>4, <2>5
    <2>8. k \in 0..Cardinality(Between(first, last))
        <3>1. size \in Int /\ size # 0
            <4>1. c >= 1
                OBVIOUS
            <4>2. CASE s >= 1
                BY <4>1, <4>2
            <4>3. CASE s <= - 1
                <5>1. c * s <= - 1
                    BY <4>1, <4>3
                <5>. QED BY <5>1
            <4>. QED BY <4>2, <4>3
        <3>2. first \in Int /\ last \in Int
            OBVIOUS
        <3>3. k * size = size * k
            BY <2>2, <3>1
        <3>4. first + size * k \in Between(first, last)
            BY <2>6, <2>7, <3>3
        <3>. HIDE DEF x
        <3>. QED BY <2>2, <3>1, <3>2, <3>4, FewerSteps
    <2>. QED BY <2>6, <2>7, <2>8
<1>. HIDE DEF M, N
<1>5. M = N
    BY <1>3, <1>4
<1>. QED BY <1>5 DEF M, N, q, first, last, size, Reached, Stepped

StepOf(s) == IF s.by = <<>> THEN One ELSE s.by[1]
ExpansionOf(s) == RangeOf(s.first, s.last, StepOf(s))

(* What the fallback makes of a range of numbers or of dates.              *)
LEMMA RangeMeans ==
    ASSUME NEW s \in Segment, s.ranged, Readable(s)
    PROVE  /\ ExpansionOf(s) \in Seq(Value) /\ ExpansionOf(s) # <<>>
           /\ MeaningOf(ExpansionOf(s)) = Meaning(s)
<1>. DEFINE a == s.first.n
            b == s.last.n
            t == StepOf(s).n
            unit == s.first.unit
            c == IF unit = "d" THEN 1 ELSE Scale
            q == FloorDiv(b - a, t)
<1>1. /\ s.first \in Value /\ s.last \in Value /\ (s.by # <<>> => s.by[1] \in Value)
    BY SegmentParts
<1>2. StepOf(s) \in Value /\ StepOf(s).unit = ""
    <2>1. One \in Value /\ One.unit = ""
        BY DEF One, Value
    <2>2. s.by # <<>> => s.by[1].unit = ""
        BY DEF Readable
    <2>. QED BY <1>1, <2>1, <2>2 DEF StepOf
<1>3. a \in Int /\ b \in Int /\ t \in Int
    BY <1>1, <1>2 DEF Value
<1>4. unit \in {"", "d"} /\ s.last.unit = unit
    BY DEF Readable
<1>5. t # 0 /\ (b - a) * t >= 0
    <2>1. CASE s.by = <<>>
        <3>1. t = 1
            BY <2>1 DEF StepOf, One
        <3>2. (b - a) * 1 >= 0
            BY <2>1 DEF Readable
        <3>. QED BY <3>1, <3>2
    <2>2. CASE s.by # <<>>
        <3>1. t = s.by[1].n
            BY <2>2 DEF StepOf
        <3>2. (b - a) * s.by[1].n >= 0 /\ s.by[1].n # 0
            BY <2>2 DEF Readable
        <3>. QED BY <3>1, <3>2
    <2>. QED BY <2>1, <2>2
<1>6. c \in Nat \ {0}
    BY ExpandAssumption
<1>7. q \in Nat
    <2>1. 0 \in Nat
        OBVIOUS
    <2>. HIDE DEF a, b, t
    <2>. QED BY <1>3, <1>5, <2>1, StepsWithin
<1>8. Number(StepOf(s)) = t
    BY <1>2 DEF Number
<1>9. ExpansionOf(s) = Items(unit, Steps(a, b, t))
    <2>1. IsInteger(s.first) /\ IsInteger(s.last) /\ IsInteger(StepOf(s))
        BY <1>2, <1>4 DEF IsInteger
    <2>2. CASE unit = "d"
        BY <1>4, <1>5, <1>8, <2>1, <2>2 DEF ExpansionOf, RangeOf
    <2>3. CASE unit = ""
        <3>1. Number(s.first) = a /\ Number(s.last) = b
            BY <1>4, <2>3 DEF Number
        <3>. QED BY <1>4, <1>5, <1>8, <2>1, <2>3, <3>1 DEF ExpansionOf, RangeOf
    <2>. QED BY <1>4, <2>2, <2>3
<1>10. ExpansionOf(s) = [k \in 1..(q + 1) |-> [unit |-> unit, n |-> a + t * (k - 1)]]
    BY <1>9 DEF Items, Steps
<1>. DEFINE x == ExpansionOf(s)
<1>11. x \in Seq(Value) /\ x # <<>> /\ DOMAIN x = 1..(q + 1)
    <2>. HIDE DEF a, b, t, unit, q
    <2>1. \A k \in 1..(q + 1) : [unit |-> unit, n |-> a + t * (k - 1)] \in Value
        <3>1. ASSUME NEW k \in 1..(q + 1) PROVE a + t * (k - 1) \in Int
            BY <1>3, <1>7
        <3>. QED BY <1>4, <3>1 DEF Value
    <2>2. x \in [1..(q + 1) -> Value]
        BY <1>10, <2>1
    <2>. HIDE DEF x
    <2>3. q + 1 \in Nat /\ q + 1 # 0
        BY <1>7
    <2>4. x \in Seq(Value) /\ Len(x) = q + 1
        BY <2>2, <2>3
    <2>5. x # <<>>
        BY <2>3, <2>4, EmptySeq
    <2>. QED BY <2>2, <2>4, <2>5
<1>. DEFINE kind == IF unit = "d" THEN "d" ELSE "m"
            N == {c * (a + t * (j - 1)) : j \in 1..(q + 1)}
<1>12. MeaningOf(x) = {[unit |-> kind, n |-> m] : m \in N}
    <2>1. \A k \in 1..(q + 1) :
            Canonical(x[k]) = [unit |-> kind, n |-> c * (a + t * (k - 1))]
        <3>1. ASSUME NEW k \in 1..(q + 1)
              PROVE  Canonical(x[k]) = [unit |-> kind, n |-> c * (a + t * (k - 1))]
            <4>. HIDE DEF a, b, t, unit, q
            <4>. DEFINE m == a + t * (k - 1)
            <4>1. m \in Int
                BY <1>3, <1>7
            <4>2. x[k] = [unit |-> unit, n |-> m]
                BY <1>10
            <4>3a. Canonical([unit |-> unit, n |-> m])
                    = [unit |-> IF unit = "d" THEN "d" ELSE "m",
                       n |-> IF unit = "" THEN Scale * m ELSE m]
                BY DEF Canonical
            <4>. HIDE DEF m, x
            <4>3. ASSUME unit = "d" PROVE kind = "d" /\ c * m = m
                BY <4>1, <4>3
            <4>4. ASSUME unit = "" PROVE kind = "m" /\ c * m = Scale * m
                BY <4>4
            <4>5. Canonical(x[k]) = [unit |-> kind, n |-> c * m]
                <5>. HIDE DEF kind, c
                <5>. QED BY <1>4, <4>2, <4>3a, <4>3, <4>4
            <4>. QED BY <4>5 DEF m
        <3>. QED BY <3>1
    <2>2. Range(x) = {x[k] : k \in 1..(q + 1)}
        BY <1>11 DEF Range
    <2>. DEFINE f(k) == c * (a + t * (k - 1))
    <2>3. \A k \in 1..(q + 1) : Canonical(x[k]) = [unit |-> kind, n |-> f(k)]
        BY <2>1
    <2>4. N = {f(k) : k \in 1..(q + 1)}
        OBVIOUS
    <2>. HIDE DEF x, f, q, kind, N
    <2>5. MeaningOf(x) = {Canonical(x[k]) : k \in 1..(q + 1)}
        BY <2>2 DEF MeaningOf
    <2>6. {Canonical(x[k]) : k \in 1..(q + 1)} = {[unit |-> kind, n |-> f(k)] : k \in 1..(q + 1)}
        BY <2>3
    <2>. QED BY <2>4, <2>5, <2>6
<1>13. Canonical(s.first) = [unit |-> kind, n |-> c * a]
       /\ Canonical(s.last).n = c * b /\ Size(s) = c * t
    <2>1. CASE unit = "d"
        <3>1. 1 * a = a /\ 1 * b = b /\ 1 * t = t
            BY <1>3
        <3>. QED BY <1>2, <1>4, <2>1, <3>1 DEF Canonical, Size, StepOf, One
    <2>2. CASE unit = ""
        <3>1. Scale * 1 = Scale
            BY ExpandAssumption
        <3>. QED BY <1>2, <1>4, <2>2, <3>1 DEF Canonical, Size, StepOf, One
    <2>. QED BY <1>4, <2>1, <2>2
<1>14. Meaning(s) = {[unit |-> kind, n |-> m] : m \in N}
    <2>. DEFINE first == c * a
                last == c * b
                size == Size(s)
                M == {m \in Between(first, last) :
                        \E k \in 0..Cardinality(Between(first, last)) : m = first + k * size}
    <2>1. Meaning(s) = {[unit |-> kind, n |-> m] : m \in M}
        BY <1>13 DEF Meaning
    <2>2. M = Reached(first, last, size) /\ N = Stepped(a, b, t, c)
        BY DEF Reached, Stepped
    <2>3. size = c * t
        BY <1>13
    <2>4. Reached(first, last, size) = Stepped(a, b, t, c)
        <3>. HIDE DEF a, b, t, c, size
        <3>1. Reached(c * a, c * b, c * t) = Stepped(a, b, t, c)
            BY <1>3, <1>5, <1>6, NumbersMeant
        <3>. QED BY <2>3, <3>1
    <2>. HIDE DEF M, N
    <2>5. M = N
        BY <2>2, <2>4
    <2>. QED BY <2>1, <2>5
<1>. QED BY <1>11, <1>12, <1>14

-----------------------------------------------------------------------------
(* Values behind each other mean what both mean.                           *)
LEMMA MeaningOfConcat ==
    ASSUME NEW u \in Seq(Value), NEW v \in Seq(Value)
    PROVE  u \o v \in Seq(Value) /\ MeaningOf(u \o v) = MeaningOf(u) \cup MeaningOf(v)
<1>1. /\ u \o v \in Seq(Value) /\ Len(u \o v) = Len(u) + Len(v)
      /\ \A k \in 1..(Len(u) + Len(v)) :
            (u \o v)[k] = IF k <= Len(u) THEN u[k] ELSE v[k - Len(u)]
    BY ConcatProperties
<1>2. /\ Len(u) \in Nat /\ Len(v) \in Nat
      /\ DOMAIN u = 1..Len(u) /\ DOMAIN v = 1..Len(v) /\ DOMAIN (u \o v) = 1..(Len(u) + Len(v))
    BY <1>1
<1>. DEFINE w == u \o v
<1>3. /\ DOMAIN w = 1..(Len(u) + Len(v))
      /\ \A k \in 1..(Len(u) + Len(v)) : w[k] = IF k <= Len(u) THEN u[k] ELSE v[k - Len(u)]
    BY <1>1, <1>2
<1>. HIDE DEF w
<1>4. ASSUME NEW x \in Range(w) PROVE x \in Range(u) \cup Range(v)
    <2>1. PICK k \in 1..(Len(u) + Len(v)) : x = w[k]
        BY <1>3 DEF Range
    <2>2. CASE k <= Len(u)
        <3>1. k \in 1..Len(u)
            BY <1>2, <2>2
        <3>. QED BY <1>2, <1>3, <2>1, <2>2, <3>1 DEF Range
    <2>3. CASE ~ (k <= Len(u))
        <3>1. k - Len(u) \in 1..Len(v)
            BY <1>2, <2>3
        <3>. QED BY <1>2, <1>3, <2>1, <2>3, <3>1 DEF Range
    <2>. QED BY <2>2, <2>3
<1>5. ASSUME NEW x \in Range(u) PROVE x \in Range(w)
    <2>1. PICK k \in 1..Len(u) : x = u[k]
        BY <1>2 DEF Range
    <2>2. k \in 1..(Len(u) + Len(v)) /\ k <= Len(u)
        BY <1>2
    <2>. QED BY <1>3, <2>1, <2>2 DEF Range
<1>6. ASSUME NEW x \in Range(v) PROVE x \in Range(w)
    <2>1. PICK k \in 1..Len(v) : x = v[k]
        BY <1>2 DEF Range
    <2>. DEFINE j == Len(u) + k
    <2>2. j \in 1..(Len(u) + Len(v)) /\ ~ (j <= Len(u)) /\ j - Len(u) = k
        BY <1>2
    <2>. HIDE DEF j
    <2>. QED BY <1>3, <2>1, <2>2 DEF Range
<1>7. Range(w) = Range(u) \cup Range(v)
    BY <1>4, <1>5, <1>6
<1>8. MeaningOf(w) = MeaningOf(u) \cup MeaningOf(v)
    BY <1>7 DEF MeaningOf
<1>. QED BY <1>1, <1>8 DEF w

LEMMA MeaningOfAppend ==
    ASSUME NEW u \in Seq(Value), NEW x \in Value
    PROVE  Append(u, x) \in Seq(Value) /\ MeaningOf(Append(u, x)) = MeaningOf(u) \cup {Canonical(x)}
<1>1. <<x>> \in Seq(Value) /\ Append(u, x) = u \o <<x>>
    BY AppendIsConcat
<1>2. MeaningOf(<<x>>) = {Canonical(x)}
    <2>1. DOMAIN <<x>> = {1} /\ <<x>>[1] = x
        OBVIOUS
    <2>2. Range(<<x>>) = {x}
        BY <2>1 DEF Range
    <2>. QED BY <2>2 DEF MeaningOf
<1>. QED BY <1>1, <1>2, MeaningOfConcat

(* What stands in the text behind the first k segments: segment k + 1, and *)
(* behind it a value, if anything.                                         *)
Taken(r, k) == Len(TextOf(SubSeq(r, 1, k)))

LEMMA TextBehind ==
    ASSUME NEW r \in Seq(Segment), NEW k \in 0..(Len(r) - 1)
    PROVE  /\ r[k + 1] \in Segment /\ Taken(r, k) \in Nat
           /\ Len(Text(r[k + 1])) \in Nat \ {0} /\ Len(TextOf(r)) \in Nat
           /\ Taken(r, k + 1) = Taken(r, k) + Len(Text(r[k + 1]))
           /\ Taken(r, k + 1) <= Len(TextOf(r))
           /\ \A j \in 1..Len(Text(r[k + 1])) : TextOf(r)[Taken(r, k) + j] = Text(r[k + 1])[j]
           /\ Taken(r, k + 1) + 1 <= Len(TextOf(r)) => TextOf(r)[Taken(r, k + 1) + 1] \in Value
<1>. DEFINE n == Taken(r, k)
            t == Text(r[k + 1])
            head == TextOf(SubSeq(r, 1, k))
            rest == TextOf(SubSeq(r, k + 2, Len(r)))
            both == TextOf(SubSeq(r, 1, k + 1))
<1>1. /\ SubSeq(r, 1, k) \in Seq(Segment) /\ SubSeq(r, k + 2, Len(r)) \in Seq(Segment)
      /\ r[k + 1] \in Segment
      /\ both = head \o t
      /\ TextOf(r) = both \o rest
    BY TextSplit
<1>2. head \in Seq(Item) /\ rest \in Seq(Item) /\ t \in Seq(Item) /\ Len(t) >= 1
    BY <1>1, TextsType, TextType
<1>3. rest # <<>> => rest[1] \in Value
    BY <1>1, TextStarts
<1>. HIDE DEF head, rest, both, n, t
<1>4. n = Len(head) /\ n \in Nat /\ Len(t) \in Nat \ {0} /\ Len(rest) \in Nat
    BY <1>2 DEF head, n, Taken
<1>5. /\ both \in Seq(Item) /\ Len(both) = n + Len(t)
      /\ \A j \in 1..(n + Len(t)) : both[j] = IF j <= n THEN head[j] ELSE t[j - n]
    <2>1. /\ head \o t \in Seq(Item) /\ Len(head \o t) = Len(head) + Len(t)
          /\ \A j \in 1..(Len(head) + Len(t)) :
                (head \o t)[j] = IF j <= Len(head) THEN head[j] ELSE t[j - Len(head)]
        BY <1>2, ConcatProperties
    <2>. QED BY <1>1, <1>4, <2>1
<1>. DEFINE m == n + Len(t)
            all == both \o rest
<1>6. /\ Len(all) = m + Len(rest)
      /\ \A j \in 1..(m + Len(rest)) : all[j] = IF j <= m THEN both[j] ELSE rest[j - m]
    <2>1. both \in Seq(Item) /\ rest \in Seq(Item)
        BY <1>2, <1>5
    <2>2. /\ Len(both \o rest) = Len(both) + Len(rest)
          /\ \A j \in 1..(Len(both) + Len(rest)) :
                (both \o rest)[j] = IF j <= Len(both) THEN both[j] ELSE rest[j - Len(both)]
        BY <2>1, ConcatProperties
    <2>. QED BY <1>5, <2>2
<1>. HIDE DEF all
<1>7. ASSUME NEW j \in 1..Len(t) PROVE all[n + j] = t[j]
    <2>1. n + j \in 1..(m + Len(rest)) /\ n + j <= m /\ n + j \in 1..m /\ ~ (n + j <= n)
          /\ (n + j) - n = j
        BY <1>4
    <2>. QED BY <1>5, <1>6, <2>1
<1>8. ASSUME m + 1 <= Len(all) PROVE all[m + 1] \in Value
    <2>1. m \in Nat
        BY <1>4
    <2>. HIDE DEF m
    <2>2. Len(rest) >= 1
        BY <1>4, <1>6, <1>8, <2>1
    <2>3. m + 1 \in 1..(m + Len(rest)) /\ ~ (m + 1 <= m) /\ (m + 1) - m = 1
        BY <1>4, <2>1, <2>2
    <2>4. rest # <<>>
        BY <2>2, EmptySeq
    <2>. QED BY <1>3, <1>6, <2>3, <2>4
<1>9. TextOf(r) = all
    BY <1>1 DEF all
<1>10. m <= Len(all) /\ Len(all) \in Nat
    BY <1>4, <1>6
<1>11. Taken(r, k + 1) = n + Len(t)
    BY <1>5 DEF both, Taken
<1>. QED BY <1>1, <1>4, <1>7, <1>8, <1>9, <1>10, <1>11 DEF n, t

-----------------------------------------------------------------------------
(* The loop at the start of segment s, the k + 1st.                        *)
LEMMA AtSegment ==
    ASSUME request \in Seq(Segment), items = TextOf(request),
           NEW k \in 0..(Len(request) - 1), NEW s, s = request[k + 1],
           pos = Taken(request, k) + 1, Readable(s)
    PROVE  /\ ~ s.ranged => Here = <<>> /\ items[pos] = s.first
           /\ s.ranged => Here = ExpansionOf(s) /\ Len(Text(s)) = IF HasBy THEN 5 ELSE 3
           /\ pos <= Len(items)
<1>. DEFINE n == Taken(request, k)
            t == Text(s)
<1>1. /\ s \in Segment /\ n \in Nat /\ Len(t) \in Nat \ {0} /\ Len(items) \in Nat
      /\ n + Len(t) <= Len(items)
      /\ \A j \in 1..Len(t) : items[n + j] = t[j]
      /\ n + Len(t) + 1 <= Len(items) => items[n + Len(t) + 1] \in Value
    <2>1. /\ Len(t) \in Nat \ {0} /\ Taken(request, k + 1) = n + Len(t)
          /\ \A j \in 1..Len(t) : TextOf(request)[n + j] = t[j]
        BY TextBehind
    <2>2. /\ s \in Segment /\ n \in Nat /\ Len(TextOf(request)) \in Nat
          /\ Taken(request, k + 1) <= Len(TextOf(request))
          /\ Taken(request, k + 1) + 1 <= Len(TextOf(request)) =>
                TextOf(request)[Taken(request, k + 1) + 1] \in Value
        BY TextBehind
    <2>. HIDE DEF n, t
    <2>. QED BY <2>1, <2>2
<1>2. pos = n + 1
    OBVIOUS
<1>3. /\ s.first \in Value /\ s.last \in Value /\ s.ranged \in BOOLEAN
      /\ s.by # <<>> => s.by[1] \in Value
    BY <1>1, SegmentParts
<1>. HIDE DEF n
<1>4. pos + 1 = n + 2 /\ pos + 2 = n + 3 /\ pos + 3 = n + 4 /\ pos + 4 = n + 5 /\ pos <= Len(items)
    <2>1. n \in Nat /\ pos = n + 1
        BY <1>1, <1>2
    <2>2. pos + 1 = n + 2 /\ pos + 2 = n + 3 /\ pos + 3 = n + 4 /\ pos + 4 = n + 5
        BY <2>1
    <2>. DEFINE m == Len(t)
                l == Len(items)
    <2>3. m \in Nat \ {0} /\ l \in Nat /\ n + m <= l
        BY <1>1
    <2>. HIDE DEF m, l
    <2>4. pos <= l
        BY <2>1, <2>3
    <2>. QED BY <2>2, <2>4 DEF l
<1>5. CASE ~ s.ranged
    <2>1. t = <<s.first>> /\ Len(t) = 1
        BY <1>1, <1>5, TextType
    <2>2. items[pos] = s.first
        <3>1. 1 \in 1..Len(t) /\ t[1] = s.first
            BY <2>1
        <3>. QED BY <1>1, <1>2, <3>1
    <2>3. ~ HasTo
        <3>1. SUFFICES ASSUME HasTo PROVE FALSE
            OBVIOUS
        <3>2. n + 3 <= Len(items) /\ items[n + 2] = To
            BY <1>4, <3>1 DEF HasTo
        <3>3. n + Len(t) + 1 = n + 2 /\ n + 2 <= Len(items)
            BY <1>1, <2>1, <3>2
        <3>. QED BY <1>1, <3>2, <3>3, WordsAreNoValues
    <2>4. Here = <<>>
        BY <2>3 DEF Here
    <2>. QED BY <1>4, <1>5, <2>2, <2>4
<1>6. CASE s.ranged /\ s.by = <<>>
    <2>1. t = <<s.first, To, s.last>> /\ Len(t) = 3
        BY <1>1, <1>6, TextType
    <2>2. items[pos] = s.first /\ items[pos + 1] = To /\ items[pos + 2] = s.last
        <3>1. 1 \in 1..Len(t) /\ 2 \in 1..Len(t) /\ 3 \in 1..Len(t)
              /\ t[1] = s.first /\ t[2] = To /\ t[3] = s.last
            BY <2>1
        <3>. QED BY <1>1, <1>2, <1>4, <3>1
    <2>3. HasTo
        BY <1>1, <1>4, <2>1, <2>2 DEF HasTo
    <2>4. ~ HasBy
        <3>1. SUFFICES ASSUME HasBy PROVE FALSE
            OBVIOUS
        <3>2. n + 5 <= Len(items) /\ items[n + 4] = By
            BY <1>4, <3>1 DEF HasBy
        <3>3. n + Len(t) + 1 = n + 4 /\ n + 4 <= Len(items)
            BY <1>1, <2>1, <3>2
        <3>. QED BY <1>1, <3>2, <3>3, WordsAreNoValues
    <2>5. Here = ExpansionOf(s)
        BY <1>6, <2>2, <2>3, <2>4 DEF Here, ExpansionOf, StepOf
    <2>. QED BY <1>4, <1>6, <2>1, <2>4, <2>5
<1>7. CASE s.ranged /\ s.by # <<>>
    <2>1. t = <<s.first, To, s.last, By, s.by[1]>> /\ Len(t) = 5
        BY <1>1, <1>7, TextType
    <2>2. /\ items[pos] = s.first /\ items[pos + 1] = To /\ items[pos + 2] = s.last
          /\ items[pos + 3] = By /\ items[pos + 4] = s.by[1]
        <3>1. 1 \in 1..Len(t) /\ 2 \in 1..Len(t) /\ 3 \in 1..Len(t) /\ 4 \in 1..Len(t) /\ 5 \in 1..Len(t)
              /\ t[1] = s.first /\ t[2] = To /\ t[3] = s.last /\ t[4] = By /\ t[5] = s.by[1]
            BY <2>1
        <3>2. items[n + 1] = t[1] /\ items[n + 2] = t[2] /\ items[n + 3] = t[3]
            BY <1>1, <3>1
        <3>3. items[n + 4] = t[4] /\ items[n + 5] = t[5]
            BY <1>1, <3>1
        <3>. QED BY <1>2, <1>4, <3>1, <3>2, <3>3
    <2>3. HasTo /\ HasBy
        BY <1>1, <1>4, <2>1, <2>2 DEF HasTo, HasBy
    <2>4. Here = ExpansionOf(s)
        BY <1>7, <2>2, <2>3 DEF Here, ExpansionOf, StepOf
    <2>. QED BY <1>4, <1>7, <2>1, <2>3, <2>4
<1>. QED BY <1>3, <1>5, <1>6, <1>7

(* Behind the last segment the loop has ended.                             *)
LEMMA AtEnd ==
    ASSUME request \in Seq(Segment), items = TextOf(request),
           pos = Taken(request, Len(request)) + 1
    PROVE  ~ TakeRange /\ ~ TakeItem
<1>1. SubSeq(request, 1, Len(request)) = request /\ Len(items) \in Nat
    BY SubSeqFull, TextsType
<1>2. pos = Len(items) + 1
    BY <1>1 DEF Taken
<1>3. ~ HasTo
    BY <1>1, <1>2 DEF HasTo
<1>4. Here = <<>>
    BY <1>3 DEF Here
<1>. QED BY <1>1, <1>2, <1>4 DEF TakeRange, TakeItem

LEMMA ExpandInvStarts == ExpandInit => ExpandInv
<1>. SUFFICES ASSUME ExpandInit PROVE ExpandInv
    OBVIOUS
<1>1. request \in Requests /\ items = TextOf(request) /\ pos = 1 /\ out = <<>>
    BY DEF ExpandInit
<1>2. request \in Seq(Segment) /\ Len(request) \in Nat
    BY <1>1, ExpandAssumption
<1>3. Taken(request, 0) = 0
    <2>1. SubSeq(request, 1, 0) = <<>> /\ <<>> \in Seq(Segment)
        OBVIOUS
    <2>2. Texts(<<>>) = <<>>
        BY DEF Texts
    <2>. QED BY <2>1, <2>2, FlattenEmpty, TextsType DEF Taken
<1>4. MeaningOf(<<>>) = {}
    <2>1. DOMAIN <<>> = {}
        OBVIOUS
    <2>2. Range(<<>>) = {}
        BY <2>1 DEF Range
    <2>. QED BY <2>2 DEF MeaningOf
<1>5. UNION {Meaning(request[j]) : j \in 1..0} = {}
    OBVIOUS
<1>6. 0 \in 0..Len(request) /\ <<>> \in Seq(Value) /\ pos = Taken(request, 0) + 1
    BY <1>1, <1>2, <1>3
<1>7. SegmentsTaken
    BY <1>1, <1>4, <1>5, <1>6 DEF SegmentsTaken, Taken
<1>. QED BY <1>1, <1>7 DEF ExpandInv

LEMMA ExpandInvStays == ExpandInv /\ [ExpandNext]_expandVars => ExpandInv'
<1>. SUFFICES ASSUME ExpandInv, [ExpandNext]_expandVars PROVE ExpandInv'
    OBVIOUS
<1>1. request \in Requests /\ items = TextOf(request) /\ SegmentsTaken
    BY DEF ExpandInv
<1>2. request \in Seq(Segment) /\ Len(request) \in Nat
    BY <1>1, ExpandAssumption
<1>3. UNCHANGED <<request, items>>
    BY DEF ExpandNext, TakeRange, TakeItem, expandVars
<1>4. SegmentsTaken'
    <2>1. CASE UNCHANGED expandVars
        BY <1>1, <2>1 DEF SegmentsTaken, Taken, expandVars
    <2>2. CASE ExpandNext
        <3>1. SUFFICES ASSUME \A k \in DOMAIN request : Readable(request[k])
              PROVE  \E k \in 0..Len(request) :
                        /\ pos' = Taken(request, k) + 1
                        /\ out' \in Seq(Value)
                        /\ MeaningOf(out') = UNION {Meaning(request[j]) : j \in 1..k}
            BY <1>3 DEF SegmentsTaken, Taken
        <3>2. PICK k \in 0..Len(request) :
                /\ pos = Taken(request, k) + 1
                /\ out \in Seq(Value)
                /\ MeaningOf(out) = UNION {Meaning(request[j]) : j \in 1..k}
            BY <1>1, <3>1 DEF SegmentsTaken, Taken
        <3>3. k # Len(request)
            BY <1>1, <1>2, <2>2, <3>2, AtEnd DEF ExpandNext
        <3>4. k \in 0..(Len(request) - 1) /\ k \in Nat /\ k + 1 \in 0..Len(request)
              /\ k + 1 \in DOMAIN request
            BY <1>2, <3>3
        <3>. DEFINE s == request[k + 1]
        <3>5. s \in Segment /\ Readable(s)
            BY <1>2, <3>1, <3>4, ElementOfSeq
        <3>6. /\ ~ s.ranged => Here = <<>> /\ items[pos] = s.first
              /\ s.ranged => Here = ExpansionOf(s) /\ Len(Text(s)) = IF HasBy THEN 5 ELSE 3
            BY <1>1, <1>2, <3>2, <3>4, <3>5, AtSegment
        <3>7. Taken(request, k + 1)
                = Taken(request, k) + Len(Text(s))
              /\ Taken(request, k) \in Nat /\ Len(Text(s)) \in Nat
            BY <1>2, <3>4, TextBehind
        <3>8. UNION {Meaning(request[j]) : j \in 1..(k + 1)}
                = (UNION {Meaning(request[j]) : j \in 1..k}) \cup Meaning(s)
            <4>1. 1..(k + 1) = (1..k) \cup {k + 1}
                BY <3>4
            <4>. QED BY <4>1
        <3>. HIDE DEF s
        <3>9. /\ pos' = Taken(request, k + 1) + 1
              /\ out' \in Seq(Value) /\ MeaningOf(out') = MeaningOf(out) \cup Meaning(s)
            <4>1. CASE s.ranged
                <5>1. /\ ExpansionOf(s) \in Seq(Value) /\ ExpansionOf(s) # <<>>
                      /\ MeaningOf(ExpansionOf(s)) = Meaning(s)
                    BY <3>5, <4>1, RangeMeans
                <5>2. out' = out \o ExpansionOf(s) /\ pos' = pos + Len(Text(s))
                    BY <2>2, <3>6, <4>1, <5>1 DEF ExpandNext, TakeRange, TakeItem
                <5>3. out' \in Seq(Value) /\ MeaningOf(out') = MeaningOf(out) \cup Meaning(s)
                    BY <3>2, <5>1, <5>2, MeaningOfConcat
                <5>4. pos' = Taken(request, k + 1) + 1
                    BY <3>2, <3>7, <5>2
                <5>. QED BY <5>3, <5>4
            <4>2. CASE ~ s.ranged
                <5>1. out' = Append(out, s.first) /\ pos' = pos + 1
                    BY <2>2, <3>6, <4>2 DEF ExpandNext, TakeRange, TakeItem
                <5>2. s.first \in Value /\ Meaning(s) = {Canonical(s.first)} /\ Len(Text(s)) = 1
                    BY <3>5, <4>2, SegmentParts, TextType DEF Meaning
                <5>3. out' \in Seq(Value) /\ MeaningOf(out') = MeaningOf(out) \cup Meaning(s)
                    BY <3>2, <5>1, <5>2, MeaningOfAppend
                <5>4. pos' = Taken(request, k + 1) + 1
                    BY <3>2, <3>7, <5>1, <5>2
                <5>. QED BY <5>3, <5>4
            <4>. QED BY <4>1, <4>2
        <3>. QED BY <3>2, <3>4, <3>8, <3>9
    <2>. QED BY <2>1, <2>2
<1>. QED BY <1>1, <1>3, <1>4 DEF ExpandInv

(* At the end, the segments behind the next item are all of them.          *)
LEMMA ExpandInvEnds == ExpandInv => RangesExact
<1>. SUFFICES ASSUME ExpandInv, Done, \A k \in DOMAIN request : Readable(request[k])
              PROVE  MeaningOf(out) = Meant
    BY DEF RangesExact
<1>1. request \in Requests /\ items = TextOf(request) /\ SegmentsTaken
    BY DEF ExpandInv
<1>2. request \in Seq(Segment) /\ Len(request) \in Nat /\ DOMAIN request = 1..Len(request)
    BY <1>1, ExpandAssumption
<1>3. PICK k \in 0..Len(request) :
        /\ pos = Taken(request, k) + 1
        /\ MeaningOf(out) = UNION {Meaning(request[j]) : j \in 1..k}
    BY <1>1 DEF SegmentsTaken, Taken
<1>4. k = Len(request)
    <2>1. SUFFICES ASSUME k # Len(request) PROVE FALSE
        OBVIOUS
    <2>. DEFINE n == Len(request)
    <2>2. k \in 0..(Len(request) - 1) /\ k + 1 \in DOMAIN request
        <3>1. n \in Nat /\ k \in 0..n /\ k # n /\ DOMAIN request = 1..n
            BY <1>2, <2>1
        <3>. HIDE DEF n
        <3>2. k \in 0..(n - 1) /\ k + 1 \in DOMAIN request
            BY <3>1
        <3>. QED BY <3>2 DEF n
    <2>3. pos <= Len(items)
        BY <1>1, <1>2, <1>3, <2>2, AtSegment
    <2>4. Len(items) \in Nat /\ Taken(request, k) \in Nat
        BY <1>1, <1>2, <2>2, TextBehind
    <2>. QED BY <1>3, <2>3, <2>4 DEF Done
<1>. QED BY <1>2, <1>3, <1>4 DEF Meant

(* A list of single values and of integer or date ranges is expanded to    *)
(* exactly the values it means, whatever its length, its steps and their   *)
(* direction (fallback_expand).                                            *)
THEOREM ExpansionIsExact == ExpandSpec => []RangesExact
<1>1. ExpandSpec => []ExpandInv
    BY ExpandInvStarts, ExpandInvStays, PTL DEF ExpandSpec
<1>. QED BY <1>1, ExpandInvEnds, PTL

-----------------------------------------------------------------------------
(* The keys of a query in canonical order: each once.                      *)
KeyPiece(q, j) == IF KeyOrder[j] \in DOMAIN q THEN <<KeyOrder[j]>> ELSE <<>>
KeysUpTo(q, m) == FlattenSeq([j \in 1..m |-> KeyPiece(q, j)])

LEMMA KeyPieces ==
    ASSUME NEW q, NEW m \in Nat
    PROVE  /\ [j \in 1..m |-> KeyPiece(q, j)] \in Seq(Seq(DOMAIN q))
           /\ KeysUpTo(q, m + 1) = KeysUpTo(q, m) \o KeyPiece(q, m + 1)
           /\ KeysUpTo(q, m) \in Seq(DOMAIN q)
<1>. DEFINE D == DOMAIN q
            P(n) == [j \in 1..n |-> KeyPiece(q, j)]
<1>1. \A j : KeyPiece(q, j) \in Seq(D)
    <2>1. ASSUME NEW j PROVE KeyPiece(q, j) \in Seq(D)
        <3>1. CASE KeyOrder[j] \in D
            BY <3>1 DEF KeyPiece
        <3>2. CASE KeyOrder[j] \notin D
            BY <3>2 DEF KeyPiece
        <3>. QED BY <3>1, <3>2
    <2>. QED BY <2>1
<1>. HIDE DEF D
<1>2. ASSUME NEW n \in Nat PROVE P(n) \in Seq(Seq(D)) /\ Len(P(n)) = n
    <2>1. P(n) \in [1..n -> Seq(D)]
        BY <1>1
    <2>. QED BY <2>1
<1>3. m + 1 \in Nat
    OBVIOUS
<1>4. P(m + 1) = Append(P(m), KeyPiece(q, m + 1))
    <2>. DEFINE a == P(m + 1)
                b == P(m)
                e == KeyPiece(q, m + 1)
    <2>1. a \in Seq(Seq(D)) /\ Len(a) = m + 1 /\ b \in Seq(Seq(D)) /\ Len(b) = m /\ e \in Seq(D)
        BY <1>1, <1>2, <1>3
    <2>2. /\ \A j \in 1..m : a[j] = b[j]
          /\ a[m + 1] = e
        OBVIOUS
    <2>. HIDE DEF a, b, e
    <2>3. /\ Append(b, e) \in Seq(Seq(D)) /\ Len(Append(b, e)) = m + 1
          /\ \A j \in 1..m : Append(b, e)[j] = b[j]
          /\ Append(b, e)[m + 1] = e
        BY <2>1, AppendProperties
    <2>4. \A j \in 1..(m + 1) : a[j] = Append(b, e)[j]
        <3>1. \A j \in 1..(m + 1) : j \in 1..m \/ j = m + 1
            OBVIOUS
        <3>. QED BY <2>2, <2>3, <3>1
    <2>5. a = Append(b, e)
        BY <2>1, <2>3, <2>4, SeqEqual
    <2>. QED BY <2>5 DEF a, b, e
<1>. HIDE DEF P
<1>5. FlattenSeq(P(m + 1)) = FlattenSeq(P(m)) \o KeyPiece(q, m + 1)
    BY <1>1, <1>2, <1>4, FlattenAppend
<1>6. FlattenSeq(P(m)) \in Seq(D)
    BY <1>2, FlattenType
<1>. QED BY <1>2, <1>5, <1>6 DEF P, KeysUpTo, D

(* What the first m keys of the order leave of a query's keys.             *)
KeysGathered(q, m) ==
    /\ \A k : k \in Range(KeysUpTo(q, m)) <=>
                \E j \in 1..m : k = KeyOrder[j] /\ k \in DOMAIN q
    /\ \A a, b \in 1..Len(KeysUpTo(q, m)) :
            KeysUpTo(q, m)[a] = KeysUpTo(q, m)[b] => a = b

LEMMA RangeOfAppend ==
    ASSUME NEW S, NEW s \in Seq(S), NEW e \in S
    PROVE  Range(Append(s, e)) = Range(s) \cup {e}
<1>. DEFINE t == Append(s, e)
<1>1. /\ t \in Seq(S) /\ Len(t) = Len(s) + 1 /\ t[Len(s) + 1] = e
      /\ \A j \in 1..Len(s) : t[j] = s[j]
    BY AppendProperties
<1>2. Len(s) \in Nat /\ DOMAIN s = 1..Len(s) /\ DOMAIN t = 1..(Len(s) + 1)
    BY <1>1
<1>. HIDE DEF t
<1>3. Len(s) + 1 \in DOMAIN t /\ \A j \in DOMAIN s : j \in DOMAIN t /\ t[j] = s[j]
    BY <1>1, <1>2
<1>4. \A j \in DOMAIN t : j \in DOMAIN s \/ j = Len(s) + 1
    BY <1>2
<1>5. Range(t) = Range(s) \cup {e}
    BY <1>1, <1>3, <1>4 DEF Range
<1>. QED BY <1>5 DEF t

LEMMA KeysGatheredStep ==
    ASSUME NEW q, NEW m \in Nat, m + 1 \in 1..Len(KeyOrder), KeysGathered(q, m)
    PROVE  KeysGathered(q, m + 1)
<1>. DEFINE s == KeysUpTo(q, m)
            t == KeysUpTo(q, m + 1)
            e == KeyOrder[m + 1]
<1>1. t = s \o KeyPiece(q, m + 1) /\ s \in Seq(DOMAIN q)
    BY KeyPieces
<1>2. /\ \A k : k \in Range(s) <=> \E j \in 1..m : k = KeyOrder[j] /\ k \in DOMAIN q
      /\ \A a, b \in 1..Len(s) : s[a] = s[b] => a = b
    BY DEF KeysGathered
<1>3. \A j \in 1..(m + 1) : j \in 1..m \/ j = m + 1
    OBVIOUS
<1>4. \A j \in 1..m : j \in 1..(m + 1)
    OBVIOUS
<1>5. m + 1 \in 1..(m + 1)
    OBVIOUS
<1>. HIDE DEF s, t
<1>6. CASE e \notin DOMAIN q
    <2>1. t = s
        BY <1>1, <1>6, ConcatEmptySeq DEF KeyPiece
    <2>2. ASSUME NEW k PROVE k \in Range(t) <=> \E j \in 1..(m + 1) : k = KeyOrder[j] /\ k \in DOMAIN q
        BY <1>2, <1>3, <1>4, <1>6, <2>1
    <2>. QED BY <1>2, <2>1, <2>2 DEF KeysGathered, s, t
<1>7. CASE e \in DOMAIN q
    <2>1. t = Append(s, e)
        <3>1. t = s \o <<e>>
            BY <1>1, <1>7 DEF KeyPiece
        <3>. QED BY <1>1, <1>7, <3>1, AppendIsConcat
    <2>2. Range(t) = Range(s) \cup {e}
        <3>1. s \in Seq(DOMAIN q) /\ e \in DOMAIN q
            BY <1>1, <1>7
        <3>. HIDE DEF e
        <3>2. Range(Append(s, e)) = Range(s) \cup {e}
            BY <3>1, RangeOfAppend
        <3>. QED BY <2>1, <3>2
    <2>3. ASSUME NEW k PROVE k \in Range(t) <=> \E j \in 1..(m + 1) : k = KeyOrder[j] /\ k \in DOMAIN q
        BY <1>2, <1>3, <1>4, <1>5, <1>7, <2>2
    <2>4. e \notin Range(s)
        <3>1. \A j \in 1..m : j \in DOMAIN KeyOrder /\ j # m + 1
            BY PathAssumption
        <3>2. m + 1 \in DOMAIN KeyOrder
            BY PathAssumption
        <3>3. \A j \in 1..m : KeyOrder[j] # e
            BY <3>1, <3>2, PathAssumption DEF IsInjective
        <3>. QED BY <1>2, <3>3
    <2>5. /\ Len(t) = Len(s) + 1 /\ t[Len(s) + 1] = e /\ \A j \in 1..Len(s) : t[j] = s[j]
          /\ Len(s) \in Nat
        BY <1>1, <1>7, <2>1, AppendProperties
    <2>6. \A j \in 1..Len(s) : s[j] # e
        <3>1. DOMAIN s = 1..Len(s)
            BY <1>1
        <3>. QED BY <2>4, <3>1 DEF Range
    <2>7. \A a \in 1..Len(t) : a \in 1..Len(s) \/ a = Len(s) + 1
        BY <2>5
    <2>8. ASSUME NEW a \in 1..Len(t), NEW b \in 1..Len(t), t[a] = t[b] PROVE a = b
        BY <1>2, <2>5, <2>6, <2>7, <2>8
    <2>. QED BY <2>3, <2>8 DEF KeysGathered, t
<1>. QED BY <1>6, <1>7

LEMMA KeysInOrder ==
    ASSUME NEW q, DOMAIN q \subseteq Keys, DOMAIN q # {}
    PROVE  /\ KeysOf(q) \in Seq(DOMAIN q) /\ Len(KeysOf(q)) \in Nat \ {0}
           /\ Range(KeysOf(q)) = DOMAIN q
           /\ \A a, b \in 1..Len(KeysOf(q)) : KeysOf(q)[a] = KeysOf(q)[b] => a = b
<1>. DEFINE N == Len(KeyOrder)
            I == {n \in Nat : n <= N => KeysGathered(q, n)}
<1>1. N \in Nat /\ DOMAIN KeyOrder = 1..N
    BY PathAssumption
<1>2. KeysOf(q) = KeysUpTo(q, N)
    BY <1>1 DEF KeysOf, KeysUpTo, KeyPiece
<1>3. 0 \in I
    <2>1. [j \in 1..0 |-> KeyPiece(q, j)] = <<>>
        OBVIOUS
    <2>2. KeysUpTo(q, 0) = <<>>
        BY <2>1, FlattenEmpty DEF KeysUpTo
    <2>3. DOMAIN <<>> = {} /\ Len(<<>>) = 0
        OBVIOUS
    <2>4. Range(<<>>) = {}
        BY <2>3 DEF Range
    <2>5. KeysGathered(q, 0)
        BY <2>2, <2>3, <2>4 DEF KeysGathered
    <2>. QED BY <2>5
<1>. HIDE DEF N
<1>4. ASSUME NEW n \in I PROVE n + 1 \in I
    <2>1. SUFFICES ASSUME n + 1 <= N PROVE KeysGathered(q, n + 1)
        OBVIOUS
    <2>2. n \in Nat /\ n <= N /\ n + 1 \in 1..N
        BY <1>1, <2>1
    <2>3. KeysGathered(q, n)
        BY <2>2
    <2>. QED BY <2>2, <2>3, KeysGatheredStep DEF N
<1>5. I = Nat
    <2>1. I \in SUBSET Nat
        OBVIOUS
    <2>. HIDE DEF I
    <2>. QED BY <1>3, <1>4, <2>1, NaturalsBySteps
<1>6. KeysGathered(q, N)
    <2>1. N \in I
        <3>. HIDE DEF I
        <3>. QED BY <1>1, <1>5
    <2>. QED BY <1>1, <2>1
<1>7. KeysOf(q) \in Seq(DOMAIN q)
    BY <1>1, <1>2, KeyPieces
<1>8. Range(KeysOf(q)) = DOMAIN q
    <2>1. \A k \in DOMAIN q : \E j \in 1..N : k = KeyOrder[j]
        BY <1>1 DEF Keys, Range
    <2>. QED BY <1>2, <1>6, <2>1 DEF KeysGathered
<1>9. KeysOf(q) # <<>>
    <2>1. DOMAIN <<>> = {}
        OBVIOUS
    <2>2. Range(<<>>) = {}
        BY <2>1 DEF Range
    <2>. QED BY <1>8, <2>2
<1>10. Len(KeysOf(q)) \in Nat \ {0}
    BY <1>7, <1>9, EmptySeq
<1>. QED BY <1>2, <1>6, <1>7, <1>8, <1>10 DEF KeysGathered

-----------------------------------------------------------------------------
(* A key, what follows it, and the suffix.                                 *)
LEMMA KeyFirst ==
    ASSUME NEW S, NEW k \in S, NEW m \in Seq(S), m # <<>>
    PROVE  /\ <<k>> \o m \in Seq(S) /\ Len(<<k>> \o m) = Len(m) + 1 /\ Len(m) \in Nat \ {0}
           /\ Head(<<k>> \o m) = k /\ Tail(<<k>> \o m) = m /\ (<<k>> \o m)[1] = k
           /\ \A j \in 1..Len(m) : (<<k>> \o m)[j + 1] = m[j]
<1>. DEFINE s == <<k>> \o m
<1>1. <<k>> \in Seq(S) /\ Len(<<k>>) = 1 /\ <<k>>[1] = k
    OBVIOUS
<1>2. Len(m) \in Nat \ {0}
    BY EmptySeq
<1>3. /\ s \in Seq(S) /\ Len(s) = 1 + Len(m)
      /\ \A j \in 1..(1 + Len(m)) : s[j] = IF j <= 1 THEN <<k>>[j] ELSE m[j - 1]
    BY <1>1, ConcatProperties
<1>. HIDE DEF s
<1>4. s[1] = k
    BY <1>1, <1>2, <1>3
<1>5. \A j \in 1..Len(m) : s[j + 1] = m[j]
    <2>1. ASSUME NEW j \in 1..Len(m) PROVE s[j + 1] = m[j]
        <3>1. j + 1 \in 1..(1 + Len(m)) /\ ~ (j + 1 <= 1) /\ (j + 1) - 1 = j
            BY <1>2
        <3>. QED BY <1>3, <3>1
    <2>. QED BY <2>1
<1>6. s # <<>>
    BY <1>2, <1>3, EmptySeq
<1>7. Head(s) = k
    BY <1>3, <1>4, <1>6
<1>8. Tail(s) = m
    <2>. DEFINE t == Tail(s)
    <2>1. t \in Seq(S) /\ Len(t) = Len(s) - 1 /\ \A j \in 1..Len(t) : t[j] = s[j + 1]
        BY <1>3, <1>6, HeadTailProperties
    <2>. HIDE DEF t
    <2>2. Len(t) = Len(m)
        BY <1>2, <1>3, <2>1
    <2>3. \A j \in 1..Len(t) : t[j] = m[j]
        BY <1>5, <2>1, <2>2
    <2>4. t = m
        BY <2>1, <2>2, <2>3, SeqEqual
    <2>. QED BY <2>4 DEF t
<1>9. Len(s) = Len(m) + 1
    BY <1>2, <1>3
<1>. QED BY <1>2, <1>3, <1>4, <1>5, <1>7, <1>8, <1>9 DEF s

LEMMA FrontOfAppend ==
    ASSUME NEW S, NEW s \in Seq(S), NEW e \in S
    PROVE  Front(Append(s, e)) = s /\ Last(Append(s, e)) = e
<1>. DEFINE t == Append(s, e)
<1>1. /\ t \in Seq(S) /\ Len(t) = Len(s) + 1 /\ t[Len(s) + 1] = e /\ Len(s) \in Nat
      /\ \A j \in 1..Len(s) : t[j] = s[j] /\ t # <<>>
    BY AppendProperties
<1>2. t # <<>>
    BY AppendProperties
<1>. HIDE DEF t
<1>. DEFINE u == SubSeq(t, 1, Len(t) - 1)
<1>3. u \in Seq(S) /\ Len(u) = Len(t) - 1 /\ t = Append(u, t[Len(t)])
    BY <1>1, <1>2, LastOfAppend
<1>. HIDE DEF u
<1>4. Len(u) = Len(s) /\ t[Len(t)] = e
    BY <1>1, <1>3
<1>5. \A j \in 1..Len(u) : Append(u, t[Len(t)])[j] = u[j]
    BY <1>1, <1>3, <1>4, AppendProperties
<1>6. \A j \in 1..Len(u) : u[j] = s[j]
    BY <1>1, <1>3, <1>4, <1>5
<1>7. u = s
    BY <1>3, <1>4, <1>6, SeqEqual
<1>. QED BY <1>4, <1>7 DEF Front, Last, t, u

LEMMA Tokens ==
    /\ "/" \in Token /\ "+" \in Token /\ HASH_MARK \in Token /\ SUFFIX \in Token
    /\ Keys \subseteq Token /\ Atom \subseteq Token /\ Wildcard \subseteq Token
BY DEF Token

LEMMA TokensApart ==
    /\ Keys \cap (Atom \cup Wildcard \cup {"/", "+", HASH_MARK, SUFFIX}) = {}
    /\ (Atom \cup Wildcard) \cap {"/", "+", HASH_MARK, SUFFIX} = {}
    /\ Atom \cap Wildcard = {}
    /\ "/" # "+" /\ "/" # HASH_MARK /\ "/" # SUFFIX /\ "+" # HASH_MARK /\ "+" # SUFFIX
    /\ HASH_MARK # SUFFIX
<1>1. /\ Atom \cap (Keys \cup {"/", "+", HASH_MARK, SUFFIX}) = {}
      /\ Wildcard \cap (Keys \cup {"/", "+", HASH_MARK, SUFFIX}) = {}
      /\ Keys \cap {"/", "+", HASH_MARK, SUFFIX} = {} /\ Atom \cap Wildcard = {}
    BY PathAssumption
<1>2. /\ "/" # "+" /\ "/" # HASH_MARK /\ "/" # SUFFIX /\ "+" # HASH_MARK /\ "+" # SUFFIX
      /\ HASH_MARK # SUFFIX
    BY DEF HASH_MARK, SUFFIX
<1>. QED BY <1>1, <1>2

LEMMA JoinedType ==
    ASSUME NEW v, IsValue(v)
    PROVE  /\ v \in Seq(Token) /\ v # <<>>
           /\ Joined(v) \in Seq(Token) /\ Len(Joined(v)) = Len(v) /\ Joined(v) # <<>>
           /\ \A j \in 1..Len(v) : Joined(v)[j] = IF v[j] = "/" THEN "+" ELSE v[j]
           /\ Split(Joined(v)) = v
<1>. DEFINE V == Atom \cup Wildcard \cup {"/"}
<1>1. v \in Seq(V) /\ v # <<>>
    BY DEF IsValue
<1>2. V \subseteq Token /\ "+" \in Token /\ "+" \notin V /\ "+" # "/"
    BY Tokens, TokensApart
<1>. HIDE DEF V
<1>3. Len(v) \in Nat \ {0} /\ DOMAIN v = 1..Len(v)
    BY <1>1, EmptySeq
<1>4. \A j \in 1..Len(v) : v[j] \in V
    BY <1>1, ElementOfSeq
<1>5. v \in Seq(Token)
    BY <1>1, <1>2
<1>6. \A j \in 1..Len(v) : (IF v[j] = "/" THEN "+" ELSE v[j]) \in Token
    BY <1>2, <1>4
<1>. DEFINE w == Joined(v)
<1>7. w = [j \in 1..Len(v) |-> IF v[j] = "/" THEN "+" ELSE v[j]]
    BY <1>3 DEF Joined, Replace
<1>. HIDE DEF w
<1>8. w \in Seq(Token) /\ Len(w) = Len(v) /\ DOMAIN w = 1..Len(v)
    BY <1>3, <1>6, <1>7
<1>9. w # <<>>
    BY <1>3, <1>8, EmptySeq
<1>10. Split(w) = v
    <2>. DEFINE x == Split(w)
    <2>1. x = [j \in 1..Len(v) |-> IF w[j] = "+" THEN "/" ELSE w[j]]
        BY <1>8 DEF Split, Replace
    <2>. HIDE DEF x
    <2>2. \A j \in 1..Len(v) : x[j] = v[j]
        BY <1>2, <1>4, <1>7, <2>1
    <2>3. v = [j \in 1..Len(v) |-> v[j]]
        BY <1>1, <1>3
    <2>4. x = [j \in 1..Len(v) |-> v[j]]
        BY <1>2, <1>4, <1>7, <2>1
    <2>. QED BY <2>3, <2>4 DEF x
<1>. QED BY <1>1, <1>5, <1>7, <1>8, <1>9, <1>10 DEF w

(* A component of the path: its key, its value or the mark and the hash,   *)
(* and the suffix if it is the last.                                       *)
Shown(q, k) == IF k \in Oversized(q) THEN <<HASH_MARK, Digest(q[k])>> ELSE Joined(q[k])
Piece(q, k) == IF k \in Oversized(q) THEN Hashed(q, k) ELSE Component(q, k)
IsLast(q, k) == k = Last(KeysOf(q))
Core(q, k) == <<k>> \o Shown(q, k)

LEMMA PieceOfCore ==
    ASSUME NEW q, IsQuery(q), NEW k \in DOMAIN q, NEW S, S = Token \cup {Digest(q[k])}
    PROVE  /\ k \in S /\ k \in Keys /\ Shown(q, k) \in Seq(S) /\ Shown(q, k) # <<>>
           /\ Core(q, k) \in Seq(S) /\ SUFFIX \in S
           /\ IsLast(q, k) => Piece(q, k) = Append(Core(q, k), SUFFIX)
           /\ ~ IsLast(q, k) => Piece(q, k) = Core(q, k)
<1>1. k \in Keys /\ IsValue(q[k])
    BY DEF IsQuery
<1>3. k \in S /\ SUFFIX \in S /\ HASH_MARK \in S /\ Digest(q[k]) \in S /\ Token \subseteq S
    BY <1>1, Tokens
<1>. DEFINE j == Joined(q[k])
            d == Digest(q[k])
            m == Shown(q, k)
<1>4. j \in Seq(S) /\ j # <<>>
    <2>1. j \in Seq(Token) /\ j # <<>>
        BY <1>1, JoinedType
    <2>. HIDE DEF j
    <2>. QED BY <1>3, <2>1
<1>5. m \in Seq(S) /\ m # <<>>
    <2>1. <<HASH_MARK, d>> \in Seq(S) /\ <<HASH_MARK, d>> # <<>>
        BY <1>3
    <2>. QED BY <1>4, <2>1 DEF Shown
<1>6. <<k>> \o m \in Seq(S)
    BY <1>3, <1>5, KeyFirst
<1>7. Piece(q, k) = (<<k>> \o m) \o (IF IsLast(q, k) THEN <<SUFFIX>> ELSE <<>>)
    <2>1. CASE k \in Oversized(q)
        <3>1. <<k, HASH_MARK, d>> = <<k>> \o <<HASH_MARK, d>>
            <4>. DEFINE a == <<k, HASH_MARK, d>>
                        b == <<HASH_MARK, d>>
                        c == <<k>> \o b
            <4>1. /\ a \in Seq(S) /\ Len(a) = 3 /\ a[1] = k /\ a[2] = HASH_MARK /\ a[3] = d
                BY <1>3
            <4>2. b \in Seq(S) /\ Len(b) = 2 /\ b[1] = HASH_MARK /\ b[2] = d /\ b # <<>>
                BY <1>3
            <4>. HIDE DEF a, b
            <4>3. /\ c \in Seq(S) /\ Len(c) = Len(b) + 1 /\ c[1] = k
                  /\ \A i \in 1..Len(b) : c[i + 1] = b[i]
                <5>1. b \in Seq(S) /\ b # <<>> /\ k \in S
                    BY <1>3, <4>2
                <5>2. /\ <<k>> \o b \in Seq(S) /\ Len(<<k>> \o b) = Len(b) + 1
                      /\ (<<k>> \o b)[1] = k
                      /\ \A i \in 1..Len(b) : (<<k>> \o b)[i + 1] = b[i]
                    BY <5>1, KeyFirst
                <5>. QED BY <5>2
            <4>. HIDE DEF c
            <4>4. Len(c) = 3 /\ c[2] = HASH_MARK /\ c[3] = d
                <5>1. 1 \in 1..Len(b) /\ 2 \in 1..Len(b) /\ 1 + 1 = 2 /\ 2 + 1 = 3
                    BY <4>2
                <5>2. c[1 + 1] = b[1] /\ c[2 + 1] = b[2]
                    BY <4>3, <5>1
                <5>. QED BY <4>2, <4>3, <5>1, <5>2
            <4>5. \A i \in 1..3 : i = 1 \/ i = 2 \/ i = 3
                OBVIOUS
            <4>6. \A i \in 1..Len(a) : a[i] = c[i]
                BY <4>1, <4>3, <4>4, <4>5
            <4>7. a = c
                BY <4>1, <4>3, <4>4, <4>6, SeqEqual
            <4>. QED BY <4>7 DEF a, b, c
        <3>. QED BY <2>1, <3>1 DEF Piece, Hashed, Shown, IsLast
    <2>2. CASE k \notin Oversized(q)
        BY <2>2 DEF Piece, Component, Shown, IsLast
    <2>. QED BY <2>1, <2>2
<1>. HIDE DEF m
<1>. DEFINE c == <<k>> \o m
<1>8. c \in Seq(S) /\ Piece(q, k) = c \o (IF IsLast(q, k) THEN <<SUFFIX>> ELSE <<>>)
    BY <1>6, <1>7
<1>9. Core(q, k) = c
    BY DEF Core, m
<1>. HIDE DEF c
<1>10. IsLast(q, k) => Piece(q, k) = Append(c, SUFFIX)
    BY <1>3, <1>8, AppendIsConcat
<1>11. ~ IsLast(q, k) => Piece(q, k) = c
    BY <1>8, ConcatEmptySeq
<1>. QED BY <1>1, <1>3, <1>5, <1>8, <1>9, <1>10, <1>11 DEF m

LEMMA SuffixPieces ==
    ASSUME NEW q, IsQuery(q)
    PROVE  /\ Len(KeysOf(q)) \in Nat \ {0}
           /\ LocalSuffix(q) \in Seq({Piece(q, k) : k \in DOMAIN q})
           /\ Len(LocalSuffix(q)) = Len(KeysOf(q))
           /\ \A j \in 1..Len(KeysOf(q)) :
                /\ KeysOf(q)[j] \in DOMAIN q
                /\ LocalSuffix(q)[j] = Piece(q, KeysOf(q)[j])
                /\ IsLast(q, KeysOf(q)[j]) <=> j = Len(KeysOf(q))
<1>. DEFINE ks == KeysOf(q)
            X == {Piece(q, k) : k \in DOMAIN q}
            l == LocalSuffix(q)
<1>1. DOMAIN q # {} /\ DOMAIN q \subseteq Keys
    BY DEF IsQuery
<1>2. /\ ks \in Seq(DOMAIN q) /\ Len(ks) \in Nat \ {0}
      /\ \A a, b \in 1..Len(ks) : ks[a] = ks[b] => a = b
    BY <1>1, KeysInOrder
<1>3. l = [i \in DOMAIN ks |-> Piece(q, ks[i])]
    BY DEF LocalSuffix, Piece
<1>4. \A j \in 1..Len(ks) : IsLast(q, ks[j]) <=> ks[j] = ks[Len(ks)]
    BY DEF IsLast, Last
<1>. HIDE DEF ks, l
<1>5. DOMAIN ks = 1..Len(ks) /\ \A j \in 1..Len(ks) : ks[j] \in DOMAIN q
    BY <1>2, ElementOfSeq
<1>6. l \in [1..Len(ks) -> X]
    BY <1>3, <1>5
<1>7. l \in Seq(X) /\ Len(l) = Len(ks)
    BY <1>2, <1>6
<1>8. \A j \in 1..Len(ks) : l[j] = Piece(q, ks[j])
    BY <1>3, <1>5
<1>9. \A j \in 1..Len(ks) : IsLast(q, ks[j]) <=> j = Len(ks)
    BY <1>2, <1>4
<1>. QED BY <1>2, <1>5, <1>7, <1>8, <1>9 DEF ks, l

(* The parts of a path with the suffix cut off: the prefix, and the cores. *)
PathOf(q) == Prefix \o LocalSuffix(q)

LEMMA CutPath ==
    ASSUME NEW q, IsQuery(q)
    PROVE  /\ Len(Prefix) \in Nat \ {0} /\ Len(KeysOf(q)) \in Nat \ {0}
           /\ PathOf(q) # <<>> /\ Last(Last(PathOf(q))) = SUFFIX
           /\ Len(Cut(PathOf(q))) = Len(Prefix) + Len(KeysOf(q))
           /\ \A j \in 1..Len(Prefix) : Cut(PathOf(q))[j] = Prefix[j]
           /\ \A j \in 1..Len(KeysOf(q)) :
                Cut(PathOf(q))[Len(Prefix) + j] = Core(q, KeysOf(q)[j])
<1>. DEFINE parts == PathOf(q)
            p == Len(Prefix)
            n == Len(KeysOf(q))
            l == LocalSuffix(q)
            X == {Piece(q, k) : k \in DOMAIN q} \cup Seq(STRING)
            ks == KeysOf(q)
<1>1. /\ n \in Nat \ {0} /\ l \in Seq({Piece(q, k) : k \in DOMAIN q}) /\ Len(l) = n
      /\ \A j \in 1..n : /\ ks[j] \in DOMAIN q /\ l[j] = Piece(q, ks[j])
                         /\ IsLast(q, ks[j]) <=> j = n
    BY SuffixPieces
<1>. HIDE DEF l, ks, n, parts
<1>2. l \in Seq(X)
    BY <1>1
<1>3. Prefix \in Seq(X) /\ p \in Nat \ {0}
    <2>1. Prefix \in Seq(Seq(STRING)) /\ Prefix # <<>>
        BY PathAssumption
    <2>2. p \in Nat \ {0}
        BY <2>1, EmptySeq
    <2>3. \A j \in 1..p : Prefix[j] \in X
        BY <2>1, ElementOfSeq
    <2>4. Prefix \in Seq(X)
        BY <2>1
    <2>. QED BY <2>2, <2>4
<1>. HIDE DEF X
<1>4. /\ parts \in Seq(X) /\ Len(parts) = p + n
      /\ \A j \in 1..(p + n) : parts[j] = IF j <= p THEN Prefix[j] ELSE l[j - p]
    <2>1. /\ Prefix \o l \in Seq(X) /\ Len(Prefix \o l) = Len(Prefix) + Len(l)
          /\ \A j \in 1..(Len(Prefix) + Len(l)) :
                (Prefix \o l)[j] = IF j <= Len(Prefix) THEN Prefix[j] ELSE l[j - Len(Prefix)]
        BY <1>2, <1>3, ConcatProperties
    <2>2. parts = Prefix \o l
        BY DEF l, parts, PathOf
    <2>. QED BY <1>1, <2>1, <2>2
<1>5. DOMAIN parts = 1..(p + n)
    BY <1>1, <1>3, <1>4
<1>6. Cut(parts) = [parts EXCEPT ![p + n] = Front(parts[p + n])]
    BY <1>4 DEF Cut
<1>7. p + n \in 1..(p + n) /\ ~ (p + n <= p) /\ (p + n) - p = n /\ n \in 1..n
    BY <1>1, <1>3
<1>8. Len(Cut(parts)) = p + n /\ DOMAIN Cut(parts) = 1..(p + n)
    <2>1. DOMAIN Cut(parts) = 1..(p + n)
        BY <1>5, <1>6
    <2>2. p + n \in Nat
        BY <1>1, <1>3
    <2>. QED BY <2>1, <2>2
<1>9. ASSUME NEW j \in 1..p PROVE Cut(parts)[j] = Prefix[j]
    <2>1. j \in 1..(p + n) /\ j # p + n /\ j <= p
        BY <1>1, <1>3
    <2>. QED BY <1>4, <1>5, <1>6, <2>1
<1>10. parts[p + n] = l[n] /\ Last(parts) = l[n]
    BY <1>4, <1>7 DEF Last
<1>11. ASSUME NEW j \in 1..n PROVE Cut(parts)[p + j] = Core(q, ks[j])
    <2>. DEFINE k == ks[j]
                S == Token \cup {Digest(q[k])}
    <2>1. k \in DOMAIN q /\ l[j] = Piece(q, k) /\ (IsLast(q, k) <=> j = n)
        BY <1>1
    <2>. HIDE DEF k
    <2>2. /\ Core(q, k) \in Seq(S) /\ SUFFIX \in S
          /\ IsLast(q, k) => Piece(q, k) = Append(Core(q, k), SUFFIX)
          /\ ~ IsLast(q, k) => Piece(q, k) = Core(q, k)
        BY <2>1, PieceOfCore
    <2>3. p + j \in 1..(p + n) /\ ~ (p + j <= p) /\ (p + j) - p = j
        BY <1>1, <1>3
    <2>4. CASE j = n
        <3>1. Cut(parts)[p + j] = Front(l[j])
            BY <1>5, <1>6, <1>7, <1>10, <2>4
        <3>2. Front(Append(Core(q, k), SUFFIX)) = Core(q, k)
            BY <2>2, FrontOfAppend
        <3>. QED BY <2>1, <2>2, <2>4, <3>1, <3>2 DEF k
    <2>5. CASE j # n
        <3>1. p + j # p + n
            BY <1>1, <1>3, <2>5
        <3>2. Cut(parts)[p + j] = parts[p + j]
            BY <1>5, <1>6, <2>3, <3>1
        <3>. QED BY <1>4, <2>1, <2>2, <2>3, <2>5, <3>2 DEF k
    <2>. QED BY <2>4, <2>5
<1>12. Last(Last(parts)) = SUFFIX
    <2>. DEFINE k == ks[n]
                S == Token \cup {Digest(q[k])}
    <2>1. k \in DOMAIN q /\ l[n] = Piece(q, k) /\ IsLast(q, k)
        BY <1>1, <1>7
    <2>. HIDE DEF k
    <2>2. Core(q, k) \in Seq(S) /\ SUFFIX \in S /\ Piece(q, k) = Append(Core(q, k), SUFFIX)
        BY <2>1, PieceOfCore
    <2>3. Last(Append(Core(q, k), SUFFIX)) = SUFFIX
        BY <2>2, FrontOfAppend
    <2>. QED BY <1>10, <2>1, <2>2, <2>3
<1>13. parts # <<>>
    BY <1>4, <1>7, EmptySeq
<1>. QED BY <1>1, <1>3, <1>8, <1>9, <1>11, <1>12, <1>13 DEF ks, n, parts

(* What a core shows: a pair, whose value is the query's unless it is      *)
(* hashed; a hash is no value.                                             *)
LEMMA CorePair ==
    ASSUME NEW q, IsQuery(q), NEW k \in DOMAIN q
    PROVE  /\ IsPair(Core(q, k)) /\ Head(Core(q, k)) = k /\ k \in Keys
           /\ k \notin Oversized(q) => Split(Tail(Core(q, k))) = q[k]
           /\ k \in Oversized(q) => ~ IsValue(Split(Tail(Core(q, k))))
<1>. DEFINE S == Token \cup {Digest(q[k])}
            m == Shown(q, k)
<1>1. k \in S /\ k \in Keys /\ m \in Seq(S) /\ m # <<>>
    BY PieceOfCore
<1>2. /\ Len(Core(q, k)) = Len(m) + 1 /\ Len(m) \in Nat \ {0}
      /\ Head(Core(q, k)) = k /\ Tail(Core(q, k)) = m
    <2>. HIDE DEF S, m
    <2>1. /\ Len(<<k>> \o m) = Len(m) + 1 /\ Len(m) \in Nat \ {0}
          /\ Head(<<k>> \o m) = k /\ Tail(<<k>> \o m) = m
        BY <1>1, KeyFirst
    <2>2. Core(q, k) = <<k>> \o m
        BY DEF Core, m
    <2>. QED BY <2>1, <2>2
<1>3. IsPair(Core(q, k))
    BY <1>1, <1>2 DEF IsPair
<1>4. ASSUME k \notin Oversized(q) PROVE Split(m) = q[k]
    <2>1. IsValue(q[k]) /\ m = Joined(q[k])
        BY <1>4 DEF IsQuery, Shown
    <2>2. Split(Joined(q[k])) = q[k]
        BY <2>1, JoinedType
    <2>. QED BY <2>1, <2>2
<1>5. ASSUME k \in Oversized(q) PROVE ~ IsValue(Split(m))
    <2>1. m = <<HASH_MARK, Digest(q[k])>>
        BY <1>5 DEF Shown
    <2>2. DOMAIN m = 1..2 /\ m[1] = HASH_MARK /\ 1 \in 1..2
        BY <2>1
    <2>3. Split(m)[1] = HASH_MARK /\ DOMAIN Split(m) = 1..2
        BY <2>2, TokensApart DEF Split, Replace
    <2>4. SUFFICES ASSUME IsValue(Split(m)) PROVE FALSE
        OBVIOUS
    <2>5. Split(m) \in Seq(Atom \cup Wildcard \cup {"/"})
        BY <2>4 DEF IsValue
    <2>6. Split(m)[1] \in Atom \cup Wildcard \cup {"/"}
        <3>. DEFINE x == Split(m)
        <3>1. DOMAIN x = 1..Len(x) /\ x \in Seq(Atom \cup Wildcard \cup {"/"})
            BY <2>5
        <3>2. 1 \in 1..Len(x)
            BY <2>2, <2>3, <3>1
        <3>. HIDE DEF x
        <3>3. x[1] \in Atom \cup Wildcard \cup {"/"}
            BY <3>1, <3>2, ElementOfSeq
        <3>. QED BY <3>3 DEF x
    <2>. QED BY <2>3, <2>6, TokensApart
<1>. QED BY <1>1, <1>2, <1>3, <1>4, <1>5

(* The path of a query tells the query, or nothing if a component is       *)
(* hashed.                                                                 *)
LEMMA PathReadBack ==
    ASSUME NEW q, IsQuery(q), q = [k \in DOMAIN q |-> q[k]]
    PROVE  QueryOfPath(Prefix \o LocalSuffix(q)) = IF Oversized(q) = {} THEN {q} ELSE NoQuery
<1>. DEFINE parts == PathOf(q)
            p == Len(Prefix)
            ks == KeysOf(q)
            n == Len(ks)
            cut == Cut(parts)
            pairs == PairsFrom(cut, p + 1)
<1>1. /\ p \in Nat \ {0} /\ n \in Nat \ {0}
      /\ parts # <<>> /\ Last(Last(parts)) = SUFFIX
      /\ Len(cut) = p + n
      /\ \A j \in 1..p : cut[j] = Prefix[j]
      /\ \A j \in 1..n : cut[p + j] = Core(q, ks[j])
    BY CutPath
<1>2. DOMAIN q # {} /\ DOMAIN q \subseteq Keys /\ \A k \in DOMAIN q : IsValue(q[k])
    BY DEF IsQuery
<1>3. /\ \A j \in 1..n : ks[j] \in DOMAIN q
      /\ \A k \in DOMAIN q : \E j \in 1..n : ks[j] = k
      /\ \A a, b \in 1..n : ks[a] = ks[b] => a = b
    <2>1. /\ ks \in Seq(DOMAIN q) /\ Range(ks) = DOMAIN q
          /\ \A a, b \in 1..n : ks[a] = ks[b] => a = b
        BY <1>2, KeysInOrder
    <2>. HIDE DEF ks
    <2>2. DOMAIN ks = 1..n /\ \A j \in 1..n : ks[j] \in DOMAIN q
        BY <2>1, ElementOfSeq
    <2>. QED BY <2>1, <2>2 DEF Range
<1>. HIDE DEF parts, p, ks, n, cut
<1>4. ~ IsPair(cut[p])
    <2>1. p \in 1..p /\ p \in DOMAIN Prefix
        BY <1>1, PathAssumption DEF p
    <2>2. cut[p] = Prefix[p] /\ Head(Prefix[p]) \notin Keys
        BY <1>1, <2>1, PathAssumption
    <2>. QED BY <2>2 DEF IsPair
<1>5. \A j \in (p + 1)..(p + n) : IsPair(cut[j])
    <2>1. ASSUME NEW j \in (p + 1)..(p + n) PROVE IsPair(cut[j])
        <3>. DEFINE i == j - p
        <3>1. i \in 1..n /\ p + i = j
            BY <1>1
        <3>. HIDE DEF i
        <3>2. cut[j] = Core(q, ks[i]) /\ ks[i] \in DOMAIN q
            BY <1>1, <1>3, <3>1
        <3>. QED BY <3>2, CorePair
    <2>. QED BY <2>1
<1>6. FirstPair(cut) = p + 1
    <2>. DEFINE A(i) == /\ \A j \in i..Len(cut) : IsPair(cut[j])
                        /\ i = 1 \/ ~ IsPair(cut[i - 1])
    <2>1. p + 1 \in 1..Len(cut) /\ A(p + 1)
        <3>1. p + 1 \in 1..Len(cut) /\ (p + 1) - 1 = p
            BY <1>1
        <3>. QED BY <1>1, <1>4, <1>5, <3>1
    <2>2. ASSUME NEW i \in 1..Len(cut), A(i) PROVE i = p + 1
        <3>1. CASE i <= p
            <4>1. p \in i..Len(cut)
                BY <1>1, <3>1
            <4>. QED BY <1>4, <2>2, <4>1
        <3>2. CASE i > p + 1
            <4>1. i - 1 \in (p + 1)..(p + n) /\ i # 1
                BY <1>1, <3>2
            <4>. QED BY <1>5, <2>2, <4>1
        <3>3. i \in Nat
            BY <1>1
        <3>. QED BY <1>1, <3>1, <3>2, <3>3
    <2>3. FirstPair(cut) = CHOOSE i \in 1..Len(cut) : A(i)
        BY DEF FirstPair
    <2>. HIDE DEF A
    <2>. QED BY <2>1, <2>2, <2>3
<1>7. /\ DOMAIN pairs = 1..n
      /\ \A j \in 1..n : pairs[j] = <<ks[j], Split(Tail(Core(q, ks[j])))>>
    <2>1. Len(cut) - (p + 1) + 1 = n
        BY <1>1
    <2>2. pairs = [j \in 1..n |-> <<Head(cut[(p + 1) + j - 1]), Split(Tail(cut[(p + 1) + j - 1]))>>]
        BY <2>1 DEF PairsFrom
    <2>3. ASSUME NEW j \in 1..n PROVE pairs[j] = <<ks[j], Split(Tail(Core(q, ks[j])))>>
        <3>1. (p + 1) + j - 1 = p + j
            BY <1>1
        <3>2. Head(Core(q, ks[j])) = ks[j]
            BY <1>3, CorePair
        <3>. QED BY <1>1, <2>2, <3>1, <3>2
    <2>. QED BY <2>2, <2>3
<1>8. IsPair(Last(cut))
    <2>1. p + n \in (p + 1)..(p + n) /\ Last(cut) = cut[p + n]
        BY <1>1 DEF Last
    <2>. QED BY <1>5, <2>1
<1>9. QueryOfPath(parts) = IF ~ Parses(pairs) THEN NoQuery ELSE {Normalize(pairs)}
    BY <1>1, <1>6, <1>8 DEF QueryOfPath, cut
<1>. HIDE DEF pairs
<1>10. ASSUME Oversized(q) = {} PROVE Parses(pairs) /\ Normalize(pairs) = q
    <2>1. \A j \in 1..n : pairs[j] = <<ks[j], q[ks[j]]>>
        BY <1>3, <1>7, <1>10, CorePair
    <2>2. \A j \in 1..n : pairs[j][1] = ks[j] /\ pairs[j][2] = q[ks[j]]
        BY <2>1
    <2>3. Parses(pairs)
        <3>1. 1 \in 1..n
            BY <1>1
        <3>. QED BY <1>2, <1>3, <1>7, <2>2, <3>1 DEF Parses
    <2>4. {pairs[j][1] : j \in DOMAIN pairs} = DOMAIN q
        <3>. DEFINE D == {pairs[j][1] : j \in DOMAIN pairs}
        <3>1. \A x \in D : x \in DOMAIN q
            BY <1>3, <1>7, <2>2
        <3>2. ASSUME NEW x \in DOMAIN q PROVE x \in D
            <4>1. PICK j \in 1..n : ks[j] = x
                BY <1>3
            <4>2. j \in DOMAIN pairs /\ pairs[j][1] = x
                BY <1>7, <2>2, <4>1
            <4>. QED BY <4>2
        <3>. HIDE DEF D
        <3>3. D = DOMAIN q
            BY <3>1, <3>2
        <3>. QED BY <3>3 DEF D
    <2>5. ASSUME NEW k \in DOMAIN q
          PROVE  pairs[CHOOSE j \in DOMAIN pairs : pairs[j][1] = k][2] = q[k]
        <3>1. \E j \in DOMAIN pairs : pairs[j][1] = k
            BY <1>3, <1>7, <2>2
        <3>. DEFINE j == CHOOSE i \in DOMAIN pairs : pairs[i][1] = k
        <3>2. j \in DOMAIN pairs /\ pairs[j][1] = k
            BY <3>1
        <3>. HIDE DEF j
        <3>3. pairs[j][2] = q[k]
            BY <1>7, <2>2, <3>2
        <3>. QED BY <3>3 DEF j
    <2>6. Normalize(pairs) = [k \in DOMAIN q |-> pairs[CHOOSE j \in DOMAIN pairs : pairs[j][1] = k][2]]
        BY <2>4 DEF Normalize
    <2>7. Normalize(pairs) = [k \in DOMAIN q |-> q[k]]
        BY <2>5, <2>6
    <2>. QED BY <2>3, <2>7
<1>11. ASSUME Oversized(q) # {} PROVE ~ Parses(pairs)
    <2>1. PICK k \in DOMAIN q : k \in Oversized(q)
        BY <1>11 DEF Oversized
    <2>2. PICK j \in 1..n : ks[j] = k
        BY <1>3
    <2>3. pairs[j][2] = Split(Tail(Core(q, k))) /\ j \in DOMAIN pairs
        BY <1>7, <2>2
    <2>4. ~ IsValue(Split(Tail(Core(q, k))))
        BY <2>1, CorePair
    <2>. QED BY <2>3, <2>4 DEF Parses
<1>. QED BY <1>9, <1>10, <1>11 DEF parts, PathOf

-----------------------------------------------------------------------------
(* Every object is made of a query of the grammar, and a query is the      *)
(* function its keys and values make up: Normalize and Apply both build it *)
(* so.                                                                     *)

IsFunctionOf(q) == q = [k \in DOMAIN q |-> q[k]]
QueriesParse == \A o \in objects : IsQuery(o.query) /\ IsFunctionOf(o.query)

(* parse_query and normalize give a query of the grammar.                  *)
LEMMA NormalizeParses ==
    ASSUME NEW pairs, Parses(pairs)
    PROVE  IsQuery(Normalize(pairs)) /\ IsFunctionOf(Normalize(pairs))
<1>. DEFINE q == Normalize(pairs)
            K == {pairs[i][1] : i \in DOMAIN pairs}
            At(k) == CHOOSE i \in DOMAIN pairs : pairs[i][1] = k
<1>1. q = [k \in K |-> pairs[At(k)][2]]
    BY DEF Normalize
<1>2. DOMAIN q = K /\ \A k \in K : q[k] = pairs[At(k)][2]
    BY <1>1
<1>3. \A k \in K : At(k) \in DOMAIN pairs /\ pairs[At(k)][1] = k
    OBVIOUS
<1>4. IsFunctionOf(q)
    BY <1>1, <1>2 DEF IsFunctionOf
<1>. HIDE DEF q, At
<1>5. \A k \in K : IsValue(q[k])
    BY <1>2, <1>3 DEF Parses
<1>6. K # {} /\ K \subseteq Keys
    BY DEF Parses
<1>. QED
    BY <1>2, <1>4, <1>5, <1>6 DEF IsQuery, q

LEMMA QueriesParseInductive ==
    /\ Init => QueriesParse
    /\ QueriesParse /\ [Next]_vars => QueriesParse'
<1>1. Init => QueriesParse
    BY DEF Init, QueriesParse
<1>2. ASSUME QueriesParse, [Next]_vars PROVE QueriesParse'
    <2>1. ASSUME NEW pairs \in Written, Declare(pairs) PROVE QueriesParse'
        <3>1. IsQuery(Normalize(pairs)) /\ IsFunctionOf(Normalize(pairs))
            BY <2>1, NormalizeParses DEF Declare
        <3>. DEFINE new == [query |-> Normalize(pairs),
                            file |-> FileName(LocalSuffix(Normalize(pairs)))]
        <3>2. new.query = Normalize(pairs)
            OBVIOUS
        <3>3. objects' \subseteq objects \cup {new}
            BY <2>1 DEF Declare
        <3>. HIDE DEF new
        <3>. QED
            BY <1>2, <3>1, <3>2, <3>3 DEF QueriesParse
    <2>2. ASSUME NEW o \in objects, Apply(o) PROVE QueriesParse'
        <3>1. PICK w \in Bindings(o) :
                LET q == [k \in DOMAIN o.query |-> Substituted(o.query[k], w)]
                IN  /\ IsQuery(q)
                    /\ objects' = objects \cup {[query |-> q, file |-> Substituted(o.file, w)]}
            BY <2>2 DEF Apply
        <3>. DEFINE q == [k \in DOMAIN o.query |-> Substituted(o.query[k], w)]
                    new == [query |-> q, file |-> Substituted(o.file, w)]
        <3>2. new.query = q /\ IsFunctionOf(q)
            BY DEF IsFunctionOf
        <3>3. IsQuery(q) /\ objects' = objects \cup {new}
            BY <3>1
        <3>. HIDE DEF new, q
        <3>. QED
            BY <1>2, <3>2, <3>3 DEF QueriesParse
    <2>3. CASE UNCHANGED vars
        BY <1>2, <2>3 DEF vars, QueriesParse
    <2>. QED
        BY <1>2, <2>1, <2>2, <2>3 DEF Next
<1>. QED
    BY <1>1, <1>2

(* The path of every object without wildcards, behind any prefix, tells    *)
(* api.query_of the object's query, and of a path with a hashed component  *)
(* it is a QueryError: never another query.                                *)
THEOREM PathsTellQueries == Spec => []PathTellsQuery
<1>1. QueriesParse => PathTellsQuery
    BY PathReadBack DEF QueriesParse, IsFunctionOf, PathTellsQuery, Constant
<1>. QED
    BY <1>1, QueriesParseInductive, PTL DEF Spec


-----------------------------------------------------------------------------
(* Substitution.  What one token of a text becomes, and the tokens of a    *)
(* text behind each other.                                                 *)
Becomes(x, w) == IF x \in DOMAIN w THEN w[x] ELSE <<x>>
Becoming(text, w) == [i \in DOMAIN text |-> Becomes(text[i], w)]
Takes(w, T, U) == \A x \in T : Becomes(x, w) \in Seq(U)

LEMMA BecomingType ==
    ASSUME NEW T, NEW U, NEW w, Takes(w, T, U), NEW text \in Seq(T)
    PROVE  /\ Substituted(text, w) = FlattenSeq(Becoming(text, w))
           /\ Becoming(text, w) \in Seq(Seq(U)) /\ Len(Becoming(text, w)) = Len(text)
           /\ \A j \in 1..Len(text) : Becoming(text, w)[j] = Becomes(text[j], w)
           /\ Substituted(text, w) \in Seq(U)
<1>1. Substituted(text, w) = FlattenSeq(Becoming(text, w))
    BY DEF Substituted, Becoming, Becomes
<1>2. Len(text) \in Nat /\ DOMAIN text = 1..Len(text) /\ \A j \in 1..Len(text) : text[j] \in T
    OBVIOUS
<1>3. Becoming(text, w) \in [1..Len(text) -> Seq(U)]
    BY <1>2 DEF Becoming, Takes
<1>4. Becoming(text, w) \in Seq(Seq(U)) /\ Len(Becoming(text, w)) = Len(text)
    BY <1>2, <1>3
<1>5. \A j \in 1..Len(text) : Becoming(text, w)[j] = Becomes(text[j], w)
    BY <1>2 DEF Becoming
<1>6. FlattenSeq(Becoming(text, w)) \in Seq(U)
    BY <1>4, FlattenType
<1>. QED
    BY <1>1, <1>4, <1>5, <1>6

LEMMA SubstituteConcat ==
    ASSUME NEW T, NEW U, NEW w, Takes(w, T, U),
           NEW a \in Seq(T), NEW b \in Seq(T)
    PROVE  Substituted(a \o b, w) = Substituted(a, w) \o Substituted(b, w)
<1>. DEFINE c == a \o b
            A == Becoming(a, w)
            B == Becoming(b, w)
            C == Becoming(c, w)
            D == A \o B
<1>1. /\ c \in Seq(T) /\ Len(c) = Len(a) + Len(b)
      /\ \A j \in 1..(Len(a) + Len(b)) : c[j] = IF j <= Len(a) THEN a[j] ELSE b[j - Len(a)]
    BY ConcatProperties
<1>. HIDE DEF c
<1>2. /\ A \in Seq(Seq(U)) /\ Len(A) = Len(a) /\ \A j \in 1..Len(a) : A[j] = Becomes(a[j], w)
      /\ Substituted(a, w) = FlattenSeq(A)
    BY BecomingType
<1>3. /\ B \in Seq(Seq(U)) /\ Len(B) = Len(b) /\ \A j \in 1..Len(b) : B[j] = Becomes(b[j], w)
      /\ Substituted(b, w) = FlattenSeq(B)
    BY BecomingType
<1>4. /\ C \in Seq(Seq(U)) /\ Len(C) = Len(c) /\ \A j \in 1..Len(c) : C[j] = Becomes(c[j], w)
      /\ Substituted(c, w) = FlattenSeq(C)
    BY <1>1, BecomingType
<1>. HIDE DEF A, B, C
<1>5. /\ D \in Seq(Seq(U)) /\ Len(D) = Len(A) + Len(B)
      /\ \A j \in 1..(Len(A) + Len(B)) : D[j] = IF j <= Len(A) THEN A[j] ELSE B[j - Len(A)]
    <2>1. A \in Seq(Seq(U)) /\ B \in Seq(Seq(U))
        BY <1>2, <1>3
    <2>. QED BY <2>1, ConcatProperties
<1>6. FlattenSeq(D) = FlattenSeq(A) \o FlattenSeq(B)
    BY <1>2, <1>3, FlattenConcat
<1>. HIDE DEF D
<1>7. Len(a) \in Nat /\ Len(b) \in Nat
    OBVIOUS
<1>8. \A j \in 1..Len(C) : C[j] = D[j]
    <2>1. ASSUME NEW j \in 1..Len(c), j <= Len(a) PROVE C[j] = D[j]
        <3>1. j \in 1..Len(a) /\ j \in 1..(Len(a) + Len(b))
            BY <1>1, <1>7, <2>1
        <3>2. C[j] = Becomes(a[j], w)
            BY <1>1, <1>4, <2>1, <3>1
        <3>3. D[j] = A[j]
            BY <1>2, <1>3, <1>5, <2>1, <3>1
        <3>. QED BY <1>2, <3>1, <3>2, <3>3
    <2>2. ASSUME NEW j \in 1..Len(c), ~ j <= Len(a) PROVE C[j] = D[j]
        <3>1. j - Len(a) \in 1..Len(b) /\ j \in 1..(Len(a) + Len(b))
            BY <1>1, <1>7, <2>2
        <3>2. C[j] = Becomes(b[j - Len(a)], w)
            BY <1>1, <1>4, <2>2, <3>1
        <3>3. D[j] = B[j - Len(a)]
            BY <1>2, <1>3, <1>5, <2>2, <3>1
        <3>. QED BY <1>3, <3>1, <3>2, <3>3
    <2>. QED BY <1>4, <2>1, <2>2
<1>9. C = D
    BY <1>1, <1>2, <1>3, <1>4, <1>5, <1>8, SeqEqual
<1>. QED BY <1>2, <1>3, <1>4, <1>6, <1>9 DEF c

LEMMA SubstituteEmpty ==
    ASSUME NEW T, NEW U, NEW w, Takes(w, T, U)
    PROVE  Substituted(<<>>, w) = <<>>
<1>1. ASSUME NEW z \in Seq(T), Len(z) = 0 PROVE Substituted(z, w) = <<>>
    <2>1. /\ Becoming(z, w) \in Seq(Seq(U)) /\ Len(Becoming(z, w)) = Len(z)
          /\ Substituted(z, w) = FlattenSeq(Becoming(z, w))
        BY BecomingType
    <2>2. Becoming(z, w) = <<>>
        BY <1>1, <2>1, EmptySeq
    <2>. QED BY <2>1, <2>2, FlattenEmpty
<1>2. <<>> \in Seq(T) /\ Len(<<>>) = 0
    OBVIOUS
<1>. QED BY <1>1, <1>2

LEMMA SubstituteAppend ==
    ASSUME NEW T, NEW U, NEW w, Takes(w, T, U),
           NEW a \in Seq(T), NEW e \in T
    PROVE  /\ Substituted(Append(a, e), w) = Substituted(a, w) \o Becomes(e, w)
           /\ Substituted(<<e>>, w) = Becomes(e, w)
           /\ Substituted(<<>>, w) = <<>>
<1>0. Substituted(<<>>, w) = <<>>
    BY SubstituteEmpty
<1>1. \A s \in Seq(T) : Substituted(Append(s, e), w) = Substituted(s, w) \o Becomes(e, w)
    <2>. SUFFICES ASSUME NEW s \in Seq(T)
                  PROVE  Substituted(Append(s, e), w) = Substituted(s, w) \o Becomes(e, w)
        OBVIOUS
    <2>. DEFINE t == Append(s, e)
                A == Becoming(s, w)
                B == Becoming(t, w)
                C == Append(A, Becomes(e, w))
    <2>1. /\ t \in Seq(T) /\ Len(t) = Len(s) + 1 /\ t[Len(s) + 1] = e
          /\ \A j \in 1..Len(s) : t[j] = s[j]
        BY AppendProperties
    <2>. HIDE DEF t
    <2>2. /\ A \in Seq(Seq(U)) /\ Len(A) = Len(s) /\ \A j \in 1..Len(s) : A[j] = Becomes(s[j], w)
          /\ Substituted(s, w) = FlattenSeq(A)
        BY BecomingType
    <2>3. /\ B \in Seq(Seq(U)) /\ Len(B) = Len(t) /\ \A j \in 1..Len(t) : B[j] = Becomes(t[j], w)
          /\ Substituted(t, w) = FlattenSeq(B)
        BY <2>1, BecomingType
    <2>4. Becomes(e, w) \in Seq(U)
        BY DEF Takes
    <2>. HIDE DEF A, B
    <2>5. /\ C \in Seq(Seq(U)) /\ Len(C) = Len(A) + 1 /\ C[Len(A) + 1] = Becomes(e, w)
          /\ \A j \in 1..Len(A) : C[j] = A[j]
        <3>1. A \in Seq(Seq(U))
            BY <2>2
        <3>. QED BY <2>4, <3>1, AppendProperties
    <2>6. FlattenSeq(C) = FlattenSeq(A) \o Becomes(e, w)
        BY <2>2, <2>4, FlattenAppend
    <2>. HIDE DEF C
    <2>7. Len(s) \in Nat
        OBVIOUS
    <2>8. \A j \in 1..Len(B) : B[j] = C[j]
        <3>1. ASSUME NEW j \in 1..Len(s) PROVE B[j] = C[j]
            <4>1. B[j] = Becomes(s[j], w)
                BY <2>1, <2>3, <2>7
            <4>2. C[j] = Becomes(s[j], w)
                BY <2>2, <2>5
            <4>. QED BY <4>1, <4>2
        <3>2. B[Len(s) + 1] = C[Len(s) + 1]
            BY <2>1, <2>2, <2>3, <2>5, <2>7
        <3>3. \A j \in 1..Len(B) : j \in 1..Len(s) \/ j = Len(s) + 1
            BY <2>1, <2>3, <2>7
        <3>. QED BY <3>1, <3>2, <3>3
    <2>9. B = C
        BY <2>1, <2>2, <2>3, <2>5, <2>8, SeqEqual
    <2>. QED BY <2>2, <2>3, <2>6, <2>9 DEF t
<1>2. Substituted(<<e>>, w) = Becomes(e, w)
    <2>1. <<e>> = Append(<<>>, e) /\ <<>> \in Seq(T)
        OBVIOUS
    <2>2. Substituted(Append(<<>>, e), w) = Substituted(<<>>, w) \o Becomes(e, w)
        BY <1>1, <2>1
    <2>3. <<>> \o Becomes(e, w) = Becomes(e, w)
        <3>1. Becomes(e, w) \in Seq(U)
            BY DEF Takes
        <3>. QED BY <3>1, ConcatEmptySeq
    <2>. QED BY <1>0, <2>1, <2>2, <2>3
<1>. QED BY <1>0, <1>1, <1>2

(* A text without names stays.                                             *)
LEMMA SubstituteNothing ==
    ASSUME NEW T, NEW w, T \cap DOMAIN w = {}, NEW text \in Seq(T)
    PROVE  Substituted(text, w) = text
<1>1. Takes(w, T, T) /\ \A x \in T : Becomes(x, w) = <<x>>
    BY DEF Becomes, Takes
<1>. DEFINE I == {n \in Nat : \A s \in Seq(T) : Len(s) = n => Substituted(s, w) = s}
<1>2. 0 \in I
    <2>1. \A s \in Seq(T) : Len(s) = 0 => s = <<>>
        BY EmptySeq
    <2>2. Substituted(<<>>, w) = <<>>
        BY <1>1, SubstituteEmpty
    <2>. QED BY <2>1, <2>2
<1>3. ASSUME NEW n \in I PROVE n + 1 \in I
    <2>1. ASSUME NEW s \in Seq(T), Len(s) = n + 1 PROVE Substituted(s, w) = s
        <3>1. s # <<>>
            BY <2>1, EmptySeq
        <3>. DEFINE u == SubSeq(s, 1, Len(s) - 1)
                    e == s[Len(s)]
        <3>2. u \in Seq(T) /\ Len(u) = n /\ e \in T /\ s = Append(u, e)
            BY <2>1, <3>1, LastOfAppend
        <3>. HIDE DEF u, e
        <3>3. Substituted(Append(u, e), w) = Substituted(u, w) \o Becomes(e, w)
            <4>1. Takes(w, T, T) /\ u \in Seq(T) /\ e \in T
                BY <1>1, <3>2
            <4>. QED BY <4>1, SubstituteAppend
        <3>4. Substituted(u, w) = u
            BY <3>2
        <3>5. Becomes(e, w) = <<e>>
            BY <1>1, <3>2
        <3>. QED BY <3>2, <3>3, <3>4, <3>5, AppendIsConcat
    <2>. QED BY <2>1
<1>4. I = Nat
    <2>1. I \in SUBSET Nat
        OBVIOUS
    <2>. HIDE DEF I
    <2>. QED BY <1>2, <1>3, <2>1, NaturalsBySteps
<1>5. Len(text) \in I
    <2>. HIDE DEF I
    <2>. QED BY <1>4
<1>. QED BY <1>5

(* Substitution in a text of texts.                                        *)
LEMMA SubstituteFlatten ==
    ASSUME NEW T, NEW U, NEW w, Takes(w, T, U), NEW texts \in Seq(Seq(T))
    PROVE  /\ [j \in DOMAIN texts |-> Substituted(texts[j], w)] \in Seq(Seq(U))
           /\ Substituted(FlattenSeq(texts), w)
                = FlattenSeq([j \in DOMAIN texts |-> Substituted(texts[j], w)])
<1>. DEFINE Each(ss) == [j \in DOMAIN ss |-> Substituted(ss[j], w)]
            I == {n \in Nat : \A ss \in Seq(Seq(T)) : Len(ss) = n =>
                    Substituted(FlattenSeq(ss), w) = FlattenSeq(Each(ss))}
<1>0. ASSUME NEW ss \in Seq(Seq(T))
      PROVE  /\ Each(ss) \in Seq(Seq(U)) /\ Len(Each(ss)) = Len(ss) /\ Len(ss) \in Nat
             /\ \A j \in 1..Len(ss) : Each(ss)[j] = Substituted(ss[j], w)
    <2>1. Len(ss) \in Nat /\ DOMAIN ss = 1..Len(ss) /\ \A j \in 1..Len(ss) : ss[j] \in Seq(T)
        OBVIOUS
    <2>2. \A j \in 1..Len(ss) : Substituted(ss[j], w) \in Seq(U)
        BY <2>1, BecomingType
    <2>3. Each(ss) \in [1..Len(ss) -> Seq(U)]
        BY <2>1, <2>2
    <2>. QED BY <2>1, <2>3
<1>1. 0 \in I
    <2>1. \A ss \in Seq(Seq(T)) : Len(ss) = 0 => ss = <<>> /\ Each(ss) = <<>>
        BY <1>0, EmptySeq
    <2>2. Substituted(<<>>, w) = <<>>
        BY SubstituteEmpty
    <2>. HIDE DEF Each
    <2>. QED BY <2>1, <2>2, FlattenEmpty
<1>2. ASSUME NEW n \in I PROVE n + 1 \in I
    <2>1. ASSUME NEW ss \in Seq(Seq(T)), Len(ss) = n + 1
          PROVE  Substituted(FlattenSeq(ss), w) = FlattenSeq(Each(ss))
        <3>1. ss # <<>>
            BY <2>1, EmptySeq
        <3>. DEFINE u == SubSeq(ss, 1, Len(ss) - 1)
                    e == ss[Len(ss)]
                    C == Append(Each(u), Substituted(e, w))
        <3>2. u \in Seq(Seq(T)) /\ Len(u) = n /\ e \in Seq(T) /\ ss = Append(u, e)
            BY <2>1, <3>1, LastOfAppend
        <3>. HIDE DEF u, e
        <3>3. Substituted(FlattenSeq(u), w) = FlattenSeq(Each(u))
            BY <3>2
        <3>4. FlattenSeq(ss) = FlattenSeq(u) \o e /\ FlattenSeq(u) \in Seq(T)
            BY <3>2, FlattenAppend, FlattenType
        <3>5. Substituted(FlattenSeq(u) \o e, w) = Substituted(FlattenSeq(u), w) \o Substituted(e, w)
            BY <3>2, <3>4, SubstituteConcat
        <3>6. /\ Each(u) \in Seq(Seq(U)) /\ Len(Each(u)) = n
              /\ \A j \in 1..n : Each(u)[j] = Substituted(u[j], w)
            BY <1>0, <3>2
        <3>7. /\ Each(ss) \in Seq(Seq(U)) /\ Len(Each(ss)) = n + 1
              /\ \A j \in 1..(n + 1) : Each(ss)[j] = Substituted(ss[j], w)
            BY <1>0, <2>1
        <3>8. Substituted(e, w) \in Seq(U)
            BY <3>2, BecomingType
        <3>9. /\ Len(ss) = n + 1 /\ ss[n + 1] = e /\ \A j \in 1..n : ss[j] = u[j]
            BY <3>2, AppendProperties
        <3>. HIDE DEF Each
        <3>10. /\ C \in Seq(Seq(U)) /\ Len(C) = n + 1 /\ C[n + 1] = Substituted(e, w)
               /\ \A j \in 1..n : C[j] = Each(u)[j]
            <4>1. Each(u) \in Seq(Seq(U))
                BY <3>6
            <4>2. /\ C \in Seq(Seq(U)) /\ Len(C) = Len(Each(u)) + 1
                  /\ C[Len(Each(u)) + 1] = Substituted(e, w)
                  /\ \A j \in 1..Len(Each(u)) : C[j] = Each(u)[j]
                BY <3>8, <4>1, AppendProperties
            <4>. QED BY <3>6, <4>2
        <3>11. FlattenSeq(C) = FlattenSeq(Each(u)) \o Substituted(e, w)
            <4>1. Each(u) \in Seq(Seq(U))
                BY <3>6
            <4>. QED BY <3>8, <4>1, FlattenAppend
        <3>. HIDE DEF C, I
        <3>12. n \in Nat
            BY DEF I
        <3>13. \A j \in 1..(n + 1) : Each(ss)[j] = C[j]
            <4>1. ASSUME NEW j \in 1..n PROVE Each(ss)[j] = C[j]
                BY <3>6, <3>7, <3>9, <3>10, <3>12
            <4>2. Each(ss)[n + 1] = C[n + 1]
                BY <3>7, <3>9, <3>10, <3>12
            <4>3. \A j \in 1..(n + 1) : j \in 1..n \/ j = n + 1
                BY <3>12
            <4>. QED BY <4>1, <4>2, <4>3
        <3>14. Each(ss) = C
            BY <3>7, <3>10, <3>13, SeqEqual
        <3>. QED BY <3>3, <3>4, <3>5, <3>11, <3>14
    <2>. HIDE DEF Each
    <2>. QED BY <2>1
<1>3. I = Nat
    <2>1. I \in SUBSET Nat
        OBVIOUS
    <2>. HIDE DEF I
    <2>. QED BY <1>1, <1>2, <2>1, NaturalsBySteps
<1>4. Len(texts) \in I
    <2>. HIDE DEF I
    <2>. QED BY <1>3
<1>5. Substituted(FlattenSeq(texts), w) = FlattenSeq(Each(texts))
    <2>. HIDE DEF Each
    <2>. QED BY <1>4
<1>. QED BY <1>0, <1>5

(* What stands around one of the texts, and what follows it.               *)
LEMMA FlattenAround ==
    ASSUME NEW S, NEW ss \in Seq(Seq(S)), NEW p \in 1..Len(ss)
    PROVE  \E a, b \in Seq(S) :
            /\ FlattenSeq(ss) = a \o (ss[p] \o b)
            /\ p = Len(ss) => b = <<>>
            /\ p < Len(ss) => \E c \in Seq(S) : b = ss[p + 1] \o c
<1>. DEFINE Before(m) == SubSeq(ss, 1, m)
            After(m) == SubSeq(ss, m + 1, Len(ss))
<1>0. Len(ss) \in Nat /\ p \in Nat /\ \A j \in 1..Len(ss) : ss[j] \in Seq(S)
    OBVIOUS
<1>1. ASSUME NEW m \in 1..Len(ss)
      PROVE  /\ After(m - 1) \in Seq(Seq(S)) /\ After(m) \in Seq(Seq(S))
             /\ After(m - 1) = <<ss[m]>> \o After(m)
             /\ FlattenSeq(After(m - 1)) = ss[m] \o FlattenSeq(After(m))
    <2>1. /\ After(m - 1) \in Seq(Seq(S)) /\ After(m) \in Seq(Seq(S))
          /\ SubSeq(ss, m, m) \in Seq(Seq(S)) /\ Len(SubSeq(ss, m, m)) = 1
          /\ SubSeq(ss, m, m)[1] = ss[m]
        BY <1>0, SubSeqProperties
    <2>2. SubSeq(ss, m, m) = <<ss[m]>>
        <3>1. <<ss[m]>> \in Seq(Seq(S)) /\ Len(<<ss[m]>>) = 1 /\ <<ss[m]>>[1] = ss[m]
            BY <1>0
        <3>. DEFINE x == SubSeq(ss, m, m)
                    y == <<ss[m]>>
        <3>. HIDE DEF x, y
        <3>2. x \in Seq(Seq(S)) /\ y \in Seq(Seq(S)) /\ Len(x) = Len(y) /\ Len(x) = 1 /\ x[1] = y[1]
            BY <2>1, <3>1 DEF x, y
        <3>3. \A j \in 1..Len(x) : x[j] = y[j]
            BY <3>2
        <3>4. x = y
            BY <3>2, <3>3, SeqEqual
        <3>. QED BY <3>4 DEF x, y
    <2>3. SubSeq(ss, m, m) \o SubSeq(ss, m + 1, Len(ss)) = SubSeq(ss, m, Len(ss))
        <3>1. m \in 1..(Len(ss) + 1) /\ m \in (m - 1)..Len(ss) /\ Len(ss) \in m..Len(ss)
            BY <1>0
        <3>. QED BY <3>1, ConcatAdjacentSubSeq
    <2>4. m - 1 + 1 = m
        BY <1>0
    <2>5. After(m - 1) = <<ss[m]>> \o After(m)
        BY <2>2, <2>3, <2>4
    <2>. DEFINE r == After(m)
                e == ss[m]
    <2>6. r \in Seq(Seq(S)) /\ e \in Seq(S) /\ <<e>> \in Seq(Seq(S))
        BY <1>0, <2>1
    <2>. HIDE DEF r, e
    <2>7. FlattenSeq(<<e>> \o r) = FlattenSeq(<<e>>) \o FlattenSeq(r)
        BY <2>6, FlattenConcat
    <2>8. FlattenSeq(<<e>>) = e
        <3>1. <<e>> = Append(<<>>, e) /\ <<>> \in Seq(Seq(S))
            OBVIOUS
        <3>2. FlattenSeq(Append(<<>>, e)) = FlattenSeq(<<>>) \o e
            BY <2>6, <3>1, FlattenAppend
        <3>3. <<>> \o e = e
            BY <2>6, ConcatEmptySeq
        <3>. QED BY <3>1, <3>2, <3>3, FlattenEmpty
    <2>. QED BY <2>1, <2>5, <2>7, <2>8 DEF r, e
<1>2. Before(p - 1) \in Seq(Seq(S)) /\ Before(p - 1) \o After(p - 1) = ss
    <2>1. p - 1 \in 0..Len(ss) /\ p - 1 \in Int
        BY <1>0
    <2>2. Before(p - 1) \in Seq(Seq(S))
        BY <1>0, <2>1, SubSeqProperties
    <2>3. SubSeq(ss, 1, p - 1) \o SubSeq(ss, p - 1 + 1, Len(ss)) = SubSeq(ss, 1, Len(ss))
        <3>1. 1 \in 1..(Len(ss) + 1) /\ p - 1 \in (1 - 1)..Len(ss) /\ Len(ss) \in (p - 1)..Len(ss)
            BY <1>0
        <3>. QED BY <3>1, ConcatAdjacentSubSeq
    <2>. QED BY <2>2, <2>3, SubSeqFull
<1>. DEFINE a == FlattenSeq(Before(p - 1))
            b == FlattenSeq(After(p))
<1>3. FlattenSeq(Before(p - 1) \o After(p - 1)) = a \o FlattenSeq(After(p - 1))
    BY <1>1, <1>2, FlattenConcat
<1>4. a \in Seq(S) /\ b \in Seq(S)
    BY <1>1, <1>2, FlattenType
<1>5. FlattenSeq(ss) = a \o (ss[p] \o b)
    BY <1>1, <1>2, <1>3
<1>6. p = Len(ss) => b = <<>>
    <2>1. SUFFICES ASSUME p = Len(ss) PROVE b = <<>>
        OBVIOUS
    <2>2. After(p) \in Seq(Seq(S)) /\ Len(After(p)) = 0
        BY <1>0, <2>1, SubSeqProperties
    <2>3. After(p) = <<>>
        BY <2>2, EmptySeq
    <2>. QED BY <2>3, FlattenEmpty
<1>7. p < Len(ss) => \E c \in Seq(S) : b = ss[p + 1] \o c
    <2>1. SUFFICES ASSUME p < Len(ss) PROVE \E c \in Seq(S) : b = ss[p + 1] \o c
        OBVIOUS
    <2>. DEFINE n == p + 1
    <2>2. n \in 1..Len(ss) /\ n - 1 = p
        BY <1>0, <2>1
    <2>. HIDE DEF n
    <2>3. FlattenSeq(After(n - 1)) = ss[n] \o FlattenSeq(After(n)) /\ After(n) \in Seq(Seq(S))
        BY <1>1, <2>2
    <2>4. FlattenSeq(After(n)) \in Seq(S)
        BY <2>3, FlattenType
    <2>5. b = ss[n] \o FlattenSeq(After(n))
        BY <2>2, <2>3
    <2>. QED BY <2>4, <2>5 DEF n
<1>. HIDE DEF a, b
<1>. QED BY <1>4, <1>5, <1>6, <1>7

-----------------------------------------------------------------------------
(* Wildcard values that are words: atoms only.  Substitution of words goes *)
(* through the "+" of a path.                                              *)
Words(w) == DOMAIN w \subseteq Wildcard /\ \A x \in DOMAIN w : w[x] \in Seq(Atom) \ {<<>>}
Plus(x) == IF x = "/" THEN "+" ELSE x
ValueText == Atom \cup Wildcard \cup {"/", "+"}

LEMMA WordsTake ==
    ASSUME NEW w, Words(w), NEW T, Atom \subseteq T
    PROVE  Takes(w, T, T)
<1>1. ASSUME NEW x \in T PROVE Becomes(x, w) \in Seq(T)
    <2>1. CASE x \in DOMAIN w
        <3>1. w[x] \in Seq(Atom)
            BY <2>1 DEF Words
        <3>2. w[x] \in Seq(T)
            BY <3>1
        <3>. QED BY <2>1, <3>2 DEF Becomes
    <2>2. CASE x \notin DOMAIN w
        BY <2>2 DEF Becomes
    <2>. QED BY <2>1, <2>2
<1>. QED BY <1>1 DEF Takes

LEMMA JoinedTokens ==
    ASSUME NEW s \in Seq(ValueText)
    PROVE  /\ Joined(s) \in Seq(ValueText) /\ Len(Joined(s)) = Len(s)
           /\ \A j \in 1..Len(s) : Joined(s)[j] = Plus(s[j])
<1>1. Len(s) \in Nat /\ DOMAIN s = 1..Len(s) /\ \A j \in 1..Len(s) : s[j] \in ValueText
    OBVIOUS
<1>2. \A x \in ValueText : Plus(x) \in ValueText
    BY DEF ValueText, Plus
<1>3. Joined(s) = [j \in 1..Len(s) |-> Plus(s[j])]
    BY <1>1 DEF Joined, Replace, Plus
<1>4. Joined(s) \in [1..Len(s) -> ValueText]
    BY <1>1, <1>2, <1>3
<1>. QED BY <1>1, <1>3, <1>4

LEMMA JoinedConcat ==
    ASSUME NEW a \in Seq(ValueText), NEW b \in Seq(ValueText)
    PROVE  Joined(a \o b) = Joined(a) \o Joined(b)
<1>. DEFINE c == a \o b
            A == Joined(a)
            B == Joined(b)
            C == Joined(c)
            D == A \o B
<1>1. /\ c \in Seq(ValueText) /\ Len(c) = Len(a) + Len(b)
      /\ \A j \in 1..(Len(a) + Len(b)) : c[j] = IF j <= Len(a) THEN a[j] ELSE b[j - Len(a)]
    BY ConcatProperties
<1>. HIDE DEF c
<1>2. A \in Seq(ValueText) /\ Len(A) = Len(a) /\ \A j \in 1..Len(a) : A[j] = Plus(a[j])
    BY JoinedTokens
<1>3. B \in Seq(ValueText) /\ Len(B) = Len(b) /\ \A j \in 1..Len(b) : B[j] = Plus(b[j])
    BY JoinedTokens
<1>4. C \in Seq(ValueText) /\ Len(C) = Len(c) /\ \A j \in 1..Len(c) : C[j] = Plus(c[j])
    BY <1>1, JoinedTokens
<1>. HIDE DEF A, B, C
<1>5. /\ D \in Seq(ValueText) /\ Len(D) = Len(A) + Len(B)
      /\ \A j \in 1..(Len(A) + Len(B)) : D[j] = IF j <= Len(A) THEN A[j] ELSE B[j - Len(A)]
    <2>1. A \in Seq(ValueText) /\ B \in Seq(ValueText)
        BY <1>2, <1>3
    <2>. QED BY <2>1, ConcatProperties
<1>. HIDE DEF D
<1>7. Len(a) \in Nat /\ Len(b) \in Nat
    OBVIOUS
<1>8. \A j \in 1..Len(C) : C[j] = D[j]
    <2>1. ASSUME NEW j \in 1..Len(c), j <= Len(a) PROVE C[j] = D[j]
        <3>1. j \in 1..Len(a) /\ j \in 1..(Len(a) + Len(b))
            BY <1>1, <1>7, <2>1
        <3>2. C[j] = Plus(a[j])
            BY <1>1, <1>4, <2>1, <3>1
        <3>3. D[j] = A[j]
            BY <1>2, <1>3, <1>5, <2>1, <3>1
        <3>. QED BY <1>2, <3>1, <3>2, <3>3
    <2>2. ASSUME NEW j \in 1..Len(c), ~ j <= Len(a) PROVE C[j] = D[j]
        <3>1. j - Len(a) \in 1..Len(b) /\ j \in 1..(Len(a) + Len(b))
            BY <1>1, <1>7, <2>2
        <3>2. C[j] = Plus(b[j - Len(a)])
            BY <1>1, <1>4, <2>2, <3>1
        <3>3. D[j] = B[j - Len(a)]
            BY <1>2, <1>3, <1>5, <2>2, <3>1
        <3>. QED BY <1>3, <3>1, <3>2, <3>3
    <2>. QED BY <1>4, <2>1, <2>2
<1>9. C = D
    BY <1>1, <1>2, <1>3, <1>4, <1>5, <1>8, SeqEqual
<1>. QED BY <1>9 DEF A, B, C, D, c

LEMMA JoinedAppend ==
    ASSUME NEW a \in Seq(ValueText), NEW e \in ValueText
    PROVE  /\ Joined(Append(a, e)) = Append(Joined(a), Plus(e))
           /\ Plus(e) \in ValueText
<1>1. <<e>> \in Seq(ValueText) /\ Append(a, e) = a \o <<e>>
    BY AppendIsConcat
<1>2. Joined(<<e>>) = <<Plus(e)>>
    <2>. DEFINE x == <<e>>
                y == <<Plus(e)>>
    <2>0. Plus(e) \in ValueText
        BY DEF ValueText, Plus
    <2>1. x \in Seq(ValueText) /\ Len(x) = 1 /\ x[1] = e /\ y \in Seq(ValueText) /\ Len(y) = 1 /\ y[1] = Plus(e)
        BY <2>0
    <2>. HIDE DEF x, y
    <2>2. Joined(x) \in Seq(ValueText) /\ Len(Joined(x)) = Len(x) /\ \A j \in 1..Len(x) : Joined(x)[j] = Plus(x[j])
        BY <2>1, JoinedTokens
    <2>3. \A j \in 1..Len(Joined(x)) : Joined(x)[j] = y[j]
        BY <2>1, <2>2
    <2>4. Joined(x) = y
        BY <2>1, <2>2, <2>3, SeqEqual
    <2>. QED BY <2>4 DEF x, y
<1>3. Joined(a) \in Seq(ValueText) /\ Plus(e) \in ValueText
    BY JoinedTokens DEF ValueText, Plus
<1>4. Joined(a \o <<e>>) = Joined(a) \o Joined(<<e>>)
    BY <1>1, JoinedConcat
<1>5. Append(Joined(a), Plus(e)) = Joined(a) \o <<Plus(e)>>
    BY <1>3, AppendIsConcat
<1>. QED BY <1>1, <1>2, <1>3, <1>4, <1>5

LEMMA SubstituteJoined ==
    ASSUME NEW w, Words(w), NEW v \in Seq(ValueText)
    PROVE  Joined(Substituted(v, w)) = Substituted(Joined(v), w)
<1>0. Takes(w, ValueText, ValueText)
    BY WordsTake DEF ValueText
<1>b. ASSUME NEW s \in Seq(ValueText), NEW e \in ValueText
      PROVE  Substituted(Append(s, e), w) = Substituted(s, w) \o Becomes(e, w)
    BY <1>0, SubstituteAppend
<1>a. ASSUME NEW e \in ValueText PROVE Joined(Becomes(e, w)) = Becomes(Plus(e), w)
    <2>1. CASE e \in DOMAIN w
        <3>1. w[e] \in Seq(Atom) /\ e # "/"
            BY <2>1, TokensApart DEF Words
        <3>. DEFINE x == w[e]
        <3>2. x \in Seq(Atom)
            BY <3>1
        <3>. HIDE DEF x
        <3>3. x \in Seq(ValueText) /\ \A j \in 1..Len(x) : x[j] # "/" /\ Plus(x[j]) = x[j]
            <4>1. \A y \in Atom : y # "/" /\ y \in ValueText
                BY TokensApart DEF ValueText
            <4>. QED BY <3>2, <4>1 DEF Plus
        <3>4. Joined(x) \in Seq(ValueText) /\ Len(Joined(x)) = Len(x) /\ \A j \in 1..Len(x) : Joined(x)[j] = Plus(x[j])
            BY <3>3, JoinedTokens
        <3>5. \A j \in 1..Len(Joined(x)) : Joined(x)[j] = x[j]
            BY <3>3, <3>4
        <3>6. Joined(x) = x
            BY <3>3, <3>4, <3>5, SeqEqual
        <3>. QED BY <2>1, <3>1, <3>6 DEF Becomes, Plus, x
    <2>2. CASE e \notin DOMAIN w
        <3>1. Becomes(e, w) = <<e>> /\ Plus(e) \notin DOMAIN w
            BY <2>2, TokensApart DEF Becomes, Plus, Words
        <3>2. Becomes(Plus(e), w) = <<Plus(e)>>
            BY <3>1 DEF Becomes
        <3>3. <<e>> = Append(<<>>, e) /\ <<>> \in Seq(ValueText) /\ <<Plus(e)>> = Append(<<>>, Plus(e))
            OBVIOUS
        <3>4. Joined(<<>>) = <<>>
            <4>1. <<>> \in Seq(ValueText) /\ Len(<<>>) = 0
                OBVIOUS
            <4>2. Joined(<<>>) \in Seq(ValueText) /\ Len(Joined(<<>>)) = Len(<<>>)
                BY <4>1, JoinedTokens
            <4>. QED BY <4>1, <4>2, EmptySeq
        <3>5. Joined(Append(<<>>, e)) = Append(Joined(<<>>), Plus(e))
            BY <3>3, JoinedAppend
        <3>. QED BY <3>1, <3>2, <3>3, <3>4, <3>5
    <2>. QED BY <2>1, <2>2
<1>. DEFINE I == {n \in Nat : \A s \in Seq(ValueText) : Len(s) = n =>
                    Joined(Substituted(s, w)) = Substituted(Joined(s), w)}
<1>1. 0 \in I
    <2>1. ASSUME NEW s \in Seq(ValueText), Len(s) = 0
          PROVE  Joined(Substituted(s, w)) = Substituted(Joined(s), w)
        <3>1. s = <<>> /\ s \in Seq(ValueText)
            BY <2>1, EmptySeq
        <3>2. Joined(s) \in Seq(ValueText) /\ Len(Joined(s)) = 0
            BY <2>1, JoinedTokens
        <3>3. Joined(s) = s
            BY <3>1, <3>2, EmptySeq
        <3>4. Substituted(s, w) = s
            BY <1>0, <3>1, SubstituteEmpty
        <3>. QED BY <3>3, <3>4
    <2>. QED BY <2>1
<1>2. ASSUME NEW n \in I PROVE n + 1 \in I
    <2>1. ASSUME NEW s \in Seq(ValueText), Len(s) = n + 1
          PROVE  Joined(Substituted(s, w)) = Substituted(Joined(s), w)
        <3>1. s # <<>>
            BY <2>1, EmptySeq
        <3>. DEFINE u == SubSeq(s, 1, Len(s) - 1)
                    e == s[Len(s)]
        <3>2. u \in Seq(ValueText) /\ Len(u) = n /\ e \in ValueText /\ s = Append(u, e)
            BY <2>1, <3>1, LastOfAppend
        <3>. HIDE DEF u, e
        <3>3. Joined(Substituted(u, w)) = Substituted(Joined(u), w)
            BY <3>2
        <3>4. Substituted(Append(u, e), w) = Substituted(u, w) \o Becomes(e, w)
            BY <1>b, <3>2
        <3>5. Substituted(u, w) \in Seq(ValueText) /\ Becomes(e, w) \in Seq(ValueText)
            BY <1>0, <3>2, BecomingType DEF Takes
        <3>6. Joined(Substituted(u, w) \o Becomes(e, w))
                = Joined(Substituted(u, w)) \o Joined(Becomes(e, w))
            BY <3>5, JoinedConcat
        <3>7. Joined(Append(u, e)) = Append(Joined(u), Plus(e)) /\ Plus(e) \in ValueText
            BY <3>2, JoinedAppend
        <3>8. Joined(u) \in Seq(ValueText)
            BY <3>2, JoinedTokens
        <3>9. Substituted(Append(Joined(u), Plus(e)), w)
                = Substituted(Joined(u), w) \o Becomes(Plus(e), w)
            BY <1>b, <3>7, <3>8
        <3>10. Joined(Becomes(e, w)) = Becomes(Plus(e), w)
            BY <1>a, <3>2
        <3>. QED BY <3>2, <3>3, <3>4, <3>6, <3>7, <3>9, <3>10
    <2>. QED BY <2>1
<1>3. I = Nat
    <2>1. I \in SUBSET Nat
        OBVIOUS
    <2>. HIDE DEF I
    <2>. QED BY <1>1, <1>2, <2>1, NaturalsBySteps
<1>4. Len(v) \in I
    <2>. HIDE DEF I
    <2>. QED BY <1>3
<1>. QED BY <1>4

(* The component of a query's key becomes that of the substituted query's. *)
LEMMA SubstituteComponent ==
    ASSUME NEW w, Words(w), NEW q, IsQuery(q), NEW r, DOMAIN r = DOMAIN q,
           NEW k \in DOMAIN q, r[k] = Substituted(q[k], w)
    PROVE  Substituted(Component(q, k), w) = Component(r, k)
<1>. DEFINE T == Token
            j == Joined(q[k])
            z == IF k = Last(KeysOf(q)) THEN <<SUFFIX>> ELSE <<>>
<1>1. k \in Token /\ k \notin DOMAIN w /\ SUFFIX \in Token /\ SUFFIX \notin DOMAIN w
    BY Tokens, TokensApart DEF IsQuery, Words
<1>2. Takes(w, Token, Token)
    BY WordsTake, Tokens
<1>3. q[k] \in Seq(ValueText)
    <2>1. q[k] \in Seq(Atom \cup Wildcard \cup {"/"})
        BY DEF IsQuery, IsValue
    <2>. DEFINE x == q[k]
    <2>2. x \in Seq(Atom \cup Wildcard \cup {"/"})
        BY <2>1
    <2>. HIDE DEF x
    <2>3. x \in Seq(ValueText)
        BY <2>2 DEF ValueText
    <2>. QED BY <2>3 DEF x
<1>4. Joined(Substituted(q[k], w)) = Substituted(j, w)
    BY <1>3, SubstituteJoined
<1>5. KeysOf(r) = KeysOf(q)
    BY DEF KeysOf
<1>6. Component(r, k) = (<<k>> \o Joined(Substituted(q[k], w))) \o z
    BY <1>5 DEF Component
<1>7. Component(q, k) = (<<k>> \o j) \o z
    BY DEF Component
<1>8. j \in Seq(Token)
    BY JoinedType DEF IsQuery
<1>9. z \in Seq(Token)
    BY <1>1
<1>10. Substituted(z, w) = z
    <2>1. {SUFFIX} \cap DOMAIN w = {}
        BY <1>1
    <2>2. <<SUFFIX>> \in Seq({SUFFIX}) /\ <<>> \in Seq({SUFFIX})
        OBVIOUS
    <2>3. z \in Seq({SUFFIX})
        BY <2>2
    <2>. HIDE DEF z
    <2>. QED BY <2>1, <2>3, SubstituteNothing
<1>11. <<k>> \in Seq(Token) /\ Substituted(<<k>>, w) = <<k>>
    <2>1. {k} \cap DOMAIN w = {} /\ <<k>> \in Seq({k}) /\ <<k>> \in Seq(Token)
        BY <1>1
    <2>. QED BY <2>1, SubstituteNothing
<1>. HIDE DEF j, z
<1>12. <<k>> \o j \in Seq(Token)
    BY <1>8, <1>11, ConcatProperties
<1>15. ASSUME NEW a \in Seq(Token), NEW b \in Seq(Token)
       PROVE  Substituted(a \o b, w) = Substituted(a, w) \o Substituted(b, w)
    BY <1>2, SubstituteConcat
<1>13. Substituted((<<k>> \o j) \o z, w) = Substituted(<<k>> \o j, w) \o z
    BY <1>9, <1>10, <1>12, <1>15
<1>14. Substituted(<<k>> \o j, w) = <<k>> \o Substituted(j, w)
    BY <1>8, <1>11, <1>15
<1>. QED BY <1>4, <1>6, <1>7, <1>13, <1>14 DEF j

-----------------------------------------------------------------------------
(* File names.  A component is a key and tokens that are neither a key nor *)
(* "/", so that in a file name every "/" is followed by a key, and every   *)
(* key but the first follows one.                                          *)
Inner(X) == Atom \cup X \cup {"+", HASH_MARK, SUFFIX}
Letters(X) == Keys \cup {"/"} \cup Inner(X)
Behinds(k, S) == {<<k>> \o m : m \in S}
Keyed(X) == UNION {Behinds(k, Seq(Inner(X))) : k \in Keys}
Led(cs) == [j \in DOMAIN cs |-> IF j = 1 THEN cs[j] ELSE <<"/">> \o cs[j]]
KeysFollowSlashes(f) ==
    \A p \in 1..Len(f) :
        /\ f[p] = "/" => p < Len(f)
        /\ p < Len(f) => (f[p] = "/" <=> f[p + 1] \in Keys)

LEMMA InnerApart ==
    ASSUME NEW X, X \subseteq Wildcard
    PROVE  /\ Keys \cap Inner(X) = {} /\ "/" \notin Inner(X) /\ "/" \notin Keys
           /\ Letters(X) \subseteq Token /\ Inner(X) \subseteq Letters(X)
BY Tokens, TokensApart DEF Inner, Letters

LEMMA KeyedTokens ==
    ASSUME NEW X, X \subseteq Wildcard, NEW c \in Keyed(X)
    PROVE  /\ c \in Seq(Letters(X)) /\ Len(c) \in Nat \ {0} /\ c[1] \in Keys
           /\ \A j \in 2..Len(c) : c[j] \in Inner(X)
<1>1. PICK k \in Keys : c \in Behinds(k, Seq(Inner(X)))
    BY DEF Keyed
<1>11. PICK m \in Seq(Inner(X)) : c = <<k>> \o m
    BY <1>1 DEF Behinds
<1>2. /\ Keys \subseteq Letters(X) /\ Inner(X) \subseteq Letters(X)
    BY DEF Letters
<1>3. <<k>> \in Seq(Letters(X)) /\ Len(<<k>>) = 1 /\ <<k>>[1] = k
    BY <1>2
<1>4. m \in Seq(Letters(X)) /\ Len(m) \in Nat /\ \A j \in 1..Len(m) : m[j] \in Inner(X)
    BY <1>2
<1>. DEFINE a == <<k>>
<1>5. a \in Seq(Letters(X)) /\ Len(a) = 1 /\ a[1] = k
    BY <1>3
<1>. HIDE DEF a
<1>6. /\ a \o m \in Seq(Letters(X)) /\ Len(a \o m) = Len(a) + Len(m)
      /\ \A j \in 1..(Len(a) + Len(m)) : (a \o m)[j] = IF j <= Len(a) THEN a[j] ELSE m[j - Len(a)]
    BY <1>4, <1>5, ConcatProperties
<1>. DEFINE d == a \o m
<1>7. /\ d \in Seq(Letters(X)) /\ Len(d) = 1 + Len(m)
      /\ \A j \in 1..(1 + Len(m)) : d[j] = IF j <= 1 THEN a[j] ELSE m[j - 1]
    BY <1>5, <1>6
<1>. HIDE DEF d
<1>8. d[1] = k
    BY <1>4, <1>5, <1>7
<1>9. ASSUME NEW j \in 2..Len(d) PROVE d[j] \in Inner(X)
    <2>1. j - 1 \in 1..Len(m) /\ j \in 1..(1 + Len(m)) /\ ~ j <= 1
        BY <1>4, <1>7
    <2>2. d[j] = m[j - 1]
        BY <1>7, <2>1
    <2>. QED BY <1>4, <2>1, <2>2
<1>10. c = d
    BY <1>11 DEF a, d
<1>. QED BY <1>4, <1>7, <1>8, <1>9, <1>10

LEMMA LedTokens ==
    ASSUME NEW X, X \subseteq Wildcard, NEW cs \in Seq(Keyed(X))
    PROVE  /\ FileName(cs) = FlattenSeq(Led(cs))
           /\ Led(cs) \in Seq(Seq(Letters(X))) /\ Len(Led(cs)) = Len(cs) /\ Len(cs) \in Nat
           /\ \A j \in 1..Len(cs) : Led(cs)[j] = IF j = 1 THEN cs[j] ELSE <<"/">> \o cs[j]
           /\ FileName(cs) \in Seq(Letters(X))
<1>1. FileName(cs) = FlattenSeq(Led(cs))
    BY DEF FileName, Led
<1>2. Len(cs) \in Nat /\ DOMAIN cs = 1..Len(cs) /\ \A j \in 1..Len(cs) : cs[j] \in Keyed(X)
    BY ElementOfSeq
<1>3. \A j \in 1..Len(cs) : cs[j] \in Seq(Letters(X))
    BY <1>2, KeyedTokens
<1>4. <<"/">> \in Seq(Letters(X))
    <2>1. "/" \in Letters(X)
        BY DEF Letters
    <2>. QED BY <2>1
<1>5. \A j \in 1..Len(cs) : <<"/">> \o cs[j] \in Seq(Letters(X))
    BY <1>3, <1>4, ConcatProperties
<1>6. Led(cs) \in [1..Len(cs) -> Seq(Letters(X))]
    BY <1>2, <1>3, <1>5 DEF Led
<1>7. Led(cs) \in Seq(Seq(Letters(X))) /\ Len(Led(cs)) = Len(cs)
    BY <1>2, <1>6
<1>8. \A j \in 1..Len(cs) : Led(cs)[j] = IF j = 1 THEN cs[j] ELSE <<"/">> \o cs[j]
    BY <1>2 DEF Led
<1>9. FlattenSeq(Led(cs)) \in Seq(Letters(X))
    BY <1>7, FlattenType
<1>. QED BY <1>1, <1>2, <1>7, <1>8, <1>9

(* Behind a file name, "/" and one more component.                         *)
LEMMA OneMoreComponent ==
    ASSUME NEW X, X \subseteq Wildcard, NEW f \in Seq(Letters(X)), KeysFollowSlashes(f),
           NEW c \in Keyed(X)
    PROVE  KeysFollowSlashes(f \o (<<"/">> \o c)) /\ KeysFollowSlashes(c)
<1>. DEFINE s == <<"/">>
            g == s \o c
            h == f \o g
<1>1. /\ Keys \cap Inner(X) = {} /\ "/" \notin Inner(X) /\ "/" \notin Keys
      /\ "/" \in Letters(X)
    BY InnerApart DEF Letters
<1>2. /\ c \in Seq(Letters(X)) /\ Len(c) \in Nat \ {0} /\ c[1] \in Keys
      /\ \A j \in 2..Len(c) : c[j] \in Inner(X)
    BY KeyedTokens
<1>3. s \in Seq(Letters(X)) /\ Len(s) = 1 /\ s[1] = "/"
    BY <1>1
<1>. HIDE DEF s
<1>4. /\ g \in Seq(Letters(X)) /\ Len(g) = Len(s) + Len(c)
      /\ \A j \in 1..(Len(s) + Len(c)) : g[j] = IF j <= Len(s) THEN s[j] ELSE c[j - Len(s)]
    BY <1>2, <1>3, ConcatProperties
<1>. HIDE DEF g
<1>5. /\ Len(g) = 1 + Len(c) /\ g[1] = "/"
      /\ \A j \in 1..Len(c) : g[1 + j] = c[j]
    <2>1. Len(g) = 1 + Len(c) /\ g[1] = "/"
        BY <1>2, <1>3, <1>4
    <2>2. ASSUME NEW j \in 1..Len(c) PROVE g[1 + j] = c[j]
        <3>1. 1 + j \in 1..(Len(s) + Len(c)) /\ ~ 1 + j <= Len(s) /\ 1 + j - Len(s) = j
            BY <1>2, <1>3
        <3>. QED BY <1>4, <3>1
    <2>. QED BY <2>1, <2>2
<1>6. /\ h \in Seq(Letters(X)) /\ Len(h) = Len(f) + Len(g)
      /\ \A j \in 1..(Len(f) + Len(g)) : h[j] = IF j <= Len(f) THEN f[j] ELSE g[j - Len(f)]
    <2>1. f \in Seq(Letters(X)) /\ g \in Seq(Letters(X))
        BY <1>4
    <2>. QED BY <2>1, ConcatProperties
<1>. HIDE DEF h
<1>. DEFINE n == Len(f)
<1>7. n \in Nat
    OBVIOUS
<1>8. /\ Len(h) = n + 1 + Len(c) /\ h[n + 1] = "/"
      /\ \A j \in 1..n : h[j] = f[j]
      /\ \A j \in 1..Len(c) : h[n + 1 + j] = c[j]
    <2>1. Len(h) = n + 1 + Len(c)
        BY <1>2, <1>5, <1>6, <1>7
    <2>2. \A j \in 1..n : h[j] = f[j]
        BY <1>2, <1>5, <1>6, <1>7
    <2>3. ASSUME NEW j \in 1..(1 + Len(c)) PROVE h[n + j] = g[j]
        <3>1. n + j \in 1..(Len(f) + Len(g)) /\ ~ n + j <= Len(f) /\ n + j - Len(f) = j
            BY <1>2, <1>5, <1>7
        <3>. QED BY <1>6, <3>1
    <2>4. h[n + 1] = "/"
        BY <1>2, <1>5, <2>3
    <2>5. ASSUME NEW j \in 1..Len(c) PROVE h[n + 1 + j] = c[j]
        <3>1. 1 + j \in 1..(1 + Len(c)) /\ n + (1 + j) = n + 1 + j
            BY <1>2, <1>7
        <3>. QED BY <1>5, <2>3, <3>1
    <2>. QED BY <2>1, <2>2, <2>4, <2>5
<1>. HIDE DEF n
<1>9. \A j \in 1..Len(c) : c[j] # "/"
    BY <1>1, <1>2
<1>10. \A j \in 1..Len(c) : j < Len(c) => c[j + 1] \notin Keys
    BY <1>1, <1>2
<1>11. KeysFollowSlashes(c)
    BY <1>9, <1>10 DEF KeysFollowSlashes
<1>12. ASSUME NEW p \in 1..Len(h)
       PROVE  /\ h[p] = "/" => p < Len(h)
              /\ p < Len(h) => (h[p] = "/" <=> h[p + 1] \in Keys)
    <2>0. \A j \in 1..n : (f[j] = "/" => j < n) /\ (j < n => (f[j] = "/" <=> f[j + 1] \in Keys))
        BY DEF KeysFollowSlashes, n
    <2>1. CASE p < n
        <3>1. p \in 1..n /\ p + 1 \in 1..n /\ p < Len(h)
            BY <1>2, <1>7, <1>8, <2>1
        <3>. QED BY <1>8, <2>0, <2>1, <3>1
    <2>2. CASE p = n
        <3>1. p \in 1..n /\ p < Len(h) /\ ~ p < n
            BY <1>2, <1>7, <1>8, <2>2
        <3>2. h[p] = f[p] /\ h[p + 1] = "/"
            BY <1>8, <2>2, <3>1
        <3>. QED BY <1>1, <2>0, <3>1, <3>2
    <2>3. CASE p = n + 1
        <3>1. p < Len(h) /\ 1 \in 1..Len(c)
            BY <1>2, <1>7, <1>8, <2>3
        <3>2. h[p] = "/" /\ h[n + 1 + 1] = c[1]
            BY <1>8, <2>3, <3>1
        <3>. QED BY <1>2, <2>3, <3>1, <3>2
    <2>4. CASE p > n + 1
        <3>. DEFINE j == p - n - 1
        <3>1. j \in 1..Len(c) /\ p = n + 1 + j
            BY <1>2, <1>7, <1>8, <2>4
        <3>. HIDE DEF j
        <3>2. h[p] = c[j] /\ h[p] # "/"
            BY <1>8, <1>9, <3>1
        <3>3. ASSUME p < Len(h) PROVE h[p + 1] \notin Keys
            <4>1. j < Len(c) /\ j + 1 \in 1..Len(c) /\ p + 1 = n + 1 + (j + 1)
                BY <1>2, <1>7, <1>8, <3>1, <3>3
            <4>2. h[p + 1] = c[j + 1]
                BY <1>8, <4>1
            <4>. QED BY <1>10, <3>1, <4>1, <4>2
        <3>. QED BY <3>2, <3>3
    <2>. QED BY <1>2, <1>7, <1>8, <2>1, <2>2, <2>3, <2>4
<1>13. KeysFollowSlashes(h)
    BY <1>12 DEF KeysFollowSlashes
<1>. QED BY <1>11, <1>13 DEF h, g, s

LEMMA LedAppend ==
    ASSUME NEW X, X \subseteq Wildcard, NEW cs \in Seq(Keyed(X)), NEW c \in Keyed(X)
    PROVE  /\ cs = <<>> => FileName(Append(cs, c)) = c
           /\ cs # <<>> => FileName(Append(cs, c)) = FileName(cs) \o (<<"/">> \o c)
<1>. DEFINE ds == Append(cs, c)
            n == Len(cs)
            e == IF cs = <<>> THEN c ELSE <<"/">> \o c
            L == Led(cs)
            M == Led(ds)
            N == Append(L, e)
<1>1. /\ ds \in Seq(Keyed(X)) /\ Len(ds) = n + 1 /\ ds[n + 1] = c
      /\ \A j \in 1..n : ds[j] = cs[j]
    <2>. HIDE DEF n
    <2>1. cs \in Seq(Keyed(X)) /\ c \in Keyed(X)
        OBVIOUS
    <2>. QED BY <2>1, AppendProperties DEF n
<1>. HIDE DEF ds
<1>2. /\ FileName(cs) = FlattenSeq(L) /\ L \in Seq(Seq(Letters(X))) /\ Len(L) = n /\ n \in Nat
      /\ \A j \in 1..n : L[j] = IF j = 1 THEN cs[j] ELSE <<"/">> \o cs[j]
    BY LedTokens
<1>3. /\ FileName(ds) = FlattenSeq(M) /\ M \in Seq(Seq(Letters(X))) /\ Len(M) = n + 1
      /\ \A j \in 1..(n + 1) : M[j] = IF j = 1 THEN ds[j] ELSE <<"/">> \o ds[j]
    BY <1>1, LedTokens
<1>. HIDE DEF L, M
<1>4. (cs = <<>>) <=> (n = 0)
    <2>1. cs \in Seq(Keyed(X))
        OBVIOUS
    <2>. QED BY <2>1, EmptySeq
<1>5. M[n + 1] = e
    <2>1. n + 1 \in 1..(n + 1) /\ (n + 1 = 1 <=> n = 0)
        BY <1>2
    <2>. QED BY <1>1, <1>3, <1>4, <2>1
<1>6. e \in Seq(Letters(X))
    <2>1. M[n + 1] \in Seq(Letters(X))
        <3>1. n + 1 \in 1..Len(M)
            BY <1>2, <1>3
        <3>. QED BY <1>3, <3>1, ElementOfSeq
    <2>. QED BY <1>5, <2>1
<1>. HIDE DEF e
<1>7. /\ N \in Seq(Seq(Letters(X))) /\ Len(N) = n + 1 /\ N[n + 1] = e
      /\ \A j \in 1..n : N[j] = L[j]
    <2>1. /\ N \in Seq(Seq(Letters(X))) /\ Len(N) = Len(L) + 1 /\ N[Len(L) + 1] = e
          /\ \A j \in 1..Len(L) : N[j] = L[j]
        BY <1>2, <1>6, AppendProperties
    <2>. QED BY <1>2, <2>1
<1>8. FlattenSeq(N) = FlattenSeq(L) \o e
    BY <1>2, <1>6, FlattenAppend
<1>. HIDE DEF N
<1>9. \A j \in 1..Len(M) : M[j] = N[j]
    <2>1. ASSUME NEW j \in 1..n PROVE M[j] = N[j]
        <3>1. j \in 1..(n + 1)
            BY <1>2
        <3>. QED BY <1>1, <1>2, <1>3, <1>7, <3>1
    <2>2. \A j \in 1..Len(M) : j \in 1..n \/ j = n + 1
        BY <1>2, <1>3
    <2>. QED BY <1>5, <1>7, <2>1, <2>2
<1>10. M = N
    BY <1>3, <1>7, <1>9, SeqEqual
<1>11. cs = <<>> => FlattenSeq(L) \o e = c
    <2>1. SUFFICES ASSUME cs = <<>> PROVE FlattenSeq(L) \o e = c
        OBVIOUS
    <2>2. L = <<>>
        BY <1>2, <1>4, <2>1, EmptySeq
    <2>3. FlattenSeq(L) \o e = e
        BY <1>6, <2>2, FlattenEmpty, ConcatEmptySeq
    <2>. QED BY <2>1, <2>3 DEF e
<1>12. cs # <<>> => FlattenSeq(L) \o e = FileName(cs) \o (<<"/">> \o c)
    BY <1>2 DEF e
<1>. QED BY <1>3, <1>8, <1>10, <1>11, <1>12 DEF ds

(* In a file name every "/" is followed by a key and every key follows a   *)
(* "/".                                                                    *)
LEMMA FileTokens ==
    ASSUME NEW X, X \subseteq Wildcard, NEW file \in Seq(Keyed(X)), file # <<>>
    PROVE  KeysFollowSlashes(FileName(file))
<1>. DEFINE I == {n \in Nat : \A cs \in Seq(Keyed(X)) :
                    Len(cs) = n /\ n # 0 => KeysFollowSlashes(FileName(cs))}
<1>1. 0 \in I
    OBVIOUS
<1>2. ASSUME NEW n \in I PROVE n + 1 \in I
    <2>1. ASSUME NEW cs \in Seq(Keyed(X)), Len(cs) = n + 1
          PROVE  KeysFollowSlashes(FileName(cs))
        <3>1. cs # <<>>
            BY <2>1, EmptySeq
        <3>. DEFINE u == SubSeq(cs, 1, Len(cs) - 1)
                    c == cs[Len(cs)]
        <3>2. u \in Seq(Keyed(X)) /\ Len(u) = n /\ c \in Keyed(X) /\ cs = Append(u, c)
            BY <2>1, <3>1, LastOfAppend
        <3>. HIDE DEF u, c
        <3>3. CASE u = <<>>
            <4>1. FileName(cs) = c
                BY <3>2, <3>3, LedAppend
            <4>2. <<>> \in Seq(Letters(X)) /\ KeysFollowSlashes(<<>>)
                BY DEF KeysFollowSlashes
            <4>3. KeysFollowSlashes(c)
                BY <3>2, <4>2, OneMoreComponent
            <4>. QED BY <4>1, <4>3
        <3>4. CASE u # <<>>
            <4>1. FileName(cs) = FileName(u) \o (<<"/">> \o c)
                BY <3>2, <3>4, LedAppend
            <4>2. n # 0 
                BY <3>2, <3>4, EmptySeq
            <4>3. KeysFollowSlashes(FileName(u))
                BY <3>2, <4>2
            <4>4. FileName(u) \in Seq(Letters(X))
                BY <3>2, LedTokens
            <4>. DEFINE f == FileName(u)
            <4>. HIDE DEF f
            <4>5. KeysFollowSlashes(f \o (<<"/">> \o c))
                <5>1. f \in Seq(Letters(X)) /\ KeysFollowSlashes(f)
                    BY <4>3, <4>4 DEF f
                <5>. QED BY <3>2, <5>1, OneMoreComponent
            <4>. QED BY <4>1, <4>5 DEF f
        <3>. QED BY <3>3, <3>4
    <2>. QED BY <2>1
<1>3. I = Nat
    <2>1. I \in SUBSET Nat
        OBVIOUS
    <2>. HIDE DEF I
    <2>. QED BY <1>1, <1>2, <2>1, NaturalsBySteps
<1>4. Len(file) \in I /\ Len(file) # 0
    <2>. HIDE DEF I
    <2>. QED BY <1>3, EmptySeq
<1>. QED BY <1>4

LEMMA LargerSeq ==
    ASSUME NEW S, NEW T, S \subseteq T
    PROVE  Seq(S) \subseteq Seq(T)
<1>1. ASSUME NEW s \in Seq(S) PROVE s \in Seq(T)
    OBVIOUS
<1>. QED BY <1>1

LEMMA SubstituteKeyed ==
    ASSUME NEW X, X \subseteq Wildcard, NEW w, Words(w), NEW c \in Keyed(X)
    PROVE  /\ Substituted(c, w) \in Keyed(X \ DOMAIN w)
           /\ Substituted(<<"/">> \o c, w) = <<"/">> \o Substituted(c, w)
<1>. DEFINE Y == X \ DOMAIN w
            T == Letters(X)
<1>1. PICK k \in Keys : c \in Behinds(k, Seq(Inner(X)))
    BY DEF Keyed
<1>2. PICK m \in Seq(Inner(X)) : c = <<k>> \o m
    BY <1>1 DEF Behinds
<1>3. /\ k \in T /\ "/" \in T /\ Inner(X) \subseteq T /\ Atom \subseteq T
      /\ Atom \subseteq Inner(Y) /\ X \cap DOMAIN w = X \ Y
    BY DEF Letters, Inner
<1>4. k \notin DOMAIN w /\ "/" \notin DOMAIN w
    BY TokensApart DEF Words
<1>5. Takes(w, T, T)
    BY <1>3, WordsTake
<1>6. Takes(w, Inner(X), Inner(Y))
    <2>1. ASSUME NEW x \in Inner(X) PROVE Becomes(x, w) \in Seq(Inner(Y))
        <3>1. CASE x \in DOMAIN w
            <4>1. w[x] \in Seq(Atom)
                BY <3>1 DEF Words
            <4>2. w[x] \in Seq(Inner(Y))
                BY <1>3, <4>1, LargerSeq
            <4>. QED BY <3>1, <4>2 DEF Becomes
        <3>2. CASE x \notin DOMAIN w
            <4>1. x \in Inner(Y)
                BY <3>2 DEF Inner
            <4>2. <<x>> \in Seq(Inner(Y))
                BY <4>1
            <4>. QED BY <3>2, <4>2 DEF Becomes
        <3>. QED BY <3>1, <3>2
    <2>. QED BY <2>1 DEF Takes
<1>7. Substituted(m, w) \in Seq(Inner(Y))
    BY <1>6, BecomingType
<1>8. /\ <<k>> \in Seq(T) /\ Substituted(<<k>>, w) = <<k>>
      /\ <<"/">> \in Seq(T) /\ Substituted(<<"/">>, w) = <<"/">>
    <2>1. {k, "/"} \cap DOMAIN w = {}
        BY <1>4
    <2>2. <<k>> \in Seq({k, "/"}) /\ <<"/">> \in Seq({k, "/"})
        OBVIOUS
    <2>3. <<k>> \in Seq(T) /\ <<"/">> \in Seq(T)
        BY <1>3
    <2>. QED BY <2>1, <2>2, <2>3, SubstituteNothing
<1>9. m \in Seq(T) /\ c \in Seq(T)
    <2>1. m \in Seq(T)
        BY <1>3
    <2>. QED BY <2>1, KeyedTokens
<1>10. ASSUME NEW a \in Seq(T), NEW b \in Seq(T)
       PROVE  Substituted(a \o b, w) = Substituted(a, w) \o Substituted(b, w)
    BY <1>5, SubstituteConcat
<1>11. Substituted(<<k>> \o m, w) = <<k>> \o Substituted(m, w)
    BY <1>8, <1>9, <1>10
<1>12. Substituted(c, w) \in Behinds(k, Seq(Inner(Y)))
    BY <1>2, <1>7, <1>11 DEF Behinds
<1>13. Substituted(c, w) \in Keyed(Y)
    BY <1>12 DEF Keyed
<1>14. Substituted(<<"/">> \o c, w) = <<"/">> \o Substituted(c, w)
    BY <1>8, <1>9, <1>10
<1>. QED BY <1>13, <1>14

(* Substitution in a file name is substitution in its components.          *)
EachOf(cs, w) == [j \in DOMAIN cs |-> Substituted(cs[j], w)]

LEMMA SubstituteFile ==
    ASSUME NEW X, X \subseteq Wildcard, NEW w, Words(w), NEW cs \in Seq(Keyed(X))
    PROVE  /\ EachOf(cs, w) \in Seq(Keyed(X \ DOMAIN w))
           /\ Len(EachOf(cs, w)) = Len(cs)
           /\ Substituted(FileName(cs), w) = FileName(EachOf(cs, w))
<1>. DEFINE Y == X \ DOMAIN w
            es == [j \in DOMAIN cs |-> Substituted(cs[j], w)]
            T == Letters(X)
            L == Led(cs)
            G == [j \in DOMAIN L |-> Substituted(L[j], w)]
            M == Led(es)
<1>1. Len(cs) \in Nat /\ DOMAIN cs = 1..Len(cs) /\ \A j \in 1..Len(cs) : cs[j] \in Keyed(X)
    BY ElementOfSeq
<1>2. Y \subseteq Wildcard
    OBVIOUS
<1>3. \A j \in 1..Len(cs) : Substituted(cs[j], w) \in Keyed(Y)
    BY <1>1, SubstituteKeyed
<1>4. /\ es \in Seq(Keyed(Y)) /\ Len(es) = Len(cs)
      /\ \A j \in 1..Len(cs) : es[j] = Substituted(cs[j], w)
    <2>. DEFINE K == Keyed(Y)
    <2>1. es \in [1..Len(cs) -> K]
        BY <1>1, <1>3
    <2>3. \A j \in 1..Len(cs) : es[j] = Substituted(cs[j], w)
        BY <1>1
    <2>. HIDE DEF K, es
    <2>2. es \in Seq(K) /\ Len(es) = Len(cs)
        BY <1>1, <2>1
    <2>. QED BY <2>2, <2>3 DEF K
<1>. HIDE DEF es
<1>5. /\ FileName(cs) = FlattenSeq(L) /\ L \in Seq(Seq(T)) /\ Len(L) = Len(cs)
      /\ \A j \in 1..Len(cs) : L[j] = IF j = 1 THEN cs[j] ELSE <<"/">> \o cs[j]
    BY LedTokens
<1>6. /\ FileName(es) = FlattenSeq(M) /\ M \in Seq(Seq(Letters(Y))) /\ Len(M) = Len(cs)
      /\ \A j \in 1..Len(cs) : M[j] = IF j = 1 THEN es[j] ELSE <<"/">> \o es[j]
    BY <1>2, <1>4, LedTokens
<1>. HIDE DEF L, M
<1>7. Takes(w, T, T)
    BY WordsTake DEF Letters, Inner
<1>8. G \in Seq(Seq(T)) /\ Substituted(FlattenSeq(L), w) = FlattenSeq(G)
    BY <1>5, <1>7, SubstituteFlatten
<1>9. Len(G) = Len(cs) /\ \A j \in 1..Len(cs) : G[j] = Substituted(L[j], w)
    <2>1. DOMAIN L = 1..Len(cs)
        BY <1>5
    <2>. QED BY <1>1, <2>1
<1>. HIDE DEF G
<1>10. \A j \in 1..Len(G) : G[j] = M[j]
    <2>1. ASSUME NEW j \in 1..Len(cs) PROVE G[j] = M[j]
        <3>1. CASE j = 1
            <4>1. L[j] = cs[j] /\ M[j] = es[j]
                BY <1>5, <1>6, <3>1
            <4>. QED BY <1>4, <1>9, <4>1
        <3>2. CASE j # 1
            <4>1. L[j] = <<"/">> \o cs[j] /\ M[j] = <<"/">> \o es[j]
                BY <1>5, <1>6, <3>2
            <4>2. Substituted(<<"/">> \o cs[j], w) = <<"/">> \o Substituted(cs[j], w)
                BY <1>1, SubstituteKeyed
            <4>. QED BY <1>4, <1>9, <4>1, <4>2
        <3>. QED BY <3>1, <3>2
    <2>. QED BY <1>9, <2>1
<1>11. G = M
    <2>. DEFINE V == Letters(X) \cup Letters(Y)
    <2>1. G \in Seq(Seq(V)) /\ M \in Seq(Seq(V)) /\ Len(G) = Len(M)
        <3>3. Seq(T) \subseteq Seq(V) /\ Seq(Letters(Y)) \subseteq Seq(V)
            BY LargerSeq
        <3>. DEFINE ST == Seq(T)
                    SY == Seq(Letters(Y))
                    SV == Seq(V)
        <3>. HIDE DEF ST, SY, SV
        <3>4. ST \subseteq SV /\ SY \subseteq SV /\ G \in Seq(ST) /\ M \in Seq(SY)
            BY <1>6, <1>8, <3>3 DEF ST, SY, SV
        <3>5. G \in Seq(SV) /\ M \in Seq(SV)
            BY <3>4
        <3>. QED BY <1>6, <1>9, <3>5 DEF SV
    <2>. QED BY <1>10, <2>1, SeqEqual
<1>12. Substituted(FileName(cs), w) = FileName(es)
    BY <1>5, <1>6, <1>8, <1>11
<1>13. EachOf(cs, w) = es
    BY DEF EachOf, es
<1>. QED BY <1>4, <1>12, <1>13

-----------------------------------------------------------------------------
(* Where a token of a text of texts stands.                                *)
Holds(s, x) == \E p \in 1..Len(s) : s[p] = x

LEMMA HoldsConcat ==
    ASSUME NEW S, NEW a \in Seq(S), NEW b \in Seq(S), NEW x, Holds(a, x) \/ Holds(b, x)
    PROVE  Holds(a \o b, x)
<1>1. /\ a \o b \in Seq(S) /\ Len(a \o b) = Len(a) + Len(b)
      /\ \A j \in 1..(Len(a) + Len(b)) : (a \o b)[j] = IF j <= Len(a) THEN a[j] ELSE b[j - Len(a)]
    BY ConcatProperties
<1>. DEFINE c == a \o b
<1>. HIDE DEF c
<1>2. /\ Len(c) = Len(a) + Len(b)
      /\ \A j \in 1..(Len(a) + Len(b)) : c[j] = IF j <= Len(a) THEN a[j] ELSE b[j - Len(a)]
    BY <1>1 DEF c
<1>3. Len(a) \in Nat /\ Len(b) \in Nat
    OBVIOUS
<1>4. ASSUME NEW p \in 1..Len(a), a[p] = x PROVE Holds(c, x)
    <2>1. p \in 1..Len(c) /\ p <= Len(a)
        BY <1>2, <1>3
    <2>2. c[p] = x
        BY <1>2, <1>4, <2>1
    <2>. QED BY <2>1, <2>2 DEF Holds
<1>5. ASSUME NEW p \in 1..Len(b), b[p] = x PROVE Holds(c, x)
    <2>. DEFINE j == Len(a) + p
    <2>1. j \in 1..Len(c) /\ ~ j <= Len(a) /\ j - Len(a) = p
        BY <1>2, <1>3
    <2>. HIDE DEF j
    <2>2. c[j] = x
        BY <1>2, <1>5, <2>1
    <2>. QED BY <2>1, <2>2 DEF Holds
<1>. QED BY <1>4, <1>5 DEF Holds, c

LEMMA HoldsFlatten ==
    ASSUME NEW S, NEW ss \in Seq(Seq(S)), NEW j \in 1..Len(ss), NEW x, Holds(ss[j], x)
    PROVE  Holds(FlattenSeq(ss), x)
<1>1. PICK a, b \in Seq(S) : FlattenSeq(ss) = a \o (ss[j] \o b)
    BY FlattenAround
<1>2. ss[j] \in Seq(S)
    BY ElementOfSeq
<1>. DEFINE e == ss[j]
<1>. HIDE DEF e
<1>3. e \in Seq(S) /\ Holds(e, x) /\ FlattenSeq(ss) = a \o (e \o b)
    BY <1>1, <1>2 DEF e
<1>4. e \o b \in Seq(S) /\ Holds(e \o b, x)
    BY <1>3, ConcatProperties, HoldsConcat
<1>. DEFINE d == e \o b
<1>. HIDE DEF d
<1>5. d \in Seq(S) /\ Holds(d, x)
    BY <1>4 DEF d
<1>6. Holds(a \o d, x)
    BY <1>5, HoldsConcat
<1>. QED BY <1>3, <1>6 DEF d

-----------------------------------------------------------------------------
(* The components of a query's path are a key and other tokens, if hashes  *)
(* are.                                                                    *)
HashesAreAtoms(q) == \A k \in Oversized(q) : Digest(q[k]) \in Atom

LEMMA ValueLetters ==
    ASSUME NEW q, IsQuery(q), NEW k \in DOMAIN q
    PROVE  /\ WildcardsOf(q) \subseteq Wildcard
           /\ q[k] \in Seq(Atom \cup WildcardsOf(q) \cup {"/"})
           /\ Range(q[k]) \cap Wildcard \subseteq WildcardsOf(q)
<1>1. WildcardsOf(q) \subseteq Wildcard /\ Range(q[k]) \cap Wildcard \subseteq WildcardsOf(q)
    BY DEF WildcardsOf
<1>2. q[k] \in Seq(Atom \cup Wildcard \cup {"/"})
    BY DEF IsQuery, IsValue
<1>. DEFINE v == q[k]
            X == WildcardsOf(q)
<1>3. v \in Seq(Atom \cup Wildcard \cup {"/"}) /\ Range(v) \cap Wildcard \subseteq X
    BY <1>1, <1>2
<1>. HIDE DEF v, X
<1>4. Len(v) \in Nat /\ DOMAIN v = 1..Len(v)
    BY <1>3
<1>5. ASSUME NEW j \in 1..Len(v) PROVE v[j] \in Atom \cup X \cup {"/"}
    <2>1. v[j] \in Atom \cup Wildcard \cup {"/"}
        BY <1>3, ElementOfSeq
    <2>2. v[j] \in Range(v)
        BY <1>4 DEF Range
    <2>. QED BY <1>3, <2>1, <2>2
<1>6. v \in Seq(Atom \cup X \cup {"/"})
    <2>. DEFINE V == Atom \cup X \cup {"/"}
    <2>1. \A j \in 1..Len(v) : v[j] \in V
        BY <1>5
    <2>2. v = [j \in 1..Len(v) |-> v[j]]
        BY <1>3, <1>4
    <2>. HIDE DEF V
    <2>3. v \in Seq(V)
        BY <1>4, <2>1, <2>2
    <2>. QED BY <2>3 DEF V
<1>. QED BY <1>1, <1>6 DEF v, X

LEMMA PieceKeyed ==
    ASSUME NEW q, IsQuery(q), HashesAreAtoms(q), NEW k \in DOMAIN q
    PROVE  Piece(q, k) \in Keyed(WildcardsOf(q))
<1>. DEFINE X == WildcardsOf(q)
            S == Token \cup {Digest(q[k])}
            m == Shown(q, k)
            p == Piece(q, k)
<1>1. /\ k \in Keys /\ SUFFIX \in Inner(X) /\ HASH_MARK \in Inner(X)
    BY DEF IsQuery, Inner
<1>2. m \in Seq(Inner(X))
    <2>1. CASE k \in Oversized(q)
        <3>1. Digest(q[k]) \in Inner(X)
            BY <2>1 DEF HashesAreAtoms, Inner
        <3>2. <<HASH_MARK, Digest(q[k])>> \in Seq(Inner(X))
            BY <1>1, <3>1
        <3>. QED BY <2>1, <3>2 DEF Shown
    <2>2. CASE k \notin Oversized(q)
        <3>. DEFINE v == q[k]
        <3>1. v \in Seq(Atom \cup X \cup {"/"}) /\ IsValue(v)
            BY ValueLetters DEF IsQuery
        <3>. HIDE DEF v
        <3>2. /\ Joined(v) \in Seq(Token) /\ Len(Joined(v)) = Len(v)
              /\ \A j \in 1..Len(v) : Joined(v)[j] = IF v[j] = "/" THEN "+" ELSE v[j]
            BY <3>1, JoinedType
        <3>3. \A j \in 1..Len(v) : v[j] \in Atom \cup X \cup {"/"}
            BY <3>1, ElementOfSeq
        <3>. DEFINE u == Joined(v)
        <3>. HIDE DEF u
        <3>4. \A j \in 1..Len(u) : u[j] \in Inner(X)
            BY <3>2, <3>3 DEF Inner, u
        <3>. DEFINE Y == Inner(X)
        <3>. HIDE DEF Y
        <3>5. u \in Seq(Token) /\ \A j \in 1..Len(u) : u[j] \in Y
            BY <3>2, <3>4 DEF u, Y
        <3>6. Len(u) \in Nat /\ u = [j \in 1..Len(u) |-> u[j]]
            BY <3>5
        <3>7. u \in Seq(Y)
            BY <3>5, <3>6
        <3>. QED BY <2>2, <3>7 DEF Shown, u, v, Y
    <2>. QED BY <2>1, <2>2
<1>3. /\ IsLast(q, k) => p = Append(<<k>> \o m, SUFFIX)
      /\ ~ IsLast(q, k) => p = <<k>> \o m
    BY PieceOfCore DEF Core
<1>. HIDE DEF p, m
<1>4. <<k>> \o Append(m, SUFFIX) = Append(<<k>> \o m, SUFFIX)
    <2>. DEFINE T == {k} \cup Inner(X)
    <2>1. m \in Seq(T)
        BY <1>2, LargerSeq
    <2>2. <<k>> \in Seq(T) /\ SUFFIX \in T
        BY <1>1
    <2>. HIDE DEF T
    <2>3. <<k>> \in Seq(T) /\ m \in Seq(T) /\ SUFFIX \in T
        BY <2>1, <2>2
    <2>. QED BY <2>3, ConcatThenAppend
<1>5. Append(m, SUFFIX) \in Seq(Inner(X))
    BY <1>1, <1>2, AppendProperties
<1>6. p \in Behinds(k, Seq(Inner(X)))
    BY <1>2, <1>3, <1>4, <1>5 DEF Behinds
<1>7. p \in Keyed(X)
    BY <1>1, <1>6 DEF Keyed
<1>. QED BY <1>7 DEF p

LEMMA SuffixShape ==
    ASSUME NEW q, IsQuery(q), HashesAreAtoms(q)
    PROVE  /\ LocalSuffix(q) \in Seq(Keyed(WildcardsOf(q))) /\ LocalSuffix(q) # <<>>
           /\ WildcardsOf(q) \subseteq Wildcard
<1>. DEFINE K == Keyed(WildcardsOf(q))
            l == LocalSuffix(q)
            n == Len(KeysOf(q))
            P == {Piece(q, k) : k \in DOMAIN q}
<1>1. /\ n \in Nat \ {0} /\ l \in Seq(P) /\ Len(l) = n
    BY SuffixPieces
<1>2. P \subseteq K
    BY PieceKeyed
<1>3. WildcardsOf(q) \subseteq Wildcard
    BY DEF WildcardsOf
<1>. HIDE DEF l, n, P, K
<1>4. l \in Seq(K)
    BY <1>1, <1>2, LargerSeq
<1>5. l # <<>>
    BY <1>1, EmptySeq
<1>. QED BY <1>3, <1>4, <1>5 DEF l, K

(* A wildcard of a query whose path has all its wildcards shows in it.     *)
LEMMA WildcardShows ==
    ASSUME NEW q, IsQuery(q), HashesAreAtoms(q), HasSuffix(q), NEW t \in WildcardsOf(q)
    PROVE  Holds(FileName(LocalSuffix(q)), t)
<1>1. PICK k \in DOMAIN q : t \in Range(q[k]) /\ t \in Wildcard
    BY DEF WildcardsOf
<1>2. k \notin Oversized(q)
    BY <1>1 DEF HasSuffix, HasWildcard
<1>. DEFINE X == WildcardsOf(q)
            l == LocalSuffix(q)
            S == Token \cup {Digest(q[k])}
            m == Joined(q[k])
            L == Led(l)
<1>3. IsValue(q[k]) /\ Shown(q, k) = m /\ k \in S
    BY <1>2, Tokens DEF IsQuery, Shown
<1>4. m \in Seq(S) /\ Holds(m, t)
    <2>1. /\ q[k] \in Seq(Token) /\ m \in Seq(Token) /\ Len(m) = Len(q[k])
          /\ \A j \in 1..Len(q[k]) : m[j] = IF q[k][j] = "/" THEN "+" ELSE q[k][j]
        BY <1>3, JoinedType
    <2>2. PICK j \in DOMAIN q[k] : q[k][j] = t
        BY <1>1 DEF Range
    <2>3. DOMAIN q[k] = 1..Len(q[k])
        BY <2>1
    <2>4. t # "/"
        BY <1>1, TokensApart
    <2>. HIDE DEF m
    <2>5. Holds(m, t)
        BY <2>1, <2>2, <2>3, <2>4 DEF Holds
    <2>6. m \in Seq(S)
        BY <2>1, LargerSeq
    <2>. QED BY <2>5, <2>6
<1>. HIDE DEF m
<1>5. <<k>> \in Seq(S) /\ SUFFIX \in S
    BY <1>3, Tokens
<1>6. /\ Core(q, k) = <<k>> \o m /\ Core(q, k) \in Seq(S)
      /\ IsLast(q, k) => Piece(q, k) = Append(Core(q, k), SUFFIX)
      /\ ~ IsLast(q, k) => Piece(q, k) = Core(q, k)
    BY <1>3, PieceOfCore DEF Core
<1>. DEFINE c == Core(q, k)
            p == Piece(q, k)
<1>. HIDE DEF c, S
<1>7. Holds(c, t) /\ c \in Seq(S)
    <2>1. Holds(<<k>> \o m, t)
        BY <1>4, <1>5, HoldsConcat
    <2>. QED BY <1>6, <2>1 DEF c
<1>8. Holds(p, t)
    <2>1. <<SUFFIX>> \in Seq(S) /\ Append(c, SUFFIX) = c \o <<SUFFIX>>
        BY <1>5, <1>7, AppendIsConcat
    <2>2. Holds(c \o <<SUFFIX>>, t)
        BY <1>7, <2>1, HoldsConcat
    <2>. QED BY <1>6, <1>7, <2>1, <2>2 DEF c
<1>. HIDE DEF p
<1>9. l \in Seq(Keyed(X)) /\ X \subseteq Wildcard
    BY SuffixShape
<1>10. PICK j \in 1..Len(KeysOf(q)) : KeysOf(q)[j] = k
    <2>1. /\ KeysOf(q) \in Seq(DOMAIN q) /\ Range(KeysOf(q)) = DOMAIN q
        BY KeysInOrder DEF IsQuery
    <2>. DEFINE ks == KeysOf(q)
    <2>. HIDE DEF ks
    <2>2. DOMAIN ks = 1..Len(ks) /\ \E i \in DOMAIN ks : ks[i] = k
        BY <2>1 DEF Range, ks
    <2>. QED BY <2>2 DEF ks
<1>11. l[j] = p /\ j \in 1..Len(l)
    BY <1>10, SuffixPieces DEF p
<1>. HIDE DEF l
<1>12. /\ FileName(l) = FlattenSeq(L) /\ L \in Seq(Seq(Letters(X))) /\ Len(L) = Len(l)
       /\ L[j] = IF j = 1 THEN l[j] ELSE <<"/">> \o l[j]
    BY <1>9, <1>11, LedTokens
<1>. HIDE DEF L
<1>13. p \in Seq(Letters(X))
    <2>1. p \in Keyed(X)
        BY <1>9, <1>11, ElementOfSeq
    <2>. QED BY <1>9, <2>1, KeyedTokens
<1>14. Holds(L[j], t)
    <2>1. <<"/">> \in Seq(Letters(X))
        BY DEF Letters
    <2>2. Holds(<<"/">> \o p, t)
        BY <1>8, <1>13, <2>1, HoldsConcat
    <2>. QED BY <1>8, <1>11, <1>12, <2>2
<1>15. Holds(FlattenSeq(L), t)
    BY <1>11, <1>12, <1>14, HoldsFlatten
<1>. QED BY <1>12, <1>15 DEF l

-----------------------------------------------------------------------------
(* Values from a requested path are words: a "/" in one would be followed  *)
(* by a key there, but is followed by what follows the wildcard, which is  *)
(* in the pattern's component.                                             *)
LEMMA ThreeParts ==
    ASSUME NEW S, NEW a \in Seq(S), NEW e \in Seq(S), NEW b \in Seq(S)
    PROVE  /\ a \o (e \o b) \in Seq(S)
           /\ Len(a \o (e \o b)) = Len(a) + Len(e) + Len(b)
           /\ \A j \in 1..Len(e) : (a \o (e \o b))[Len(a) + j] = e[j]
           /\ \A j \in 1..Len(b) : (a \o (e \o b))[Len(a) + Len(e) + j] = b[j]
<1>. DEFINE d == e \o b
            g == a \o d
<1>1. /\ d \in Seq(S) /\ Len(d) = Len(e) + Len(b)
      /\ \A j \in 1..(Len(e) + Len(b)) : d[j] = IF j <= Len(e) THEN e[j] ELSE b[j - Len(e)]
    BY ConcatProperties
<1>. HIDE DEF d
<1>2. /\ g \in Seq(S) /\ Len(g) = Len(a) + Len(d)
      /\ \A j \in 1..(Len(a) + Len(d)) : g[j] = IF j <= Len(a) THEN a[j] ELSE d[j - Len(a)]
    <2>1. a \in Seq(S) /\ d \in Seq(S)
        BY <1>1
    <2>. QED BY <2>1, ConcatProperties
<1>. HIDE DEF g
<1>3. Len(a) \in Nat /\ Len(e) \in Nat /\ Len(b) \in Nat
    OBVIOUS
<1>4. ASSUME NEW j \in 1..(Len(e) + Len(b)) PROVE g[Len(a) + j] = d[j]
    <2>. DEFINE i == Len(a) + j
    <2>1. i \in 1..(Len(a) + Len(d)) /\ ~ i <= Len(a) /\ i - Len(a) = j
        BY <1>1, <1>3
    <2>. HIDE DEF i
    <2>2. g[i] = d[j]
        BY <1>2, <2>1
    <2>. QED BY <2>2 DEF i
<1>5. ASSUME NEW j \in 1..Len(e) PROVE g[Len(a) + j] = e[j]
    <2>1. j \in 1..(Len(e) + Len(b)) /\ j <= Len(e)
        BY <1>3
    <2>. QED BY <1>1, <1>4, <2>1
<1>6. ASSUME NEW j \in 1..Len(b) PROVE g[Len(a) + Len(e) + j] = b[j]
    <2>. DEFINE i == Len(e) + j
    <2>1. i \in 1..(Len(e) + Len(b)) /\ ~ i <= Len(e) /\ i - Len(e) = j
          /\ Len(a) + Len(e) + j = Len(a) + i
        BY <1>3
    <2>. HIDE DEF i
    <2>2. g[Len(a) + i] = d[i] /\ d[i] = b[j]
        BY <1>1, <1>4, <2>1
    <2>. QED BY <2>1, <2>2
<1>7. Len(g) = Len(a) + Len(e) + Len(b)
    BY <1>1, <1>2, <1>3
<1>. QED BY <1>2, <1>5, <1>6, <1>7 DEF g, d

Spelled(w) == DOMAIN w \subseteq Wildcard
              /\ \A x \in DOMAIN w : w[x] \in Seq(Atom \cup {"/"}) \ {<<>>}

LEMMA SlashFree ==
    ASSUME NEW X, X \subseteq Wildcard, NEW f \in Seq(Letters(X)), KeysFollowSlashes(f),
           NEW w, Spelled(w), KeysFollowSlashes(Substituted(f, w)),
           NEW t \in DOMAIN w, Holds(f, t)
    PROVE  w[t] \in Seq(Atom) \ {<<>>}
<1>. DEFINE B == Becoming(f, w)
            g == Substituted(f, w)
            e == w[t]
<1>1. PICK p \in 1..Len(f) : f[p] = t
    BY DEF Holds
<1>2. f \in Seq(Token) /\ Len(f) \in Nat /\ DOMAIN f = 1..Len(f)
    <2>1. f \in Seq(Token)
        BY InnerApart, LargerSeq
    <2>. QED BY <2>1
<1>3. Takes(w, Token, Token)
    <2>1. ASSUME NEW x \in Token PROVE Becomes(x, w) \in Seq(Token)
        <3>1. CASE x \in DOMAIN w
            <4>1. w[x] \in Seq(Atom \cup {"/"}) /\ Atom \cup {"/"} \subseteq Token
                BY <3>1, Tokens DEF Spelled
            <4>2. w[x] \in Seq(Token)
                BY <4>1, LargerSeq
            <4>. QED BY <3>1, <4>2 DEF Becomes
        <3>2. CASE x \notin DOMAIN w
            BY <3>2 DEF Becomes
        <3>. QED BY <3>1, <3>2
    <2>. QED BY <2>1 DEF Takes
<1>4. /\ g = FlattenSeq(B) /\ B \in Seq(Seq(Token)) /\ Len(B) = Len(f)
      /\ \A j \in 1..Len(f) : B[j] = Becomes(f[j], w)
    <2>1. f \in Seq(Token) /\ Takes(w, Token, Token)
        BY <1>2, <1>3
    <2>2. g = FlattenSeq(B) /\ B \in Seq(Seq(Token)) /\ Len(B) = Len(f)
        BY <2>1, BecomingType
    <2>3. \A j \in 1..Len(f) : B[j] = Becomes(f[j], w)
        BY <2>1, BecomingType
    <2>. QED BY <2>2, <2>3
<1>. HIDE DEF B, g
<1>15. p \in 1..Len(B) /\ Len(B) \in Nat /\ B \in Seq(Seq(Token))
    BY <1>1, <1>2, <1>4
<1>5. B[p] = e
    BY <1>1, <1>4 DEF Becomes
<1>6. PICK a, b \in Seq(Token) :
        /\ FlattenSeq(B) = a \o (B[p] \o b)
        /\ p = Len(B) => b = <<>>
        /\ p < Len(B) => \E c \in Seq(Token) : b = B[p + 1] \o c
    BY <1>15, FlattenAround
<1>7. e \in Seq(Token) /\ e \in Seq(Atom \cup {"/"}) /\ e # <<>>
    <2>1. e \in Seq(Atom \cup {"/"}) /\ e # <<>> /\ Atom \cup {"/"} \subseteq Token
        BY Tokens DEF Spelled
    <2>. HIDE DEF e
    <2>. QED BY <2>1, LargerSeq
<1>. HIDE DEF e
<1>8. /\ Len(g) = Len(a) + Len(e) + Len(b)
      /\ \A j \in 1..Len(e) : g[Len(a) + j] = e[j]
      /\ \A j \in 1..Len(b) : g[Len(a) + Len(e) + j] = b[j]
    <2>1. g = a \o (e \o b)
        BY <1>4, <1>5, <1>6
    <2>2. a \in Seq(Token) /\ e \in Seq(Token) /\ b \in Seq(Token)
        BY <1>6, <1>7
    <2>. QED BY <2>1, <2>2, ThreeParts
<1>9. Len(a) \in Nat /\ Len(e) \in Nat /\ Len(b) \in Nat
    BY <1>7
<1>10. \A j \in 1..Len(e) : e[j] \in Atom \cup {"/"}
    BY <1>7, ElementOfSeq
<1>11. Keys \cap (Atom \cup {"/"}) = {} /\ "/" \notin Wildcard /\ Keys \cap Wildcard = {}
    BY TokensApart
<1>12. ASSUME NEW i \in 1..Len(e), e[i] = "/" PROVE FALSE
    <2>. DEFINE m == Len(a) + i
    <2>1. m \in 1..Len(g) /\ g[m] = "/"
        BY <1>8, <1>9, <1>12
    <2>2. m < Len(g) /\ g[m + 1] \in Keys
        <3>. HIDE DEF m
        <3>. QED BY <2>1 DEF KeysFollowSlashes, g
    <2>3. CASE i < Len(e)
        <3>1. i + 1 \in 1..Len(e) /\ m + 1 = Len(a) + (i + 1)
            BY <1>9, <2>3
        <3>2. g[m + 1] = e[i + 1]
            BY <1>8, <3>1
        <3>. QED BY <1>10, <1>11, <2>2, <3>1, <3>2
    <2>4. CASE i = Len(e)
        <3>1. Len(b) # 0 /\ 1 \in 1..Len(b) /\ m + 1 = Len(a) + Len(e) + 1
            BY <1>8, <1>9, <2>2, <2>4
        <3>2. b[1] \in Keys
            BY <1>8, <2>2, <3>1
        <3>3. p < Len(B)
            <4>1. b # <<>>
                BY <3>1
            <4>2. p # Len(B)
                BY <1>6, <4>1
            <4>. QED BY <1>15, <4>2
        <3>. DEFINE n == p + 1
        <3>4. n \in 1..Len(f) /\ p < Len(f)
            BY <1>1, <1>2, <1>4, <3>3
        <3>5. f[n] \notin Keys
            <4>1. f[p] # "/"
                BY <1>1, <1>11 DEF Spelled
            <4>. QED BY <1>1, <3>4, <4>1 DEF KeysFollowSlashes
        <3>6. PICK c \in Seq(Token) : b = B[n] \o c
            BY <1>6, <3>3
        <3>. HIDE DEF n
        <3>7. B[n] = Becomes(f[n], w)
            BY <1>4, <3>4
        <3>8. B[n] \in Seq(Token) /\ Len(B[n]) \in Nat \ {0} /\ B[n][1] \notin Keys
            <4>1. CASE f[n] \in DOMAIN w
                <5>. DEFINE x == w[f[n]]
                <5>1. x \in Seq(Atom \cup {"/"}) /\ x # <<>>
                    BY <4>1 DEF Spelled
                <5>2. B[n] = x
                    BY <3>7, <4>1 DEF Becomes
                <5>. HIDE DEF x
                <5>3. Len(x) \in Nat \ {0} /\ 1 \in 1..Len(x)
                    BY <5>1, EmptySeq
                <5>4. x[1] \in Atom \cup {"/"}
                    BY <5>1, <5>3, ElementOfSeq
                <5>5. x \in Seq(Token)
                    BY <5>1, Tokens, LargerSeq
                <5>. QED BY <1>11, <5>2, <5>3, <5>4, <5>5
            <4>2. CASE f[n] \notin DOMAIN w
                <5>1. B[n] = <<f[n]>>
                    BY <3>7, <4>2 DEF Becomes
                <5>2. f[n] \in Token
                    BY <1>2, <3>4, ElementOfSeq
                <5>. QED BY <3>5, <5>1, <5>2
            <4>. QED BY <4>1, <4>2
        <3>. DEFINE d == B[n]
        <3>. HIDE DEF d
        <3>9. d \in Seq(Token) /\ Len(d) \in Nat \ {0} /\ d[1] \notin Keys /\ b = d \o c
            BY <3>6, <3>8 DEF d
        <3>10. \A j \in 1..(Len(d) + Len(c)) : (d \o c)[j] = IF j <= Len(d) THEN d[j] ELSE c[j - Len(d)]
            BY <3>9, ConcatProperties
        <3>11. 1 \in 1..(Len(d) + Len(c)) /\ 1 <= Len(d)
            BY <3>6, <3>9
        <3>12. b[1] = d[1]
            BY <3>9, <3>10, <3>11
        <3>. QED BY <3>2, <3>9, <3>12
    <2>. QED BY <1>9, <2>3, <2>4
<1>13. \A j \in 1..Len(e) : e[j] \in Atom
    BY <1>10, <1>12
<1>14. e \in Seq(Atom)
    <2>1. e = [j \in 1..Len(e) |-> e[j]]
        BY <1>7
    <2>. QED BY <1>9, <1>13, <2>1
<1>. QED BY <1>7, <1>14 DEF e

Matched(w, r) == \A t \in DOMAIN w : w[t] \in Parts(r)

LEMMA PartType ==
    ASSUME NEW S, NEW r \in Seq(S), NEW part \in Parts(r)
    PROVE  part \in Seq(S) /\ part # <<>>
<1>1. part # <<>> /\ \E m, n \in DOMAIN r : part = SubSeq(r, m, n)
    BY DEF Parts
<1>2. PICK m, n \in DOMAIN r : part = SubSeq(r, m, n)
    BY <1>1
<1>3. m \in Int /\ n \in Int /\ DOMAIN r = 1..Len(r) /\ Len(r) \in Nat
    OBVIOUS
<1>4. \A j \in m..n : r[j] \in S
    <2>1. \A j \in m..n : j \in 1..Len(r)
        BY <1>3
    <2>. QED BY <2>1, ElementOfSeq
<1>5. SubSeq(r, m, n) \in Seq(S)
    BY <1>3, <1>4, SubSeqProperties
<1>. QED BY <1>1, <1>2, <1>5

LEMMA MatchedWords ==
    ASSUME NEW q, IsQuery(q), HashesAreAtoms(q), HasSuffix(q),
           NEW w, DOMAIN w = WildcardsOf(q),
           NEW r \in Seq(Letters({})), KeysFollowSlashes(r), Matched(w, r),
           Substituted(FileName(LocalSuffix(q)), w) = r,
           NEW s, IsQuery(s), s = [k \in DOMAIN q |-> Substituted(q[k], w)]
    PROVE  Words(w)
<1>. DEFINE X == WildcardsOf(q)
            f == FileName(LocalSuffix(q))
<1>1. /\ LocalSuffix(q) \in Seq(Keyed(X)) /\ LocalSuffix(q) # <<>> /\ X \subseteq Wildcard
    BY SuffixShape
<1>2. f \in Seq(Letters(X)) /\ KeysFollowSlashes(f)
    BY <1>1, LedTokens, FileTokens
<1>3. ASSUME NEW t \in DOMAIN w PROVE w[t] \in Seq(Letters({})) /\ w[t] # <<>>
    BY PartType DEF Matched
<1>4. Takes(w, Token, Token)
    <2>1. ASSUME NEW x \in Token PROVE Becomes(x, w) \in Seq(Token)
        <3>1. CASE x \in DOMAIN w
            <4>1. Letters({}) \subseteq Token
                BY InnerApart
            <4>2. w[x] \in Seq(Token)
                BY <1>3, <3>1, <4>1, LargerSeq
            <4>. QED BY <3>1, <4>2 DEF Becomes
        <3>2. CASE x \notin DOMAIN w
            BY <3>2 DEF Becomes
        <3>. QED BY <3>1, <3>2
    <2>. QED BY <2>1 DEF Takes
<1>5. ASSUME NEW t \in DOMAIN w PROVE w[t] \in Seq(Atom \cup {"/"})
    <2>1. PICK k \in DOMAIN q : t \in Range(q[k])
        BY DEF WildcardsOf
    <2>. DEFINE v == q[k]
                B == Becoming(v, w)
                g == Substituted(v, w)
                e == w[t]
    <2>2. v \in Seq(Token)
        BY JoinedType DEF IsQuery
    <2>3. g \in Seq(Atom \cup Wildcard \cup {"/"})
        <3>1. s[k] = g /\ k \in DOMAIN s
            OBVIOUS
        <3>2. s[k] \in Seq(Atom \cup Wildcard \cup {"/"})
            BY <3>1 DEF IsQuery, IsValue
        <3>. QED BY <3>1, <3>2
    <2>4. PICK p \in DOMAIN v : v[p] = t
        BY <2>1 DEF Range
    <2>. HIDE DEF v
    <2>5. g = FlattenSeq(B) /\ B \in Seq(Seq(Token)) /\ Len(B) = Len(v)
        BY <1>4, <2>2, BecomingType
    <2>6. \A j \in 1..Len(v) : B[j] = Becomes(v[j], w)
        BY <1>4, <2>2, BecomingType
    <2>7. DOMAIN v = 1..Len(v) /\ Len(v) \in Nat
        BY <2>2
    <2>. HIDE DEF B, g
    <2>8. p \in 1..Len(B) /\ B[p] = e
        BY <2>4, <2>5, <2>6, <2>7 DEF Becomes
    <2>9. PICK a, b \in Seq(Token) :
            /\ FlattenSeq(B) = a \o (B[p] \o b)
            /\ p = Len(B) => b = <<>>
            /\ p < Len(B) => \E c \in Seq(Token) : b = B[p + 1] \o c
        <3>1. B \in Seq(Seq(Token)) /\ p \in 1..Len(B)
            BY <2>5, <2>8
        <3>. QED BY <3>1, FlattenAround
    <2>10. e \in Seq(Letters({})) /\ e \in Seq(Token)
        <3>1. Letters({}) \subseteq Token
            BY InnerApart
        <3>. QED BY <1>3, <3>1, LargerSeq
    <2>. HIDE DEF e
    <2>11. g = a \o (e \o b)
        BY <2>5, <2>8, <2>9
    <2>12. /\ Len(g) = Len(a) + Len(e) + Len(b)
           /\ \A j \in 1..Len(e) : g[Len(a) + j] = e[j]
        BY <2>10, <2>11, ThreeParts
    <2>13. Len(a) \in Nat /\ Len(e) \in Nat /\ Len(b) \in Nat
        BY <2>10
    <2>14. ASSUME NEW j \in 1..Len(e) PROVE e[j] \in Atom \cup {"/"}
        <3>. DEFINE m == Len(a) + j
        <3>1. m \in 1..Len(g)
            BY <2>12, <2>13
        <3>2. g[m] = e[j]
            BY <2>12
        <3>. HIDE DEF m
        <3>3. g[m] \in Atom \cup Wildcard \cup {"/"}
            BY <2>3, <3>1, ElementOfSeq
        <3>4. e[j] \in Letters({})
            BY <2>10, ElementOfSeq
        <3>5. Letters({}) \cap Wildcard = {}
            BY TokensApart DEF Letters, Inner
        <3>. QED BY <3>2, <3>3, <3>4, <3>5
    <2>15. e = [j \in 1..Len(e) |-> e[j]]
        BY <2>10
    <2>16. e \in Seq(Atom \cup {"/"})
        BY <2>13, <2>14, <2>15
    <2>. QED BY <2>16 DEF e
<1>6. Spelled(w)
    BY <1>1, <1>3, <1>5 DEF Spelled
<1>7. ASSUME NEW t \in DOMAIN w PROVE w[t] \in Seq(Atom) \ {<<>>}
    <2>1. Holds(f, t)
        BY WildcardShows
    <2>2. KeysFollowSlashes(Substituted(f, w))
        OBVIOUS
    <2>. HIDE DEF f
    <2>. QED BY <1>1, <1>2, <1>6, <2>1, <2>2, SlashFree
<1>. QED BY <1>1, <1>7 DEF Words

(* A job's query has no wildcards.                                         *)
LEMMA SubstitutedQuery ==
    ASSUME NEW q, IsQuery(q), NEW w, Words(w), DOMAIN w = WildcardsOf(q),
           NEW s, s = [k \in DOMAIN q |-> Substituted(q[k], w)]
    PROVE  WildcardsOf(s) = {} /\ DOMAIN s = DOMAIN q
<1>1. ASSUME NEW k \in DOMAIN q PROVE Range(s[k]) \cap Wildcard = {}
    <2>. DEFINE T == Atom \cup WildcardsOf(q) \cup {"/"}
                U == Atom \cup {"/"}
                v == s[k]
    <2>1. q[k] \in Seq(T)
        BY ValueLetters
    <2>2. Takes(w, T, U)
        <3>1. ASSUME NEW x \in T PROVE Becomes(x, w) \in Seq(U)
            <4>1. CASE x \in DOMAIN w
                <5>1. w[x] \in Seq(Atom)
                    BY <4>1 DEF Words
                <5>2. w[x] \in Seq(U)
                    BY <5>1, LargerSeq
                <5>. QED BY <4>1, <5>2 DEF Becomes
            <4>2. CASE x \notin DOMAIN w
                <5>1. x \in U
                    BY <4>2
                <5>2. <<x>> \in Seq(U)
                    BY <5>1
                <5>. QED BY <4>2, <5>2 DEF Becomes
            <4>. QED BY <4>1, <4>2
        <3>. HIDE DEF T, U
        <3>. QED BY <3>1 DEF Takes
    <2>3. v \in Seq(U)
        <3>. HIDE DEF T, U
        <3>1. Substituted(q[k], w) \in Seq(U)
            BY <2>1, <2>2, BecomingType
        <3>. QED BY <3>1
    <2>4. U \cap Wildcard = {}
        BY TokensApart
    <2>. HIDE DEF v, U
    <2>5. \A j \in DOMAIN v : v[j] \in U
        BY <2>3, ElementOfSeq
    <2>. QED BY <2>4, <2>5 DEF Range, v
<1>. QED BY <1>1 DEF WildcardsOf

LEMMA SubstitutedComponents ==
    ASSUME NEW X, X \subseteq Wildcard, NEW w, Words(w), NEW cs \in Seq(Keyed(X)), Len(cs) # 0
    PROVE  \E es \in Seq(Keyed(X \ DOMAIN w)) :
                es # <<>> /\ Substituted(FileName(cs), w) = FileName(es)
<1>. DEFINE es == EachOf(cs, w)
<1>1. /\ es \in Seq(Keyed(X \ DOMAIN w)) /\ Len(es) = Len(cs)
      /\ Substituted(FileName(cs), w) = FileName(es)
    BY SubstituteFile
<1>. HIDE DEF es
<1>2. es # <<>>
    BY <1>1, EmptySeq
<1>. QED BY <1>1, <1>2

(* Substituting in the pattern's path gives the path of the job's query,   *)
(* if no component of that is hashed.                                      *)
LEMMA SubstitutedSuffix ==
    ASSUME NEW q, IsQuery(q), HashesAreAtoms(q), HasSuffix(q),
           NEW w, Words(w), DOMAIN w = WildcardsOf(q),
           NEW s, IsQuery(s), s = [k \in DOMAIN q |-> Substituted(q[k], w)], Oversized(s) = {}
    PROVE  Substituted(FileName(LocalSuffix(q)), w) = FileName(LocalSuffix(s))
<1>. DEFINE X == WildcardsOf(q)
            ls == LocalSuffix(q)
            ms == LocalSuffix(s)
            es == EachOf(ls, w)
            ks == KeysOf(q)
            n == Len(ks)
<1>1. DOMAIN s = DOMAIN q /\ KeysOf(s) = ks
    <2>1. DOMAIN s = DOMAIN q
        OBVIOUS
    <2>. QED BY <2>1 DEF KeysOf
<1>2. ASSUME NEW k \in DOMAIN q PROVE k \notin Oversized(q)
    <2>1. SUFFICES ASSUME k \in Oversized(q) PROVE FALSE
        OBVIOUS
    <2>2. Range(q[k]) \cap Wildcard = {}
        BY <2>1 DEF HasSuffix, HasWildcard
    <2>. DEFINE v == q[k]
                T == Range(v)
    <2>3. v \in Seq(T)
        <3>1. v \in Seq(Token)
            BY JoinedType DEF IsQuery
        <3>. HIDE DEF v
        <3>2. Len(v) \in Nat /\ DOMAIN v = 1..Len(v) /\ v = [j \in 1..Len(v) |-> v[j]]
            BY <3>1
        <3>3. \A j \in 1..Len(v) : v[j] \in T
            BY <3>2 DEF Range
        <3>. HIDE DEF T
        <3>. QED BY <3>2, <3>3
    <2>4. T \cap DOMAIN w = {}
        BY <2>2 DEF Words
    <2>5. Substituted(v, w) = v
        <3>. HIDE DEF T, v
        <3>. QED BY <2>3, <2>4, SubstituteNothing
    <2>6. s[k] = q[k] /\ Component(s, k) = Component(q, k)
        <3>1. s[k] = q[k]
            BY <2>5
        <3>. HIDE DEF v, T
        <3>. QED BY <1>1, <3>1 DEF Component
    <2>7. k \in Oversized(s)
        BY <1>1, <2>1, <2>6 DEF Oversized
    <2>. QED BY <2>7
<1>3. /\ n \in Nat \ {0} /\ Len(ls) = n
      /\ \A j \in 1..n : ks[j] \in DOMAIN q /\ ls[j] = Piece(q, ks[j])
    BY SuffixPieces
<1>4. Len(ms) = n /\ \A j \in 1..n : ms[j] = Piece(s, ks[j])
    BY <1>1, SuffixPieces
<1>5. /\ ls \in Seq(Keyed(X)) /\ X \subseteq Wildcard
    BY SuffixShape
<1>6. ms \in Seq(Keyed(WildcardsOf(s)))
    <2>1. HashesAreAtoms(s)
        BY DEF HashesAreAtoms
    <2>. QED BY <2>1, SuffixShape
<1>. HIDE DEF ls, ms, ks, n
<1>7. /\ es \in Seq(Keyed(X \ DOMAIN w)) /\ Len(es) = Len(ls)
      /\ Substituted(FileName(ls), w) = FileName(es)
    <2>1. X \subseteq Wildcard /\ Words(w) /\ ls \in Seq(Keyed(X))
        BY <1>5
    <2>. HIDE DEF X
    <2>2. EachOf(ls, w) \in Seq(Keyed(X \ DOMAIN w))
        BY <2>1, SubstituteFile
    <2>3. Len(EachOf(ls, w)) = Len(ls)
        BY <2>1, SubstituteFile, ZenonT(30)
    <2>4. Substituted(FileName(ls), w) = FileName(EachOf(ls, w))
        BY <2>1, SubstituteFile
    <2>. QED BY <2>2, <2>3, <2>4
<1>8. \A j \in 1..n : es[j] = ms[j]
    <2>1. ASSUME NEW j \in 1..n PROVE es[j] = ms[j]
        <3>. DEFINE k == ks[j]
        <3>1. k \in DOMAIN q /\ ls[j] = Piece(q, k) /\ ms[j] = Piece(s, k)
            BY <1>3, <1>4
        <3>. HIDE DEF k
        <3>2. ls[j] = Component(q, k) /\ ms[j] = Component(s, k)
            BY <1>2, <3>1 DEF Piece
        <3>3. s[k] = Substituted(q[k], w)
            BY <3>1
        <3>4. Substituted(Component(q, k), w) = Component(s, k)
            BY <1>1, <3>1, <3>3, SubstituteComponent
        <3>5. j \in DOMAIN ls
            BY <1>3, <1>5
        <3>. QED BY <3>2, <3>4, <3>5 DEF EachOf
    <2>. QED BY <2>1
<1>. HIDE DEF es
<1>9. es = ms
    <2>. DEFINE K == Keyed(X \ DOMAIN w) \cup Keyed(WildcardsOf(s))
    <2>1. es \in Seq(K) /\ ms \in Seq(K)
        BY <1>6, <1>7, LargerSeq
    <2>. HIDE DEF K
    <2>. QED BY <1>3, <1>4, <1>7, <1>8, <2>1, SeqEqual
<1>. QED BY <1>7, <1>9 DEF ls, ms

-----------------------------------------------------------------------------
(* Every file is laid out of components with the wildcards of its query;   *)
(* a pattern's is the path of its query.                                   *)
Laid(o) == \E cs \in Seq(Keyed(WildcardsOf(o.query))) : cs # <<>> /\ o.file = FileName(cs)
Pattern(o) == /\ HashesAreAtoms(o.query) /\ HasSuffix(o.query)
              /\ o.file = FileName(LocalSuffix(o.query))
Commutes(o) == o.file # FileName(LocalSuffix(o.query)) =>
                   o.query \in normalised /\ Oversized(o.query) # {}
PathInv ==
    \A o \in objects :
        IsQuery(o.query) /\ Laid(o) /\ Commutes(o) /\ (WildcardsOf(o.query) # {} => Pattern(o))

LEMMA WrittenHashes ==
    ASSUME NEW pairs \in Written, Parses(pairs)
    PROVE  HashesAreAtoms(Normalize(pairs))
<1>. DEFINE At(k) == CHOOSE i \in DOMAIN pairs : pairs[i][1] = k
            K == {pairs[i][1] : i \in DOMAIN pairs}
            q == Normalize(pairs)
<1>1. DOMAIN q = K /\ \A k \in K : q[k] = pairs[At(k)][2]
    BY DEF Normalize
<1>2. \A k \in K : At(k) \in DOMAIN pairs
    OBVIOUS
<1>3. \A k \in K : Digest(pairs[At(k)][2]) \in Atom
    BY <1>2, PathAssumption
<1>. HIDE DEF At, q
<1>4. \A k \in DOMAIN q : Digest(q[k]) \in Atom
    BY <1>1, <1>3
<1>. QED BY <1>4 DEF HashesAreAtoms, Oversized, q

LEMMA BindingWords ==
    ASSUME PathInv, NEW o \in objects, WildcardsOf(o.query) # {}, NEW w \in Bindings(o),
           NEW s, IsQuery(s), s = [k \in DOMAIN o.query |-> Substituted(o.query[k], w)]
    PROVE  Words(w) /\ DOMAIN w = WildcardsOf(o.query)
<1>. DEFINE names == WildcardsOf(o.query)
<1>1. names \subseteq Wildcard
    BY DEF WildcardsOf
<1>2. CASE w \in [names -> Values]
    <2>1. \A x \in names : w[x] \in Seq(Atom) \ {<<>>}
        BY <1>2, PathAssumption
    <2>. QED BY <1>1, <1>2, <2>1 DEF Words
<1>3. CASE w \notin [names -> Values]
    <2>1. PICK r \in objects :
            /\ WildcardsOf(r.query) = {}
            /\ w \in [names -> Parts(r.file)] /\ Substituted(o.file, w) = r.file
        BY <1>3 DEF Bindings
    <2>2. PICK cs \in Seq(Keyed({})) : cs # <<>> /\ r.file = FileName(cs)
        BY <2>1 DEF PathInv, Laid
    <2>3. r.file \in Seq(Letters({})) /\ KeysFollowSlashes(r.file)
        BY <2>2, LedTokens, FileTokens
    <2>4. DOMAIN w = names /\ Matched(w, r.file)
        BY <2>1 DEF Matched
    <2>5. /\ IsQuery(o.query) /\ HashesAreAtoms(o.query) /\ HasSuffix(o.query)
          /\ Substituted(FileName(LocalSuffix(o.query)), w) = r.file
        BY <2>1 DEF PathInv, Pattern
    <2>6. Words(w)
        BY <2>3, <2>4, <2>5, MatchedWords
    <2>. QED BY <2>4, <2>6
<1>. QED BY <1>2, <1>3

LEMMA PathInvStays ==
    /\ Init => PathInv
    /\ PathInv /\ [Next]_vars => PathInv'
<1>1. Init => PathInv
    BY DEF Init, PathInv
<1>2. ASSUME PathInv, [Next]_vars PROVE PathInv'
    <2>1. ASSUME NEW pairs \in Written, Declare(pairs) PROVE PathInv'
        <3>. DEFINE q == Normalize(pairs)
                    new == [query |-> q, file |-> FileName(LocalSuffix(q))]
        <3>1. Parses(pairs) /\ IsQuery(q) /\ HashesAreAtoms(q)
            BY <2>1, NormalizeParses, WrittenHashes DEF Declare
        <3>2. new.query = q /\ new.file = FileName(LocalSuffix(q))
            OBVIOUS
        <3>3. /\ normalised \subseteq normalised'
              /\ objects' = IF HasSuffix(q) THEN objects \cup {new} ELSE objects
            BY <2>1 DEF Declare
        <3>. HIDE DEF new, q
        <3>4. Laid(new) /\ Commutes(new)' /\ (HasSuffix(q) => Pattern(new))
            BY <3>1, <3>2, SuffixShape DEF Laid, Commutes, Pattern
        <3>5. ASSUME NEW o \in objects'
              PROVE  /\ IsQuery(o.query) /\ Laid(o) /\ Commutes(o)'
                     /\ WildcardsOf(o.query) # {} => Pattern(o)
            <4>1. CASE o \in objects
                BY <1>2, <3>3, <4>1 DEF PathInv, Commutes
            <4>2. CASE o \notin objects
                <5>1. o = new /\ HasSuffix(q)
                    BY <3>3, <4>2
                <5>. QED BY <3>1, <3>2, <3>4, <5>1
            <4>. QED BY <4>1, <4>2
        <3>. QED BY <3>5 DEF PathInv, Laid, Pattern
    <2>2. ASSUME NEW o \in objects, Apply(o) PROVE PathInv'
        <3>1. PICK w \in Bindings(o) :
                LET q == [k \in DOMAIN o.query |-> Substituted(o.query[k], w)]
                IN  /\ IsQuery(q)
                    /\ Accepted(q)
                    /\ objects' = objects \cup {[query |-> q, file |-> Substituted(o.file, w)]}
            BY <2>2 DEF Apply
        <3>. DEFINE s == [k \in DOMAIN o.query |-> Substituted(o.query[k], w)]
                    new == [query |-> s, file |-> Substituted(o.file, w)]
                    q == o.query
        <3>2. /\ IsQuery(s) /\ Accepted(s) /\ objects' = objects \cup {new}
              /\ normalised' = normalised /\ WildcardsOf(q) # {}
            BY <2>2, <3>1 DEF Apply
        <3>3. new.query = s /\ new.file = Substituted(o.file, w)
            OBVIOUS
        <3>4. s = [k \in DOMAIN q |-> Substituted(q[k], w)]
            OBVIOUS
        <3>. HIDE DEF new, s
        <3>5. Words(w) /\ DOMAIN w = WildcardsOf(q)
            BY <1>2, <3>2, <3>4, BindingWords
        <3>6. IsQuery(q) /\ HashesAreAtoms(q) /\ HasSuffix(q) /\ o.file = FileName(LocalSuffix(q))
            BY <1>2, <3>2 DEF PathInv, Pattern
        <3>. HIDE DEF q
        <3>7. WildcardsOf(s) = {}
            BY <3>4, <3>5, <3>6, SubstitutedQuery
        <3>8. Laid(new)
            <4>. DEFINE ls == LocalSuffix(q)
                        X == WildcardsOf(q)
            <4>1. ls \in Seq(Keyed(X)) /\ ls # <<>> /\ X \subseteq Wildcard
                BY <3>6, SuffixShape
            <4>. HIDE DEF ls, X
            <4>2. PICK es \in Seq(Keyed(X \ DOMAIN w)) :
                    es # <<>> /\ Substituted(FileName(ls), w) = FileName(es)
                <5>1. Len(ls) # 0
                    BY <4>1, EmptySeq
                <5>. QED BY <3>5, <4>1, <5>1, SubstitutedComponents
            <4>3. X \ DOMAIN w = WildcardsOf(new.query)
                BY <3>3, <3>5, <3>7 DEF X
            <4>4. new.file = FileName(es)
                BY <3>3, <3>6, <4>2 DEF ls
            <4>. QED BY <4>2, <4>3, <4>4 DEF Laid
        <3>9. Commutes(new)'
            <4>1. CASE Oversized(s) = {}
                BY <3>2, <3>3, <3>4, <3>5, <3>6, <4>1, SubstitutedSuffix DEF Commutes
            <4>2. CASE Oversized(s) # {}
                BY <3>2, <3>3, <4>2 DEF Accepted, Commutes
            <4>. QED BY <4>1, <4>2
        <3>10. ASSUME NEW x \in objects'
               PROVE  /\ IsQuery(x.query) /\ Laid(x) /\ Commutes(x)'
                      /\ WildcardsOf(x.query) # {} => Pattern(x)
            <4>1. CASE x \in objects
                BY <1>2, <3>2, <4>1 DEF PathInv, Commutes
            <4>2. CASE x \notin objects
                <5>1. x = new
                    BY <3>2, <4>2
                <5>. QED BY <3>2, <3>3, <3>7, <3>8, <3>9, <5>1
            <4>. QED BY <4>1, <4>2
        <3>. QED BY <3>10 DEF PathInv, Laid, Pattern
    <2>3. CASE UNCHANGED vars
        BY <1>2, <2>3 DEF vars, PathInv, Laid, Pattern, Commutes
    <2>. QED
        BY <1>2, <2>1, <2>2, <2>3 DEF Next
<1>. QED BY <1>1, <1>2

(* For every set of queries, keys and wildcard values, the file name       *)
(* Snakemake substitutes is the path of the job's query, unless that query *)
(* was also declared and has a hashed component.                           *)
THEOREM PathsCommute == Spec => []PathsCommuteUnlessDeclared
<1>1. PathInv => PathsCommuteUnlessDeclared
    BY DEF PathInv, Commutes, PathsCommuteUnlessDeclared
<1>. QED
    BY <1>1, PathInvStays, PTL DEF Spec
=============================================================================
