-------------------------- MODULE GribStreamProofs --------------------------
(***************************************************************************)
(* The message stream, for every source, every length of the header that   *)
(* is read ahead, and every way a source cuts its bytes.                   *)
(***************************************************************************)
EXTENDS GribStream, SequenceTheorems, WellFoundedInduction, TLAPS

-----------------------------------------------------------------------------
(* Induction over the naturals, and bytes.                                 *)
LEMMA LeastNatural ==
    ASSUME NEW T \in SUBSET Nat, T # {}
    PROVE  \E m \in T : \A k \in T : m <= k
<1>. DEFINE R == OpToRel(<, Nat)
<1>1. IsWellFoundedOn(R, Nat)
    BY NatLessThanWellFounded
<1>2. \A m, k \in Nat : m < k => <<m, k>> \in R
    BY DEF OpToRel
<1>. HIDE DEF R
<1>3. PICK m \in T : \A k \in T : ~ (<<k, m>> \in R)
    BY <1>1, WFMin
<1>4. ASSUME NEW k \in T PROVE m <= k
    <2>1. ~ (k < m)
        BY <1>2, <1>3
    <2>. QED BY <2>1
<1>. QED BY <1>4

LEMMA NaturalsBySteps ==
    ASSUME NEW I \in SUBSET Nat, 0 \in I, \A n \in I : n + 1 \in I
    PROVE  I = Nat
<1>. DEFINE T == Nat \ I
<1>1. SUFFICES ASSUME T # {} PROVE FALSE
    OBVIOUS
<1>2. PICK m \in T : \A k \in T : m <= k
    BY <1>1, LeastNatural
<1>3. m # 0 /\ m \in Nat
    OBVIOUS
<1>4. m - 1 \in Nat /\ ~ (m <= m - 1) /\ (m - 1) + 1 = m
    BY <1>3
<1>. QED BY <1>2, <1>4

LEMMA JoinIsAssociative ==
    \A r, s, t \in Seq(Byte) : (r \o s) \o t = r \o (s \o t)
BY ConcatAssociative

LEMMA PrefixOfJoin ==
    ASSUME NEW S, NEW s \in Seq(S), NEW t \in Seq(S)
    PROVE  IsPrefix(s, s \o t)
<1>1. /\ s \o t \in Seq(S) /\ Len(s \o t) = Len(s) + Len(t)
      /\ \A i \in 1..Len(s) : (s \o t)[i] = s[i]
    BY ConcatProperties
<1>2. Len(s) <= Len(s \o t)
    BY <1>1
<1>. QED BY <1>1, <1>2 DEF IsPrefix

LEMMA DropOfRead ==
    ASSUME NEW h \in Seq(Byte), NEW l \in Seq(Byte), NEW k \in 0..Len(h)
    PROVE  /\ Drop(h, k) \in Seq(Byte) /\ Len(Drop(h, k)) = Len(h) - k
           /\ Drop(h \o l, k) = Drop(h, k) \o l
           /\ \A i \in 1..(Len(h) - k) : Drop(h, k)[i] = h[i + k]
<1>1. Drop(h, k) \in Seq(Byte) /\ Len(Drop(h, k)) = Len(h) - k
    BY DEF Drop
<1>2. \A i \in 1..(Len(h) - k) : Drop(h, k)[i] = h[i + k]
    BY DEF Drop
<1>3. Drop(h \o l, k) \in Seq(Byte) /\ Len(Drop(h \o l, k)) = Len(h) + Len(l) - k
    BY DEF Drop
<1>4. \A i \in 1..(Len(h) + Len(l) - k) : Drop(h \o l, k)[i] = (h \o l)[i + k]
    BY DEF Drop
<1>5. \A i \in 1..(Len(h) + Len(l) - k) : (Drop(h, k) \o l)[i] = (h \o l)[i + k]
    BY <1>1, <1>2
<1>6. Len(Drop(h, k) \o l) = Len(h) + Len(l) - k /\ Drop(h, k) \o l \in Seq(Byte)
    BY <1>1
<1>7. Drop(h \o l, k) = Drop(h, k) \o l
    BY <1>3, <1>4, <1>5, <1>6, SeqEqual
<1>. QED BY <1>1, <1>2, <1>7

LEMMA TakeThenDrop ==
    ASSUME NEW s \in Seq(Byte), NEW k \in 0..Len(s)
    PROVE  /\ Take(s, k) \in Seq(Byte) /\ Len(Take(s, k)) = k
           /\ \A i \in 1..k : Take(s, k)[i] = s[i]
           /\ Take(s, k) \o Drop(s, k) = s
<1>1. /\ Take(s, k) \in Seq(Byte) /\ Len(Take(s, k)) = k
      /\ \A i \in 1..k : Take(s, k)[i] = s[i]
    BY DEF Take
<1>2. Take(s, k) \o Drop(s, k) = SubSeq(s, 1, Len(s))
    <2>1. 1 \in 1..(Len(s) + 1) /\ k \in (1 - 1)..Len(s) /\ Len(s) \in k..Len(s)
        OBVIOUS
    <2>. QED BY <2>1, ConcatAdjacentSubSeq DEF Take, Drop
<1>. QED BY <1>1, <1>2, SubSeqFull

LEMMA TakenIsKept ==
    ASSUME NEW r \in Seq(Byte), NEW s \in Seq(Byte), NEW k \in 0..Len(s)
    PROVE  (r \o Take(s, k)) \o Drop(s, k) = r \o s
<1>. DEFINE t == Take(s, k)
            d == Drop(s, k)
<1>1. t \o d = s
    BY TakeThenDrop
<1>2. t \in Seq(Byte)
    BY TakeThenDrop
<1>3. d \in Seq(Byte)
    BY EmptySeq, DropOfRead
<1>. HIDE DEF t, d
<1>4. (r \o t) \o d = r \o (t \o d)
    BY <1>2, <1>3, JoinIsAssociative
<1>. QED BY <1>1, <1>4 DEF t, d

LEMMA RestOfSource ==
    ASSUME NEW s \in Seq(Byte), NEW p \in 1..(Len(s) + 1)
    PROVE  /\ Rest(s, p) \in Seq(Byte) /\ Len(Rest(s, p)) = Len(s) - p + 1
           /\ \A i \in 1..(Len(s) - p + 1) : Rest(s, p)[i] = s[i + p - 1]
           /\ \A k \in 0..(Len(s) - p + 1) :
                Drop(Rest(s, p), k) = Rest(s, p + k) /\ p + k \in 1..(Len(s) + 1)
<1>1. /\ Rest(s, p) \in Seq(Byte) /\ Len(Rest(s, p)) = Len(s) - p + 1
      /\ \A i \in 1..(Len(s) - p + 1) : Rest(s, p)[i] = s[i + p - 1]
    BY DEF Rest
<1>2. ASSUME NEW k \in 0..(Len(s) - p + 1)
      PROVE  Drop(Rest(s, p), k) = Rest(s, p + k) /\ p + k \in 1..(Len(s) + 1)
    <2>1. p + k \in 1..(Len(s) + 1)
        OBVIOUS
    <2>2. Rest(s, p + k) \in Seq(Byte) /\ Len(Rest(s, p + k)) = Len(s) - (p + k) + 1
        BY <2>1 DEF Rest
    <2>3. \A i \in 1..(Len(s) - (p + k) + 1) : Rest(s, p + k)[i] = s[i + (p + k) - 1]
        BY <2>1 DEF Rest
    <2>4. k \in 0..Len(Rest(s, p)) /\ Rest(s, p) \in Seq(Byte)
        BY <1>1
    <2>. DEFINE r == Rest(s, p)
                d == Drop(r, k)
    <2>5. d \in Seq(Byte) /\ Len(d) = Len(r) - k /\ \A i \in 1..(Len(r) - k) : d[i] = r[i + k]
        BY <2>4, EmptySeq, DropOfRead
    <2>6. Len(r) - k = Len(s) - (p + k) + 1
        BY <1>1
    <2>7. ASSUME NEW i \in 1..(Len(r) - k) PROVE d[i] = s[i + (p + k) - 1]
        <3>1. i + k \in 1..(Len(s) - p + 1) /\ (i + k) + p - 1 = i + (p + k) - 1
            BY <2>6
        <3>2. r[i + k] = s[(i + k) + p - 1]
            BY <1>1, <3>1
        <3>. QED BY <2>5, <3>1, <3>2
    <2>. HIDE DEF d, r
    <2>8. d = Rest(s, p + k)
        BY <2>2, <2>3, <2>5, <2>6, <2>7, SeqEqual
    <2>. QED BY <2>1, <2>8 DEF d, r
<1>. QED BY <1>1, <1>2

(* lstrip removes the NUL bytes in front, and no others.                   *)
LEMMA LStripDropsPadding ==
    ASSUME NEW h \in Seq(Byte)
    PROVE  \E k \in 0..Len(h) : /\ LStrip(h) = Drop(h, k)
                                /\ \A i \in 1..k : h[i] = Nul
                                /\ k < Len(h) => h[k + 1] # Nul
<1>. DEFINE IsPadding(k) == /\ \A i \in 1..k : h[i] = Nul
                            /\ k < Len(h) => h[k + 1] # Nul
            T == {k \in 0..Len(h) : k < Len(h) => h[k + 1] # Nul}
<1>1. T \in SUBSET Nat /\ Len(h) \in T
    OBVIOUS
<1>2. PICK m \in T : \A k \in T : m <= k
    BY <1>1, LeastNatural
<1>3. ASSUME NEW i \in 1..m PROVE h[i] = Nul
    <2>1. i - 1 \in 0..Len(h) /\ i - 1 < Len(h) /\ ~ (m <= i - 1) /\ (i - 1) + 1 = i
        OBVIOUS
    <2>2. i - 1 \notin T
        BY <1>2, <2>1
    <2>. QED BY <2>1, <2>2
<1>4. \E k \in 0..Len(h) : IsPadding(k)
    BY <1>3
<1>. DEFINE n == CHOOSE k \in 0..Len(h) : IsPadding(k)
<1>5. n \in 0..Len(h) /\ IsPadding(n)
    BY <1>4
<1>6. LStrip(h) = Drop(h, n)
    BY DEF LStrip, Drop
<1>. QED BY <1>5, <1>6

-----------------------------------------------------------------------------
(* The messages of a source.  SplitFrom is a recursive function from the   *)
(* end of the source to its start; it satisfies its equation.              *)
Positions(s) == 1..(Len(s) + 1)
Outcome == [messages : Seq(Seq(Byte)), ends : {"end", "error"}]
SplitStep(f, s, p) ==
    LET rest == Rest(s, p)
    IN  IF rest = <<>> THEN Nothing("end")
        ELSE IF rest[1] = Nul THEN f[p + 1]
        ELSE IF NoMessage(rest) THEN Nothing("error")
        ELSE WithFirst(Take(rest, MessageLength(rest)), f[p + MessageLength(rest)])

LEMMA BytesAreNaturals == \A b \in Byte : b \in Nat
BY DEF Byte, Indicator

(* A message has a length, once its header is not truncated.               *)
LEMMA LengthOfMessage ==
    ASSUME NEW h \in Seq(Byte), ~ Truncated(h)
    PROVE  MessageLength(h) \in Nat
<1>1. Len(h) >= 2
    BY GribAssumption DEF Truncated
<1>2. h[2] \in Byte
    BY <1>1, ElementOfSeq
<1>3. h[2] \in Nat
    BY <1>2, BytesAreNaturals
<1>4. Edition2 \in Nat
    BY GribAssumption
<1>. QED BY <1>3, <1>4 DEF MessageLength

LEMMA EmptyRest ==
    ASSUME NEW s \in Seq(Byte), NEW p \in Positions(s)
    PROVE  Rest(s, p) = <<>> <=> p = Len(s) + 1
<1>1. Rest(s, p) \in Seq(Byte) /\ Len(Rest(s, p)) = Len(s) - p + 1
    BY RestOfSource DEF Positions
<1>2. p \in Int /\ Len(s) \in Nat
    BY DEF Positions
<1>. QED BY <1>1, <1>2

(* What a step looks at lies further on in the source.                     *)
LEMMA StepLooksAhead ==
    ASSUME NEW s \in Seq(Byte), NEW p \in Positions(s), Rest(s, p) # <<>>
    PROVE  /\ p + 1 \in Positions(s)
           /\ ~ NoMessage(Rest(s, p)) =>
                /\ MessageLength(Rest(s, p)) \in 1..Len(Rest(s, p))
                /\ p + MessageLength(Rest(s, p)) \in Positions(s)
<1>1. p \in 1..Len(s) /\ Len(s) \in Nat
    BY EmptyRest DEF Positions
<1>2. Rest(s, p) \in Seq(Byte) /\ Len(Rest(s, p)) = Len(s) - p + 1
    BY RestOfSource DEF Positions
<1>3. p + 1 \in Positions(s)
    BY <1>1 DEF Positions
<1>4. ASSUME ~ NoMessage(Rest(s, p))
      PROVE  /\ MessageLength(Rest(s, p)) \in 1..Len(Rest(s, p))
             /\ p + MessageLength(Rest(s, p)) \in Positions(s)
    <2>. DEFINE n == MessageLength(Rest(s, p))
    <2>1. n \in Nat /\ n # 0 /\ ~ (n > Len(Rest(s, p)))
        BY <1>2, <1>4, LengthOfMessage DEF NoMessage
    <2>. HIDE DEF n
    <2>2. n \in 1..Len(Rest(s, p))
        BY <1>1, <1>2, <2>1
    <2>3. p + n \in Positions(s)
        BY <1>1, <1>2, <2>1 DEF Positions
    <2>. QED BY <2>2, <2>3 DEF n
<1>. QED BY <1>3, <1>4

(* Functions that agree further on give the same step.                     *)
LEMMA StepDependsAhead ==
    ASSUME NEW s \in Seq(Byte), NEW p \in Positions(s), NEW f, NEW g,
           \A q \in Positions(s) : q > p => f[q] = g[q]
    PROVE  SplitStep(f, s, p) = SplitStep(g, s, p)
<1>1. CASE Rest(s, p) = <<>>
    BY <1>1 DEF SplitStep
<1>2. CASE Rest(s, p) # <<>>
    <2>1. p \in Int
        BY DEF Positions
    <2>2. f[p + 1] = g[p + 1]
        BY <1>2, <2>1, StepLooksAhead
    <2>3. CASE NoMessage(Rest(s, p))
        BY <2>2, <2>3 DEF SplitStep
    <2>4. CASE ~ NoMessage(Rest(s, p))
        <3>. DEFINE n == MessageLength(Rest(s, p))
        <3>1. p + n \in Positions(s) /\ n \in 1..Len(Rest(s, p))
            BY <1>2, <2>4, StepLooksAhead
        <3>. HIDE DEF n
        <3>2. n >= 1 /\ n \in Int
            BY <3>1
        <3>3. f[p + n] = g[p + n]
            BY <2>1, <3>1, <3>2
        <3>. QED BY <2>2, <3>3 DEF SplitStep, n
    <2>. QED BY <2>3, <2>4
<1>. QED BY <1>1, <1>2

LEMMA SplitExists ==
    ASSUME NEW s \in Seq(Byte)
    PROVE  \E f : f = [p \in Positions(s) |-> SplitStep(f, s, p)]
<1>. DEFINE Solves(f, k) ==
                \A p \in Positions(s) : p > Len(s) + 1 - k => f[p] = SplitStep(f, s, p)
            I == {k \in Nat : \E f : Solves(f, k)}
<1>1. Len(s) \in Nat /\ \A p \in Positions(s) : p \in Int /\ p >= 1 /\ p <= Len(s) + 1
    BY DEF Positions
<1>2. 0 \in I
    <2>1. \A p \in Positions(s) : ~ (p > Len(s) + 1 - 0)
        BY <1>1
    <2>. QED BY <2>1
<1>3. ASSUME NEW k \in I PROVE k + 1 \in I
    <2>1. PICK f : Solves(f, k)
        OBVIOUS
    <2>2. k \in Nat
        OBVIOUS
    <2>. DEFINE h == [p \in Positions(s) |->
                        IF p > Len(s) + 1 - k THEN f[p] ELSE SplitStep(f, s, p)]
    <2>3. ASSUME NEW p \in Positions(s), p > Len(s) + 1 - (k + 1)
          PROVE  h[p] = SplitStep(h, s, p)
        <3>1. h[p] = SplitStep(f, s, p)
            BY <2>1
        <3>2. ASSUME NEW q \in Positions(s), q > p PROVE f[q] = h[q]
            <4>1. q > Len(s) + 1 - k
                BY <1>1, <2>2, <2>3, <3>2
            <4>. QED BY <4>1
        <3>. HIDE DEF h
        <3>3. SplitStep(f, s, p) = SplitStep(h, s, p)
            BY <3>2, StepDependsAhead
        <3>. QED BY <3>1, <3>3
    <2>. HIDE DEF h
    <2>4. Solves(h, k + 1)
        BY <2>3
    <2>. QED BY <2>2, <2>4
<1>4. Len(s) + 1 \in I
    <2>1. I \in SUBSET Nat
        OBVIOUS
    <2>. HIDE DEF I
    <2>2. I = Nat
        BY <1>2, <1>3, <2>1, NaturalsBySteps
    <2>. QED BY <1>1, <2>2
<1>5. PICK f : Solves(f, Len(s) + 1)
    BY <1>4
<1>. DEFINE h == [p \in Positions(s) |-> f[p]]
<1>6. ASSUME NEW p \in Positions(s) PROVE h[p] = SplitStep(h, s, p)
    <2>1. p > Len(s) + 1 - (Len(s) + 1)
        BY <1>1
    <2>2. h[p] = SplitStep(f, s, p)
        BY <1>5, <2>1
    <2>3. \A q \in Positions(s) : q > p => f[q] = h[q]
        OBVIOUS
    <2>. HIDE DEF h
    <2>. QED BY <2>2, <2>3, StepDependsAhead
<1>7. h = [p \in Positions(s) |-> SplitStep(h, s, p)]
    BY <1>6
<1>. QED BY <1>7

LEMMA SplitEquation ==
    ASSUME NEW s \in Seq(Byte)
    PROVE  \A p \in Positions(s) : SplitFrom(s)[p] = SplitStep(SplitFrom(s), s, p)
<1>. DEFINE f == CHOOSE g : g = [p \in Positions(s) |-> SplitStep(g, s, p)]
<1>1. SplitFrom(s) = f
    BY DEF SplitFrom, SplitStep, Positions
<1>2. f = [p \in Positions(s) |-> SplitStep(f, s, p)]
    BY SplitExists
<1>. HIDE DEF f
<1>. QED BY <1>1, <1>2

LEMMA MessageIsRead ==
    ASSUME NEW s \in Seq(Byte), NEW p \in Positions(s), Rest(s, p) # <<>>,
           ~ NoMessage(Rest(s, p))
    PROVE  Take(Rest(s, p), MessageLength(Rest(s, p))) \in Seq(Byte)
<1>1. MessageLength(Rest(s, p)) \in 1..Len(Rest(s, p))
    BY StepLooksAhead
<1>2. Rest(s, p) \in Seq(Byte)
    BY RestOfSource DEF Positions
<1>. QED BY <1>1, <1>2, TakeThenDrop

LEMMA WithFirstType ==
    ASSUME NEW m \in Seq(Byte), NEW o \in Outcome
    PROVE  /\ WithFirst(m, o) \in Outcome
           /\ WithFirst(m, o).messages = <<m>> \o o.messages
           /\ WithFirst(m, o).ends = o.ends
<1>1. o.messages \in Seq(Seq(Byte)) /\ <<m>> \in Seq(Seq(Byte))
    BY DEF Outcome
<1>2. <<m>> \o o.messages \in Seq(Seq(Byte))
    BY <1>1, ConcatProperties
<1>3. o.ends \in {"end", "error"}
    BY DEF Outcome
<1>. QED BY <1>2, <1>3 DEF WithFirst, Outcome

LEMMA SplitType ==
    ASSUME NEW s \in Seq(Byte)
    PROVE  \A p \in Positions(s) : SplitFrom(s)[p] \in Outcome
<1>. DEFINE f == SplitFrom(s)
            I == {k \in Nat : \A p \in Positions(s) : p > Len(s) + 1 - k => f[p] \in Outcome}
<1>1. Len(s) \in Nat /\ \A p \in Positions(s) : p \in Int /\ p >= 1 /\ p <= Len(s) + 1
    BY DEF Positions
<1>2. \A p \in Positions(s) : f[p] = SplitStep(f, s, p)
    BY SplitEquation
<1>. HIDE DEF f
<1>3. 0 \in I
    BY <1>1
<1>4. \A e \in {"end", "error"} : Nothing(e) \in Outcome
    BY DEF Nothing, Outcome
<1>5. ASSUME NEW m \in Seq(Byte), NEW o \in Outcome PROVE WithFirst(m, o) \in Outcome
    BY WithFirstType
<1>6. ASSUME NEW k \in I PROVE k + 1 \in I
    <2>1. ASSUME NEW p \in Positions(s), p > Len(s) + 1 - (k + 1)
          PROVE  f[p] \in Outcome
        <3>1. \A q \in Positions(s) : q > p => f[q] \in Outcome
            <4>1. \A q \in Positions(s) : q > p => q > Len(s) + 1 - k
                BY <1>1, <2>1
            <4>. QED BY <4>1
        <3>2. CASE Rest(s, p) = <<>>
            BY <1>2, <1>4, <3>2 DEF SplitStep
        <3>3. CASE Rest(s, p) # <<>> /\ Rest(s, p)[1] = Nul
            <4>1. f[p + 1] \in Outcome
                BY <1>1, <3>1, <3>3, StepLooksAhead
            <4>. QED BY <1>2, <3>3, <4>1 DEF SplitStep
        <3>4. CASE Rest(s, p) # <<>> /\ Rest(s, p)[1] # Nul /\ NoMessage(Rest(s, p))
            BY <1>2, <1>4, <3>4 DEF SplitStep
        <3>5. CASE Rest(s, p) # <<>> /\ Rest(s, p)[1] # Nul /\ ~ NoMessage(Rest(s, p))
            <4>. DEFINE n == MessageLength(Rest(s, p))
                        m == Take(Rest(s, p), n)
            <4>1. p + n \in Positions(s) /\ n \in 1..Len(Rest(s, p))
                BY <3>5, StepLooksAhead
            <4>2. m \in Seq(Byte)
                BY <3>5, MessageIsRead
            <4>3. f[p] = WithFirst(m, f[p + n])
                BY <1>2, <3>5 DEF SplitStep
            <4>. HIDE DEF n, m
            <4>4. p + n > p
                BY <1>1, <4>1
            <4>. QED BY <1>5, <3>1, <4>1, <4>2, <4>3, <4>4
        <3>. QED BY <3>2, <3>3, <3>4, <3>5
    <2>. QED BY <2>1
<1>7. Len(s) + 1 \in I
    <2>1. I \in SUBSET Nat
        OBVIOUS
    <2>. HIDE DEF I
    <2>2. I = Nat
        BY <1>3, <1>6, <2>1, NaturalsBySteps
    <2>. QED BY <1>1, <2>2
<1>8. \A p \in Positions(s) : p > Len(s) + 1 - (Len(s) + 1)
    BY <1>1
<1>. QED BY <1>7, <1>8 DEF f

(* NUL bytes between messages do not count.                                *)
LEMMA PaddingIsSkipped ==
    ASSUME NEW s \in Seq(Byte), NEW p \in Positions(s), NEW k \in 0..Len(Rest(s, p)),
           \A i \in 1..k : Rest(s, p)[i] = Nul
    PROVE  SplitFrom(s)[p + k] = SplitFrom(s)[p]
<1>. DEFINE f == SplitFrom(s)
            I == {j \in Nat : j <= k => f[p + j] = f[p]}
<1>1. \A q \in Positions(s) : f[q] = SplitStep(f, s, q)
    BY SplitEquation
<1>. HIDE DEF f
<1>2. Len(s) \in Nat /\ p \in 1..(Len(s) + 1) /\ Len(Rest(s, p)) = Len(s) - p + 1 /\ k \in Nat
    BY RestOfSource DEF Positions
<1>3. 0 \in I
    BY <1>2
<1>4. ASSUME NEW j \in I PROVE j + 1 \in I
    <2>1. SUFFICES ASSUME j + 1 <= k PROVE f[p + (j + 1)] = f[p]
        OBVIOUS
    <2>2. j \in Nat /\ f[p + j] = f[p]
        BY <1>2, <2>1
    <2>3. p + j \in 1..Len(s) /\ j + 1 \in 1..k /\ j + 1 \in 1..(Len(s) - p + 1)
        BY <1>2, <2>1, <2>2
    <2>. DEFINE q == p + j
    <2>4. q \in Positions(s) /\ q # Len(s) + 1
        BY <1>2, <2>3 DEF Positions
    <2>5. Rest(s, q) # <<>>
        BY <2>4, EmptyRest
    <2>6. Rest(s, q)[1] = s[q]
        <3>1. 1 \in 1..(Len(s) - q + 1) /\ 1 + q - 1 = q
            BY <1>2, <2>3
        <3>2. \A i \in 1..(Len(s) - q + 1) : Rest(s, q)[i] = s[i + q - 1]
            BY <2>4, RestOfSource DEF Positions
        <3>. QED BY <3>1, <3>2
    <2>7. Rest(s, p)[j + 1] = s[q]
        <3>1. (j + 1) + p - 1 = q
            BY <1>2, <2>2
        <3>2. \A i \in 1..(Len(s) - p + 1) : Rest(s, p)[i] = s[i + p - 1]
            BY RestOfSource DEF Positions
        <3>. QED BY <2>3, <3>1, <3>2
    <2>8. Rest(s, q)[1] = Nul
        BY <2>3, <2>6, <2>7
    <2>9. f[q] = f[q + 1]
        BY <1>1, <2>4, <2>5, <2>8 DEF SplitStep
    <2>10. q + 1 = p + (j + 1)
        BY <1>2, <2>2
    <2>. QED BY <2>2, <2>9, <2>10
<1>5. k \in I
    <2>1. I \in SUBSET Nat
        OBVIOUS
    <2>. HIDE DEF I
    <2>2. I = Nat
        BY <1>3, <1>4, <2>1, NaturalsBySteps
    <2>. QED BY <1>2, <2>2
<1>. QED BY <1>2, <1>5 DEF f

-----------------------------------------------------------------------------
(* The inductive invariant.                                                *)

LEMMA SourceType ==
    ASSUME TypeOK
    PROVE  source \in Seq(Byte)
BY GribAssumption DEF TypeOK

LEMMA InitStreamInv == Init => StreamInv
<1>. SUFFICES ASSUME Init PROVE StreamInv
    OBVIOUS
<1>1. source \in Seq(Byte)
    BY GribAssumption DEF Init
<1>2. TypeOK
    <2>1. yielded \in Seq(Seq(Byte)) /\ head \in Seq(Byte) /\ buffer \in Seq(Byte)
        BY EmptySeq DEF Init
    <2>. QED BY <1>1, <2>1 DEF Init, TypeOK
<1>3. 1 \in Positions(source) /\ Rest(source, 1) = source
    BY <1>1, SubSeqFull DEF Positions, Rest
<1>4. SplitFrom(source)[1] \in Outcome
    BY <1>1, <1>3, SplitType
<1>5. SplitFrom(source)[1].messages = yielded \o SplitFrom(source)[1].messages
    <2>1. SplitFrom(source)[1].messages \in Seq(Seq(Byte))
        BY <1>4 DEF Outcome
    <2>. QED BY <2>1, ConcatEmptySeq DEF Init
<1>6. head \o left = Rest(source, 1)
    BY <1>1, <1>3, ConcatEmptySeq DEF Init
<1>7. AtByte(1)
    BY <1>5, <1>6 DEF Init, AtByte
<1>. QED BY <1>2, <1>3, <1>7 DEF StreamInv, Positions

(* readinto moves bytes and loses none.                                    *)
LEMMA ReadIntoKeepsBytes ==
    ASSUME buffer \in Seq(Byte), left \in Seq(Byte), NEW room \in Int, ReadInto(room)
    PROVE  /\ buffer' \in Seq(Byte) /\ left' \in Seq(Byte)
           /\ Len(buffer') > Len(buffer) /\ Len(buffer') <= Len(buffer) + room
           /\ buffer' \o left' = buffer \o left
<1>1. PICK n \in 1..Smaller(room, Len(left)) :
        buffer' = buffer \o Take(left, n) /\ left' = Drop(left, n)
    BY DEF ReadInto
<1>2. n \in 0..Len(left) /\ n > 0 /\ n <= room
    BY DEF Smaller
<1>3. /\ Take(left, n) \in Seq(Byte) /\ Len(Take(left, n)) = n
      /\ Take(left, n) \o Drop(left, n) = left
    BY <1>2, TakeThenDrop
<1>4. Drop(left, n) \in Seq(Byte)
    BY <1>2, EmptySeq, DropOfRead
<1>5. /\ buffer \o Take(left, n) \in Seq(Byte)
      /\ Len(buffer \o Take(left, n)) = Len(buffer) + n
    BY <1>3, ConcatProperties
<1>6. (buffer \o Take(left, n)) \o Drop(left, n) = buffer \o left
    BY <1>2, TakenIsKept
<1>. QED BY <1>1, <1>2, <1>4, <1>5, <1>6

(* Skipping padding moves on in the source, not in its messages.           *)
LEMMA StripInv == ASSUME StreamInv, Strip PROVE StreamInv'
<1>1. TypeOK
    BY DEF StreamInv
<1>2. PICK p \in Positions(source) : AtByte(p)
    BY DEF StreamInv, Positions
<1>3. source \in Seq(Byte) /\ head \in Seq(Byte) /\ left \in Seq(Byte)
    BY <1>1, SourceType DEF TypeOK
<1>4. PICK k \in 0..Len(head) : /\ LStrip(head) = Drop(head, k)
                                /\ \A i \in 1..k : head[i] = Nul
                                /\ k < Len(head) => head[k + 1] # Nul
    BY <1>3, LStripDropsPadding
<1>. DEFINE rest == Rest(source, p)
<1>5. head \o left = rest
    BY <1>2 DEF Strip, AtByte
<1>6. rest \in Seq(Byte) /\ Len(rest) = Len(source) - p + 1
    BY <1>3, RestOfSource DEF Positions
<1>7. /\ Len(rest) = Len(head) + Len(left)
      /\ \A i \in 1..Len(head) : rest[i] = head[i]
    BY <1>3, <1>5, ConcatProperties
<1>8. k \in 0..Len(rest) /\ \A i \in 1..k : rest[i] = Nul
    BY <1>3, <1>4, <1>7
<1>9. /\ Drop(rest, k) = Rest(source, p + k)
      /\ p + k \in Positions(source)
    BY <1>3, <1>6, <1>8, RestOfSource DEF Positions
<1>10. SplitFrom(source)[p + k] = SplitFrom(source)[p]
    BY <1>3, <1>8, PaddingIsSkipped
<1>11. /\ head' \in Seq(Byte) /\ Len(head') = Len(head) - k
       /\ head' \o left = Rest(source, p + k)
       /\ head' # <<>> => head'[1] # Nul
    <2>1. /\ head' \in Seq(Byte) /\ Len(head') = Len(head) - k
          /\ head' \o left = Rest(source, p + k)
          /\ \A i \in 1..(Len(head) - k) : head'[i] = head[i + k]
        <3>1. head' = Drop(head, k)
            BY <1>4 DEF Strip
        <3>2. Drop(head \o left, k) = Drop(head, k) \o left
            BY <1>3, DropOfRead
        <3>3. /\ Drop(head, k) \in Seq(Byte) /\ Len(Drop(head, k)) = Len(head) - k
              /\ \A i \in 1..(Len(head) - k) : Drop(head, k)[i] = head[i + k]
            BY <1>3, DropOfRead
        <3>. QED BY <1>5, <1>9, <3>1, <3>2, <3>3
    <2>2. ASSUME head' # <<>> PROVE head'[1] # Nul
        <3>1. Len(head) - k > 0
            BY <1>3, <1>4, <2>1, <2>2, EmptySeq
        <3>2. 1 \in 1..(Len(head) - k) /\ k < Len(head) /\ 1 + k = k + 1
            BY <1>3, <1>4, <3>1
        <3>. QED BY <1>4, <2>1, <3>2
    <2>. QED BY <2>1, <2>2
<1>12. TypeOK'
    BY <1>1, <1>11, EmptySeq DEF Strip, TypeOK
<1>13. head' \o buffer' = head'
    BY <1>11, ConcatEmptySeq DEF Strip
<1>14. Header \in Nat /\ Len(buffer') = 0 /\ Len(head') \in Nat
    BY <1>11, GribAssumption, EmptySeq DEF Strip
<1>15. UNCHANGED <<left, length, yielded, source>>
    BY DEF Strip
<1>16. AtByte(p + k)'
    BY <1>2, <1>10, <1>11, <1>13, <1>14, <1>15 DEF Strip, AtByte, NoPadding
<1>. QED BY <1>9, <1>12, <1>15, <1>16 DEF StreamInv, Positions
LEMMA ReadAheadInv == ASSUME StreamInv, ReadAhead PROVE StreamInv'
<1>1. TypeOK
    BY DEF StreamInv
<1>2. PICK p \in Positions(source) : AtByte(p)
    BY DEF StreamInv, Positions
<1>3. /\ head \in Seq(Byte) /\ left \in Seq(Byte) /\ buffer \in Seq(Byte)
      /\ Len(head) \in Nat /\ Len(buffer) \in Nat /\ Header \in Nat
    BY <1>1, GribAssumption DEF TypeOK
<1>4. pc = "ahead" /\ ReadInto(Header - Len(head) - Len(buffer))
    BY DEF ReadAhead
<1>5. /\ buffer' \in Seq(Byte) /\ left' \in Seq(Byte)
      /\ Len(buffer') <= Len(buffer) + (Header - Len(head) - Len(buffer))
      /\ buffer' \o left' = buffer \o left
    <2>1. Header - Len(head) - Len(buffer) \in Int
        BY <1>3
    <2>. QED BY <1>3, <1>4, <2>1, ReadIntoKeepsBytes, Zenon
<1>6. UNCHANGED <<head, length, pc, yielded, source>>
    BY DEF ReadAhead
<1>7. TypeOK'
    BY <1>1, <1>5, <1>6 DEF TypeOK
<1>8. Len(head) + Len(buffer') <= Header
    BY <1>3, <1>5
<1>9. (head \o buffer') \o left' = (head \o buffer) \o left
    <2>1. (head \o buffer') \o left' = head \o (buffer' \o left')
        BY <1>3, <1>5, JoinIsAssociative
    <2>2. (head \o buffer) \o left = head \o (buffer \o left)
        BY <1>3, JoinIsAssociative
    <2>. QED BY <1>5, <2>1, <2>2
<1>10. AtByte(p)'
    BY <1>2, <1>4, <1>6, <1>8, <1>9 DEF AtByte, NoPadding
<1>. QED BY <1>6, <1>7, <1>10 DEF StreamInv, Positions

LEMMA ReadAheadDoneInv == ASSUME StreamInv, ReadAheadDone PROVE StreamInv'
<1>1. TypeOK
    BY DEF StreamInv
<1>2. PICK p \in Positions(source) : AtByte(p)
    BY DEF StreamInv, Positions
<1>3. /\ head \in Seq(Byte) /\ left \in Seq(Byte) /\ buffer \in Seq(Byte)
      /\ Len(head) \in Nat /\ Len(buffer) \in Nat /\ Header \in Nat
    BY <1>1, GribAssumption DEF TypeOK
<1>4. /\ pc = "ahead" /\ head' = head \o buffer
      /\ left = <<>> \/ Len(head) + Len(buffer) = Header
      /\ pc' = IF buffer = <<>> THEN "header" ELSE "strip"
      /\ UNCHANGED <<left, buffer, length, yielded, source>>
    BY DEF ReadAheadDone
<1>5. head' \in Seq(Byte)
    BY <1>3, <1>4, ConcatProperties
<1>6. TypeOK'
    BY <1>1, <1>4, <1>5 DEF TypeOK
<1>7. NoPadding /\ head' \o left = Rest(source, p)
    BY <1>2, <1>4 DEF AtByte
<1>8. CASE buffer = <<>>
    <2>1. head' = head /\ Len(buffer) = 0
        BY <1>3, <1>4, <1>8, ConcatEmptySeq, EmptySeq
    <2>2. NoPadding' /\ (Len(head) >= Header \/ left = <<>>)
        BY <1>3, <1>4, <1>7, <2>1 DEF NoPadding
    <2>3. AtByte(p)'
        BY <1>2, <1>4, <1>7, <1>8, <2>1, <2>2 DEF AtByte
    <2>. QED BY <1>4, <1>6, <2>3 DEF StreamInv, Positions
<1>9. CASE buffer # <<>>
    <2>1. AtByte(p)'
        BY <1>2, <1>4, <1>7, <1>9 DEF AtByte
    <2>. QED BY <1>4, <1>6, <2>1 DEF StreamInv, Positions
<1>. QED BY <1>8, <1>9

(* The header that was read ahead decides like all that is left to read.   *)
LEMMA HeaderTellsAll ==
    ASSUME TypeOK, NEW p \in Positions(source), AtByte(p), pc = "header"
    PROVE  /\ head = <<>> <=> Rest(source, p) = <<>>
           /\ head # <<>> => /\ head[1] = Rest(source, p)[1] /\ head[1] # Nul
                             /\ Truncated(head) <=> Truncated(Rest(source, p))
           /\ head # <<>> /\ ~ Truncated(head) =>
                MessageLength(head) = MessageLength(Rest(source, p))
<1>. DEFINE rest == Rest(source, p)
<1>1. /\ head \in Seq(Byte) /\ left \in Seq(Byte) /\ Len(head) \in Nat /\ Len(left) \in Nat
      /\ 2 <= MinHeader /\ MinHeader <= Header /\ MinHeader \in Nat /\ Header \in Nat
    BY GribAssumption DEF TypeOK
<1>2. head \o left = rest /\ NoPadding /\ (Len(head) >= Header \/ left = <<>>)
    BY DEF AtByte
<1>. HIDE DEF rest
<1>3. CASE left = <<>>
    <2>1. rest = head
        BY <1>1, <1>2, <1>3, ConcatEmptySeq
    <2>. QED BY <1>2, <2>1 DEF rest, NoPadding
<1>4. CASE Len(head) >= Header
    <2>1. Len(rest) >= Header /\ Len(rest) \in Nat
        BY <1>1, <1>2, <1>4, ConcatProperties
    <2>2. rest[1] = head[1] /\ rest[2] = head[2]
        BY <1>1, <1>2, <1>4, ConcatProperties
    <2>3. head # <<>> /\ rest # <<>>
        BY <1>1, <1>4, <2>1, EmptySeq
    <2>4. ~ Truncated(head) /\ ~ Truncated(rest)
        BY <1>1, <1>4, <2>1 DEF Truncated
    <2>5. MessageLength(head) = MessageLength(rest)
        BY <2>2 DEF MessageLength
    <2>. QED BY <1>2, <2>2, <2>3, <2>4, <2>5 DEF rest, NoPadding
<1>. QED BY <1>2, <1>3, <1>4

(* Without a message the outcome at a byte is its end.                     *)
LEMMA NothingLeft ==
    ASSUME TypeOK, NEW p \in Positions(source), Rest(source, p) # <<>>,
           Rest(source, p)[1] # Nul, NoMessage(Rest(source, p))
    PROVE  SplitFrom(source)[p] = Nothing("error")
<1>1. SplitFrom(source)[p] = SplitStep(SplitFrom(source), source, p)
    BY SourceType, SplitEquation
<1>. QED BY <1>1 DEF SplitStep

LEMMA ReadHeaderInv == ASSUME StreamInv, ReadHeader PROVE StreamInv'
<1>1. TypeOK
    BY DEF StreamInv
<1>2. PICK p \in Positions(source) : AtByte(p)
    BY DEF StreamInv, Positions
<1>. DEFINE rest == Rest(source, p)
<1>3. pc = "header" /\ UNCHANGED <<left, head, yielded, source>>
    BY DEF ReadHeader
<1>4. /\ head = <<>> <=> rest = <<>>
      /\ head # <<>> => /\ head[1] = rest[1] /\ head[1] # Nul
                        /\ Truncated(head) <=> Truncated(rest)
      /\ head # <<>> /\ ~ Truncated(head) => MessageLength(head) = MessageLength(rest)
    BY <1>1, <1>2, <1>3, HeaderTellsAll
<1>5. CASE head = <<>>
    <2>1. pc' = "end" /\ UNCHANGED <<buffer, length>>
        BY <1>5 DEF ReadHeader
    <2>2. SplitFrom(source)[p] = Nothing("end")
        <3>1. SplitFrom(source)[p] = SplitStep(SplitFrom(source), source, p)
            BY <1>1, SourceType, SplitEquation
        <3>. QED BY <1>4, <1>5, <3>1 DEF SplitStep
    <2>3. TypeOK'
        BY <1>1, <1>3, <2>1 DEF TypeOK
    <2>4. AtByte(p)'
        BY <1>2, <1>3, <2>1, <2>2 DEF AtByte
    <2>. QED BY <1>3, <2>3, <2>4 DEF StreamInv, Positions
<1>6. CASE head # <<>> /\ (head[1] # Indicator \/ Truncated(head))
    <2>1. pc' = "error" /\ UNCHANGED <<buffer, length>>
        BY <1>6 DEF ReadHeader
    <2>2. SplitFrom(source)[p] = Nothing("error")
        BY <1>1, <1>4, <1>6, NothingLeft DEF NoMessage
    <2>3. TypeOK'
        BY <1>1, <1>3, <2>1 DEF TypeOK
    <2>4. AtByte(p)'
        BY <1>2, <1>3, <2>1, <2>2 DEF AtByte
    <2>. QED BY <1>3, <2>3, <2>4 DEF StreamInv, Positions
<1>7. CASE head # <<>> /\ head[1] = Indicator /\ ~ Truncated(head)
    <2>. DEFINE n == Smaller(Len(head), length')
    <2>1. pc' = "body" /\ length' = MessageLength(head) /\ buffer' = Take(head, n)
        BY <1>7 DEF ReadHeader
    <2>2. head \in Seq(Byte) /\ left \in Seq(Byte) /\ Len(head) \in Nat
        BY <1>1 DEF TypeOK
    <2>3. length' \in Nat
        BY <1>7, <2>1, <2>2, LengthOfMessage
    <2>4. n \in 0..Len(head) /\ n <= length' /\ (n < length' => Len(head) < length')
        BY <2>2, <2>3 DEF Smaller
    <2>. HIDE DEF n
    <2>5. buffer' \in Seq(Byte) /\ Len(buffer') = n /\ buffer' \o Drop(head, n) = head
        BY <2>1, <2>2, <2>4, TakeThenDrop
    <2>6. TypeOK'
        BY <1>1, <1>3, <2>1, <2>3, <2>5 DEF TypeOK
    <2>7. head \o left = rest
        BY <1>2, <1>3 DEF AtByte
    <2>8. AtByte(p)'
        BY <1>2, <1>3, <1>4, <1>7, <2>1, <2>4, <2>5, <2>7 DEF AtByte, n
    <2>. QED BY <1>3, <2>6, <2>8 DEF StreamInv, Positions
<1>. QED BY <1>5, <1>6, <1>7
(* What of the source is accounted for while a message is read.            *)
Over == Drop(head, Smaller(Len(head), length))

LEMMA MessageSoFar ==
    ASSUME TypeOK, NEW p \in Positions(source), AtByte(p), pc = "body"
    PROVE  LET rest == Rest(source, p)
           IN  /\ Over \in Seq(Byte) /\ Over \o left \in Seq(Byte)
               /\ rest \in Seq(Byte)
               /\ rest = buffer \o (Over \o left)
               /\ Len(rest) = Len(buffer) + Len(Over \o left)
               /\ \A i \in 1..Len(buffer) : rest[i] = buffer[i]
               /\ Len(buffer) < length => Over = <<>>
<1>. DEFINE rest == Rest(source, p)
            n == Smaller(Len(head), length)
<1>1. /\ head \in Seq(Byte) /\ left \in Seq(Byte) /\ buffer \in Seq(Byte)
      /\ Len(head) \in Nat /\ length \in Nat
    BY DEF TypeOK
<1>2. n \in 0..Len(head) /\ (Len(head) < length => n = Len(head))
    BY <1>1 DEF Smaller
<1>3. (buffer \o Over) \o left = rest /\ (Len(buffer) < length => Len(head) < length)
    BY DEF AtByte, Over
<1>4. Over \in Seq(Byte) /\ Len(Over) = Len(head) - n
    BY <1>1, <1>2, EmptySeq, DropOfRead DEF Over
<1>5. Over \o left \in Seq(Byte)
    BY <1>1, <1>4, ConcatProperties
<1>6. rest = buffer \o (Over \o left)
    BY <1>1, <1>3, <1>4, JoinIsAssociative
<1>7. Len(buffer) < length => Over = <<>>
    <2>1. Len(buffer) < length => Len(Over) = 0
        BY <1>1, <1>2, <1>3, <1>4
    <2>. QED BY <1>4, <2>1, EmptySeq
<1>8. /\ rest \in Seq(Byte)
      /\ Len(rest) = Len(buffer) + Len(Over \o left)
      /\ \A i \in 1..Len(buffer) : rest[i] = buffer[i]
    BY <1>1, <1>5, <1>6, ConcatProperties
<1>. HIDE DEF rest, n
<1>. QED BY <1>4, <1>5, <1>6, <1>7, <1>8 DEF rest

LEMMA ReadBodyInv == ASSUME StreamInv, ReadBody PROVE StreamInv'
<1>1. TypeOK
    BY DEF StreamInv
<1>2. PICK p \in Positions(source) : AtByte(p)
    BY DEF StreamInv, Positions
<1>3. /\ head \in Seq(Byte) /\ left \in Seq(Byte) /\ buffer \in Seq(Byte)
      /\ Len(buffer) \in Nat /\ length \in Nat
    BY <1>1 DEF TypeOK
<1>4. /\ pc = "body" /\ ReadInto(length - Len(buffer))
      /\ UNCHANGED <<head, length, pc, yielded, source>>
    BY DEF ReadBody
<1>5. /\ buffer' \in Seq(Byte) /\ left' \in Seq(Byte)
      /\ Len(buffer') > Len(buffer) /\ Len(buffer') <= Len(buffer) + (length - Len(buffer))
      /\ buffer' \o left' = buffer \o left
    <2>1. length - Len(buffer) \in Int
        BY <1>3
    <2>. QED BY <1>3, <1>4, <2>1, ReadIntoKeepsBytes, Zenon
<1>6. Len(buffer) < length /\ Len(buffer') <= length /\ Len(buffer') \in Nat
    BY <1>3, <1>5
<1>7. TypeOK'
    BY <1>1, <1>4, <1>5 DEF TypeOK
<1>8. Over = <<>> /\ Len(head) < length
    BY <1>1, <1>2, <1>4, <1>6, MessageSoFar DEF AtByte
<1>9. Over' = Over
    BY <1>4 DEF Over
<1>10. (buffer' \o Over') \o left' = (buffer \o Over) \o left
    <2>1. buffer' \o Over' = buffer' /\ buffer \o Over = buffer
        BY <1>3, <1>5, <1>8, <1>9, ConcatEmptySeq
    <2>. QED BY <1>5, <2>1
<1>11. AtByte(p)'
    BY <1>2, <1>4, <1>6, <1>8, <1>10 DEF AtByte, Over
<1>. QED BY <1>4, <1>7, <1>11 DEF StreamInv, Positions

(* A message that is cut off, or that does not end with 7777, is an error  *)
(* of the source.                                                          *)
LEMMA TruncatedMessageInv == ASSUME StreamInv, TruncatedMessage PROVE StreamInv'
<1>1. TypeOK
    BY DEF StreamInv
<1>2. PICK p \in Positions(source) : AtByte(p)
    BY DEF StreamInv, Positions
<1>. DEFINE rest == Rest(source, p)
<1>3. /\ left \in Seq(Byte) /\ buffer \in Seq(Byte)
      /\ Len(buffer) \in Nat /\ length \in Nat
    BY <1>1 DEF TypeOK
<1>4. /\ pc = "body" /\ (left = <<>> \/ Len(buffer) = length) /\ ~ Complete /\ pc' = "error"
      /\ UNCHANGED <<left, head, buffer, length, yielded, source>>
    BY DEF TruncatedMessage
<1>5. /\ rest # <<>> /\ rest[1] = Indicator /\ length = MessageLength(rest)
      /\ Len(buffer) <= length
    BY <1>2, <1>4 DEF AtByte
<1>6. /\ rest \in Seq(Byte) /\ rest = buffer \o (Over \o left)
      /\ \A i \in 1..Len(buffer) : rest[i] = buffer[i]
      /\ Len(buffer) < length => Over = <<>>
    BY <1>1, <1>2, <1>4, MessageSoFar
<1>. HIDE DEF rest
<1>7. NoMessage(rest)
    <2>1. CASE Len(buffer) = length /\ buffer = <<>>
        BY <1>5, <2>1, EmptySeq DEF NoMessage
    <2>2. CASE Len(buffer) = length /\ buffer # <<>>
        <3>1. buffer[Len(buffer)] # End
            BY <1>4, <2>2 DEF Complete, Last
        <3>2. Len(buffer) \in 1..Len(buffer)
            BY <1>3, <2>2, EmptySeq
        <3>. QED BY <1>5, <1>6, <2>2, <3>1, <3>2 DEF NoMessage
    <2>3. CASE Len(buffer) # length
        <3>1. Len(buffer) < length /\ left = <<>>
            BY <1>3, <1>4, <1>5, <2>3
        <3>2. Over \o left = <<>>
            BY <1>3, <1>6, <3>1, ConcatEmptySeq
        <3>3. rest = buffer
            BY <1>3, <1>6, <3>2, ConcatEmptySeq
        <3>. QED BY <1>5, <3>1, <3>3 DEF NoMessage
    <2>. QED BY <2>1, <2>2, <2>3
<1>8. SplitFrom(source)[p] = Nothing("error")
    BY <1>1, <1>5, <1>7, NothingLeft DEF rest, Indicator, Nul
<1>9. TypeOK'
    BY <1>1, <1>4 DEF TypeOK
<1>10. AtByte(p)'
    BY <1>2, <1>4, <1>8 DEF AtByte
<1>. QED BY <1>4, <1>9, <1>10 DEF StreamInv, Positions

(* The message yielded is the one the source has there, and nothing of     *)
(* what comes after it is lost.                                            *)
LEMMA YieldInv == ASSUME StreamInv, Yield PROVE StreamInv'
<1>1. TypeOK
    BY DEF StreamInv
<1>2. PICK p \in Positions(source) : AtByte(p)
    BY DEF StreamInv, Positions
<1>. DEFINE rest == Rest(source, p)
            f == SplitFrom(source)
<1>3. /\ left \in Seq(Byte) /\ buffer \in Seq(Byte) /\ source \in Seq(Byte)
      /\ Len(buffer) \in Nat /\ length \in Nat /\ yielded \in Seq(Seq(Byte))
    BY <1>1, SourceType DEF TypeOK
<1>4. /\ pc = "body" /\ Complete /\ yielded' = Append(yielded, buffer) /\ head' = Over
      /\ pc' = "strip" /\ UNCHANGED <<left, buffer, length, source>>
    BY DEF Yield, Over
<1>5. /\ rest # <<>> /\ rest[1] = Indicator /\ ~ Truncated(rest) /\ length = MessageLength(rest)
      /\ f[1].messages = yielded \o f[p].messages /\ f[1].ends = f[p].ends
    BY <1>2, <1>4 DEF AtByte
<1>6. /\ Over \in Seq(Byte) /\ Over \o left \in Seq(Byte)
      /\ rest \in Seq(Byte) /\ rest = buffer \o (Over \o left)
      /\ Len(rest) = Len(buffer) + Len(Over \o left)
      /\ \A i \in 1..Len(buffer) : rest[i] = buffer[i]
    BY <1>1, <1>2, <1>4, MessageSoFar
<1>7. /\ Len(buffer) = length /\ buffer # <<>> /\ buffer[Len(buffer)] = End
    BY <1>4 DEF Complete, Last
<1>8. length \in 1..Len(rest) /\ length \in 1..Len(buffer)
    <2>1. Len(Over \o left) \in Nat
        BY <1>6
    <2>2. Len(buffer) # 0
        BY <1>3, <1>7, EmptySeq
    <2>. HIDE DEF rest
    <2>. QED BY <1>3, <1>6, <1>7, <2>1, <2>2
<1>9. Take(rest, length) = buffer
    <2>. HIDE DEF rest
    <2>1. length \in 0..Len(rest) /\ rest \in Seq(Byte)
        BY <1>6, <1>8
    <2>2. /\ Take(rest, length) \in Seq(Byte) /\ Len(Take(rest, length)) = length
          /\ \A i \in 1..length : Take(rest, length)[i] = rest[i]
        BY <2>1, TakeThenDrop
    <2>. QED BY <1>3, <1>6, <1>7, <2>2, SeqEqual
<1>10. Drop(rest, length) = Over \o left
    <2>1. length \in 0..Len(buffer)
        BY <1>8
    <2>2. Drop(buffer, length) \in Seq(Byte) /\ Len(Drop(buffer, length)) = Len(buffer) - length
        BY <1>3, <2>1, EmptySeq, DropOfRead
    <2>3. Drop(buffer, length) = <<>>
        BY <1>3, <1>7, <2>2, EmptySeq
    <2>4. Drop(buffer \o (Over \o left), length) = Drop(buffer, length) \o (Over \o left)
        BY <1>3, <1>6, <2>1, DropOfRead
    <2>. QED BY <1>6, <2>3, <2>4, ConcatEmptySeq
<1>11. /\ Drop(rest, length) = Rest(source, p + length)
       /\ p + length \in Positions(source)
    <2>1. length \in 0..(Len(source) - p + 1)
        BY <1>3, <1>8, RestOfSource DEF Positions
    <2>. QED BY <1>3, <2>1, RestOfSource DEF Positions
<1>12. ~ NoMessage(rest)
    <2>1. rest[length] = End
        BY <1>6, <1>7, <1>8
    <2>2. length # 0 /\ ~ (length > Len(rest))
        BY <1>8
    <2>. HIDE DEF rest
    <2>. QED BY <1>5, <2>1, <2>2 DEF NoMessage
<1>13. f[p] = WithFirst(buffer, f[p + length])
    <2>1. f[p] = SplitStep(f, source, p)
        BY <1>3, SplitEquation
    <2>2. rest[1] # Nul
        BY <1>5 DEF Indicator, Nul
    <2>. HIDE DEF f
    <2>. QED BY <1>5, <1>9, <1>12, <2>1, <2>2 DEF SplitStep
<1>14. f[p + length] \in Outcome
    BY <1>3, <1>11, SplitType
<1>. HIDE DEF f, rest
<1>15. f[p].messages = <<buffer>> \o f[p + length].messages /\ f[p].ends = f[p + length].ends
    BY <1>13 DEF WithFirst
<1>16. f[p + length].messages \in Seq(Seq(Byte))
    BY <1>14 DEF Outcome
<1>17. yielded' \in Seq(Seq(Byte)) /\ yielded' = yielded \o <<buffer>>
    BY <1>3, <1>4, AppendProperties, AppendIsConcat
<1>18. f[1].messages = yielded' \o f[p + length].messages
    <2>. DEFINE m == <<buffer>>
                o == f[p + length].messages
    <2>1. m \in Seq(Seq(Byte)) /\ o \in Seq(Seq(Byte)) /\ yielded \in Seq(Seq(Byte))
        BY <1>3, <1>16
    <2>. HIDE DEF m, o
    <2>2. (yielded \o m) \o o = yielded \o (m \o o)
        BY <2>1, ConcatAssociative
    <2>. QED BY <1>5, <1>15, <1>17, <2>2 DEF m, o
<1>19. TypeOK'
    BY <1>1, <1>4, <1>6, <1>17 DEF TypeOK
<1>20. AtByte(p + length)'
    BY <1>4, <1>5, <1>10, <1>11, <1>15, <1>18 DEF AtByte, f, rest
<1>. QED BY <1>4, <1>11, <1>19, <1>20 DEF StreamInv, Positions

LEMMA NextStreamInv == StreamInv /\ [Next]_vars => StreamInv'
<1>. SUFFICES ASSUME StreamInv, [Next]_vars PROVE StreamInv'
    OBVIOUS
<1>1. CASE UNCHANGED vars
    <2>1. UNCHANGED <<left, head, buffer, length, pc, yielded, source>>
        BY <1>1 DEF vars
    <2>2. TypeOK'
        BY <2>1 DEF StreamInv, TypeOK
    <2>3. \A p : AtByte(p) => AtByte(p)'
        BY <2>1 DEF AtByte, NoPadding
    <2>. QED BY <2>1, <2>2, <2>3 DEF StreamInv
<1>. QED BY <1>1, StripInv, ReadAheadInv, ReadAheadDoneInv, ReadHeaderInv, ReadBodyInv,
            TruncatedMessageInv, YieldInv DEF Next

LEMMA StreamInvariant == Spec => []StreamInv
BY InitStreamInv, NextStreamInv, PTL DEF Spec

-----------------------------------------------------------------------------
(* Every variable has its type.                                            *)
THEOREM StreamTypeCorrect == Spec => []TypeOK
<1>1. StreamInv => TypeOK
    BY DEF StreamInv
<1>. QED BY <1>1, StreamInvariant, PTL

(* stream_messages yields the source's messages, in order and byte by      *)
(* byte, never another; it ends with all of them, and with an error after  *)
(* those before it, however the source cuts its bytes.                     *)
THEOREM StreamYieldsTheMessages == Spec => []YieldsTheMessages
<1>1. ASSUME StreamInv PROVE YieldsTheMessages
    <2>1. TypeOK
        BY <1>1 DEF StreamInv
    <2>2. PICK p \in Positions(source) : AtByte(p)
        BY <1>1 DEF StreamInv, Positions
    <2>. DEFINE f == SplitFrom(source)
    <2>3. f[p] \in Outcome
        BY <2>1, SourceType, SplitType
    <2>4. f[1].messages = yielded \o f[p].messages /\ f[1].ends = f[p].ends
        BY <2>2 DEF AtByte
    <2>5. yielded \in Seq(Seq(Byte)) /\ f[p].messages \in Seq(Seq(Byte))
        BY <2>1, <2>3 DEF TypeOK, Outcome
    <2>6. pc \in {"end", "error"} => f[p].messages = <<>> /\ f[p].ends = pc
        BY <2>2 DEF AtByte, Nothing
    <2>7. Split(source) = f[1]
        BY DEF Split
    <2>. HIDE DEF f
    <2>8. IsPrefix(yielded, f[1].messages)
        BY <2>4, <2>5, PrefixOfJoin
    <2>9. pc \in {"end", "error"} => yielded = f[1].messages /\ pc = f[1].ends
        BY <2>4, <2>5, <2>6, ConcatEmptySeq
    <2>. QED BY <2>7, <2>8, <2>9 DEF YieldsTheMessages
<1>. QED BY <1>1, StreamInvariant, PTL
=============================================================================
