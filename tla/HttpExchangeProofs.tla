------------------------ MODULE HttpExchangeProofs ------------------------
(***************************************************************************)
(* HttpExchange: a connection is answered as the text of its request       *)
(* deserves, with the body its headers announce, and what the browser      *)
(* receives is a beginning of that answer, for every text, every page and  *)
(* every limit, however either is cut into pieces.                         *)
(*                                                                         *)
(* What a text deserves is read off the places where its lines end.  A     *)
(* place is there as soon as its byte is (the Grows lemmas), so a verdict  *)
(* once given stays (DeservedStays), and InPlace says what the parser      *)
(* remembers of the text it was fed: the unfinished line, the count of the *)
(* headers' bytes and the last Content-Length.  The answer leaves in order *)
(* because a chunk is what lies between its two offsets (ChunkIs).         *)
(***************************************************************************)
EXTENDS HttpExchange, SequenceTheorems, WellFoundedInduction, TLAPS

LEMMA LeastExists ==
    ASSUME NEW T, T \subseteq Nat, T # {}
    PROVE  \E i \in T : \A j \in T : i <= j
<1>1. PICK i \in T : \A j \in T : ~(<<j, i>> \in OpToRel(<, Nat))
    BY NatLessThanWellFounded, WFMin
<1>2. \A j \in T : ~(j < i)
    BY <1>1 DEF OpToRel
<1> QED BY <1>2

-----------------------------------------------------------------------------
(* What a text is, and what it stays when it goes on. *)

LEMMA MinIs ==
    ASSUME NEW T, T \subseteq Nat, T # {}
    PROVE  Min(T) \in T /\ \A j \in T : Min(T) <= j
BY LeastExists DEF Min

LEMMA MaxIs ==
    ASSUME NEW n, n \in Nat, NEW T, T \subseteq 0 .. n, T # {}
    PROVE  Max(T) \in T /\ \A j \in T : j <= Max(T)
<1> DEFINE U == {m \in 0 .. n : n - m \in T}
<1>1. U \subseteq Nat /\ U # {}
    <2>1. PICK j \in T : TRUE
        OBVIOUS
    <2>2. n - j \in U
        BY <2>1
    <2> QED BY <2>2
<1>2. PICK m \in U : \A k \in U : m <= k
    BY <1>1, LeastExists
<1>3. n - m \in T /\ \A j \in T : j <= n - m
    <2>1. \A j \in T : n - j \in U
        OBVIOUS
    <2> QED BY <1>2, <2>1
<1>4. \E x \in T : \A y \in T : x >= y
    BY <1>3
<1> QED BY <1>4 DEF Max

\* A text and the same text after one more byte.
Longer(u, v) ==
    /\ u \in Seq(STRING) /\ v \in Seq(STRING)
    /\ Len(v) = Len(u) + 1
    /\ \A i \in 1 .. Len(u) : v[i] = u[i]

LEMMA PartSame ==
    ASSUME NEW u, NEW v, Longer(u, v), NEW a, a \in 1 .. Len(u) + 1, NEW b, b \in 0 .. Len(u)
    PROVE  SubSeq(v, a, b) = SubSeq(u, a, b)
<1>1. Len(u) \in Nat
    BY DEF Longer
<1>2. SubSeq(v, a, b) = [i \in 1 .. b - a + 1 |-> v[a + i - 1]]
    BY <1>1 DEF Longer
<1>3. SubSeq(u, a, b) = [i \in 1 .. b - a + 1 |-> u[a + i - 1]]
    BY <1>1 DEF Longer
<1>4. \A i \in 1 .. b - a + 1 : a + i - 1 \in 1 .. Len(u)
    BY <1>1
<1>5. \A i \in 1 .. b - a + 1 : v[a + i - 1] = u[a + i - 1]
    BY <1>4 DEF Longer
<1> QED BY <1>2, <1>3, <1>5

LEMMA BeginningSame ==
    ASSUME NEW u, NEW v, Longer(u, v), NEW b, b \in 0 .. Len(u)
    PROVE  SubSeq(v, 1, b) = SubSeq(u, 1, b)
<1>1. Len(u) \in Nat
    BY DEF Longer
<1>2. SubSeq(v, 1, b) = [i \in 1 .. b |-> v[i]] /\ SubSeq(u, 1, b) = [i \in 1 .. b |-> u[i]]
    BY <1>1 DEF Longer
<1>3. \A i \in 1 .. b : v[i] = u[i]
    BY <1>1 DEF Longer
<1> QED BY <1>2, <1>3

LEMMA PartGrows ==
    ASSUME NEW u, NEW v, Longer(u, v), NEW a, a \in 1 .. Len(u) + 1
    PROVE  /\ SubSeq(u, a, Len(u)) \in Seq(STRING)
           /\ Len(SubSeq(u, a, Len(u))) = Len(u) + 1 - a
           /\ SubSeq(v, a, Len(v)) = Append(SubSeq(u, a, Len(u)), v[Len(v)])
<1>1. Len(u) \in Nat /\ Len(v) = Len(u) + 1
    BY DEF Longer
<1>2. SubSeq(v, a, Len(v)) = [i \in 1 .. Len(v) - a + 1 |-> v[a + i - 1]]
    BY <1>1 DEF Longer
<1>3. SubSeq(u, a, Len(u)) = [i \in 1 .. Len(u) - a + 1 |-> u[a + i - 1]]
    BY <1>1 DEF Longer
<1> DEFINE s == SubSeq(u, a, Len(u))
<1>4. s \in Seq(STRING) /\ Len(s) = Len(u) + 1 - a
    BY <1>1, SubSeqProperties DEF Longer
<1>5. Append(s, v[Len(v)]) = [i \in 1 .. Len(u) + 1 - a + 1 |->
                                 IF i <= Len(u) + 1 - a THEN s[i] ELSE v[Len(v)]]
    BY <1>1, <1>4 DEF Longer
<1>6. \A i \in 1 .. Len(v) - a + 1 :
         v[a + i - 1] = IF i <= Len(u) + 1 - a THEN s[i] ELSE v[Len(v)]
    <2> SUFFICES ASSUME NEW i \in 1 .. Len(v) - a + 1
                 PROVE  v[a + i - 1] = IF i <= Len(u) + 1 - a THEN s[i] ELSE v[Len(v)]
        OBVIOUS
    <2>1. CASE i <= Len(u) + 1 - a
        <3>1. a + i - 1 \in 1 .. Len(u) /\ i \in 1 .. Len(u) - a + 1
            BY <1>1, <2>1
        <3>2. s[i] = u[a + i - 1]
            BY <1>3, <3>1
        <3> QED BY <3>1, <3>2, <2>1 DEF Longer
    <2>2. CASE ~(i <= Len(u) + 1 - a)
        <3>1. a + i - 1 = Len(v)
            BY <1>1, <2>2
        <3> QED BY <3>1, <2>2
    <2> QED BY <2>1, <2>2
<1>7. Len(v) - a + 1 = Len(u) + 1 - a + 1
    BY <1>1
<1> HIDE DEF s
<1>8. SubSeq(v, a, Len(v)) = Append(s, v[Len(v)])
    BY <1>2, <1>5, <1>6, <1>7
<1> QED BY <1>4, <1>8 DEF s

\* A line end is the second of two bytes, so no two of them are neighbours.
LEMMA EndsIn ==
    ASSUME NEW u, u \in Seq(STRING)
    PROVE  /\ LineEnds(u) \subseteq 2 .. Len(u)
           /\ \A i \in LineEnds(u) : i + 1 \notin LineEnds(u)
BY DEF LineEnds

LEMMA EndsGrow ==
    ASSUME NEW u, NEW v, Longer(u, v)
    PROVE  LineEnds(u) = {i \in LineEnds(v) : i <= Len(u)}
BY DEF LineEnds, Longer

LEMMA RequestEndIs ==
    ASSUME NEW u, u \in Seq(STRING)
    PROVE  /\ RequestEnd(u) \in 1 .. Len(u) + 1
           /\ RequestEnd(u) <= Len(u) => RequestEnd(u) \in LineEnds(u)
           /\ \A i \in LineEnds(u) : RequestEnd(u) <= i
<1> DEFINE T == LineEnds(u) \union {Len(u) + 1}
<1>1. T \subseteq Nat /\ T # {} /\ T \subseteq 1 .. Len(u) + 1 /\ Len(u) \in Nat
    BY EndsIn
<1>2. Min(T) \in T /\ \A j \in T : Min(T) <= j
    BY <1>1, MinIs
<1>3. RequestEnd(u) = Min(T)
    BY DEF RequestEnd
<1> HIDE DEF T
<1>4. RequestEnd(u) \in T /\ \A j \in T : RequestEnd(u) <= j
    BY <1>2, <1>3
<1> QED BY <1>1, <1>4 DEF T

LEMMA BlankEndIs ==
    ASSUME NEW u, u \in Seq(STRING)
    PROVE  /\ BlankEnd(u) \in 1 .. Len(u) + 1
           /\ BlankEnd(u) <= Len(u) => BlankEnd(u) \in LineEnds(u) /\ BlankEnd(u) - 2 \in LineEnds(u)
           /\ \A i \in LineEnds(u) : i - 2 \in LineEnds(u) => BlankEnd(u) <= i
           /\ RequestEnd(u) <= Len(u) => RequestEnd(u) < BlankEnd(u)
<1> DEFINE T == {i \in LineEnds(u) : i - 2 \in LineEnds(u)} \union {Len(u) + 1}
<1>1. T \subseteq Nat /\ T # {} /\ T \subseteq 1 .. Len(u) + 1 /\ Len(u) \in Nat
    BY EndsIn
<1>2. Min(T) \in T /\ \A j \in T : Min(T) <= j
    BY <1>1, MinIs
<1>3. BlankEnd(u) = Min(T)
    BY DEF BlankEnd
<1> HIDE DEF T
<1>4. BlankEnd(u) \in T /\ \A j \in T : BlankEnd(u) <= j
    BY <1>2, <1>3
<1>5. BlankEnd(u) <= Len(u) => BlankEnd(u) \in LineEnds(u) /\ BlankEnd(u) - 2 \in LineEnds(u)
    BY <1>1, <1>4 DEF T
<1>6. RequestEnd(u) <= Len(u) => RequestEnd(u) < BlankEnd(u)
    <2>1. BlankEnd(u) \in Int /\ BlankEnd(u) <= Len(u) + 1
        BY <1>1, <1>4 DEF T
    <2>2. RequestEnd(u) \in Int /\ \A i \in LineEnds(u) : RequestEnd(u) <= i
        BY RequestEndIs
    <2>3. CASE BlankEnd(u) <= Len(u)
        <3>1. RequestEnd(u) <= BlankEnd(u) - 2
            BY <1>5, <2>2, <2>3
        <3> QED BY <2>1, <2>2, <3>1
    <2> QED BY <1>1, <2>1, <2>2, <2>3
<1> QED BY <1>1, <1>4, <1>5, <1>6 DEF T

LEMMA HeaderPlaces ==
    ASSUME NEW u, u \in Seq(STRING)
    PROVE  /\ DOMAIN HeadersOf(u) = {k \in LineEnds(u) : RequestEnd(u) < k /\ k < BlankEnd(u)}
           /\ \A i \in DOMAIN HeadersOf(u) :
                 HeadersOf(u)[i] = SubSeq(u, LineStart(u, i), i - 2)
           /\ HeadersOf(u) = [i \in DOMAIN HeadersOf(u) |-> HeadersOf(u)[i]]
BY DEF HeadersOf

LEMMA WrongEndIs ==
    ASSUME NEW u, u \in Seq(STRING)
    PROVE  /\ WrongEnd(u) \in 1 .. BlankEnd(u)
           /\ WrongEnd(u) < BlankEnd(u) => /\ WrongEnd(u) \in DOMAIN HeadersOf(u)
                                           /\ ~Has(HeadersOf(u)[WrongEnd(u)], HeaderLetters)
           /\ \A i \in DOMAIN HeadersOf(u) :
                 ~Has(HeadersOf(u)[i], HeaderLetters) => WrongEnd(u) <= i
<1> DEFINE T == {i \in DOMAIN HeadersOf(u) : ~Has(HeadersOf(u)[i], HeaderLetters)} \union {BlankEnd(u)}
<1>1. DOMAIN HeadersOf(u) \subseteq 1 .. BlankEnd(u) - 1 /\ BlankEnd(u) \in Nat \ {0}
    <2>1. BlankEnd(u) \in Nat \ {0}
        BY BlankEndIs
    <2>2. \A k \in LineEnds(u) : k \in Nat /\ k >= 2
        BY EndsIn
    <2>3. \A k \in DOMAIN HeadersOf(u) : k \in LineEnds(u) /\ k < BlankEnd(u)
        BY HeaderPlaces
    <2> QED BY <2>1, <2>2, <2>3
<1>2. T \subseteq Nat /\ T # {} /\ T \subseteq 1 .. BlankEnd(u)
    BY <1>1
<1>3. Min(T) \in T /\ \A j \in T : Min(T) <= j
    BY <1>2, MinIs
<1>4. WrongEnd(u) = Min(T)
    BY DEF WrongEnd
<1> HIDE DEF T
<1>5. WrongEnd(u) \in T /\ \A j \in T : WrongEnd(u) <= j
    BY <1>3, <1>4
<1> QED BY <1>1, <1>2, <1>5 DEF T

LEMMA RequestEndGrows ==
    ASSUME NEW u, NEW v, Longer(u, v)
    PROVE  /\ RequestEnd(u) <= Len(u) => RequestEnd(v) = RequestEnd(u)
           /\ RequestEnd(u) > Len(u) => RequestEnd(v) > Len(u)
<1>1. u \in Seq(STRING) /\ v \in Seq(STRING) /\ Len(v) = Len(u) + 1 /\ Len(u) \in Nat
    BY DEF Longer
<1>2. \A i \in LineEnds(v) : i \in Int /\ (i <= Len(u) <=> i \in LineEnds(u))
    BY <1>1, EndsGrow, EndsIn
<1>3. /\ RequestEnd(u) \in Int /\ RequestEnd(v) \in Int
      /\ RequestEnd(v) <= Len(v) => RequestEnd(v) \in LineEnds(v)
      /\ RequestEnd(u) <= Len(u) => RequestEnd(u) \in LineEnds(u)
      /\ \A i \in LineEnds(u) : RequestEnd(u) <= i
      /\ \A i \in LineEnds(v) : RequestEnd(v) <= i
    BY <1>1, RequestEndIs
<1>4. \A i \in LineEnds(u) : i \in LineEnds(v) /\ i <= Len(u)
    BY EndsGrow
<1> QED BY <1>1, <1>2, <1>3, <1>4

LEMMA BlankEndGrows ==
    ASSUME NEW u, NEW v, Longer(u, v)
    PROVE  /\ BlankEnd(u) <= Len(u) => BlankEnd(v) = BlankEnd(u)
           /\ BlankEnd(u) > Len(u) => BlankEnd(v) > Len(u)
<1>1. u \in Seq(STRING) /\ v \in Seq(STRING) /\ Len(v) = Len(u) + 1 /\ Len(u) \in Nat
    BY DEF Longer
<1>2. \A i \in LineEnds(v) : i \in Int /\ (i <= Len(u) => i \in LineEnds(u))
    BY <1>1, EndsGrow, EndsIn
<1>3. /\ BlankEnd(u) \in Int /\ BlankEnd(v) \in Int
      /\ BlankEnd(v) <= Len(v) => BlankEnd(v) \in LineEnds(v) /\ BlankEnd(v) - 2 \in LineEnds(v)
      /\ BlankEnd(u) <= Len(u) => BlankEnd(u) \in LineEnds(u) /\ BlankEnd(u) - 2 \in LineEnds(u)
      /\ \A i \in LineEnds(u) : i - 2 \in LineEnds(u) => BlankEnd(u) <= i
      /\ \A i \in LineEnds(v) : i - 2 \in LineEnds(v) => BlankEnd(v) <= i
    BY <1>1, BlankEndIs
<1>4. \A i \in LineEnds(u) : i \in LineEnds(v) /\ i <= Len(u)
    BY EndsGrow
<1>5. CASE BlankEnd(v) <= Len(u)
    <2>1. BlankEnd(v) \in LineEnds(u) /\ BlankEnd(v) - 2 \in LineEnds(u)
        BY <1>1, <1>2, <1>3, <1>5
    <2>2. BlankEnd(u) <= BlankEnd(v)
        BY <1>3, <2>1
    <2>3. BlankEnd(v) <= BlankEnd(u)
        BY <1>1, <1>3, <1>4, <1>5, <2>2
    <2> QED BY <1>1, <1>3, <1>5, <2>2, <2>3
<1>6. CASE BlankEnd(v) > Len(u)
    <2>1. CASE BlankEnd(u) <= Len(u)
        <3>1. BlankEnd(v) <= BlankEnd(u)
            BY <1>3, <1>4, <2>1
        <3> QED BY <1>1, <1>3, <1>6, <2>1, <3>1
    <2> QED BY <1>1, <1>3, <1>6, <2>1
<1> QED BY <1>1, <1>3, <1>5, <1>6

\* Where a line starts: after the line end before it.
LEMMA LineStartIs ==
    ASSUME NEW u, u \in Seq(STRING), NEW i, i \in 1 .. Len(u) + 1, NEW e, e \in LineEnds(u), e < i
    PROVE  /\ LineStart(u, i) \in Int /\ LineStart(u, i) - 1 \in LineEnds(u)
           /\ LineStart(u, i) - 1 < i
           /\ \A k \in LineEnds(u) : k < i => k <= LineStart(u, i) - 1
<1> DEFINE T == {k \in LineEnds(u) : k < i}
<1>1. Len(u) \in Nat /\ T \subseteq 0 .. Len(u) /\ T # {}
    BY EndsIn
<1>2. Max(T) \in T /\ \A j \in T : j <= Max(T)
    BY <1>1, MaxIs
<1>3. LineStart(u, i) = Max(T) + 1
    BY DEF LineStart
<1>4. Max(T) \in Int
    BY <1>1, <1>2
<1>5. LineStart(u, i) - 1 = Max(T)
    BY <1>3, <1>4
<1>6. \A k \in LineEnds(u) : k < i => k <= Max(T)
    BY <1>2
<1>7. Max(T) \in LineEnds(u) /\ Max(T) < i
    BY <1>2
<1> HIDE DEF T
<1> QED BY <1>3, <1>4, <1>5, <1>6, <1>7

LEMMA LineStartGrows ==
    ASSUME NEW u, NEW v, Longer(u, v), NEW i, i \in 1 .. Len(u) + 1
    PROVE  LineStart(v, i) = LineStart(u, i)
<1>1. Len(u) \in Nat
    BY DEF Longer
<1>2. \A k \in LineEnds(v) : k \in Int
    BY EndsIn DEF Longer
<1>3. {k \in LineEnds(v) : k < i} = {k \in LineEnds(u) : k < i}
    BY <1>1, <1>2, EndsGrow
<1> QED BY <1>3 DEF LineStart

LEMMA HeadersGrow ==
    ASSUME NEW u, NEW v, Longer(u, v), RequestEnd(u) <= Len(u)
    PROVE  /\ DOMAIN HeadersOf(u) = {i \in DOMAIN HeadersOf(v) : i <= Len(u)}
           /\ \A i \in DOMAIN HeadersOf(u) : HeadersOf(v)[i] = HeadersOf(u)[i]
           /\ BlankEnd(u) <= Len(u) => HeadersOf(v) = HeadersOf(u)
<1>1. u \in Seq(STRING) /\ v \in Seq(STRING) /\ Len(v) = Len(u) + 1 /\ Len(u) \in Nat
    BY DEF Longer
<1>2. RequestEnd(v) = RequestEnd(u) /\ RequestEnd(u) \in Nat \ {0}
    BY <1>1, RequestEndIs, RequestEndGrows
<1>3. BlankEnd(u) \in Int /\ BlankEnd(v) \in Int /\ BlankEnd(u) <= Len(u) + 1
    BY <1>1, BlankEndIs
<1>4. \A i \in LineEnds(v) : i \in Int /\ i >= 2 /\ i <= Len(v)
    BY <1>1, EndsIn
<1>5. \A i \in Int : i <= Len(u) => (i < BlankEnd(v) <=> i < BlankEnd(u))
    BY <1>1, <1>3, BlankEndGrows
<1>6. DOMAIN HeadersOf(u) = {k \in LineEnds(u) : RequestEnd(u) < k /\ k < BlankEnd(u)}
    BY <1>1, HeaderPlaces
<1>7. DOMAIN HeadersOf(v) = {k \in LineEnds(v) : RequestEnd(u) < k /\ k < BlankEnd(v)}
    BY <1>1, <1>2, HeaderPlaces
<1>8. DOMAIN HeadersOf(u) = {i \in DOMAIN HeadersOf(v) : i <= Len(u)}
    BY <1>4, <1>5, <1>6, <1>7, EndsGrow
<1>9. ASSUME NEW i \in DOMAIN HeadersOf(u)
      PROVE  HeadersOf(v)[i] = HeadersOf(u)[i]
    <2>1. i \in LineEnds(u) /\ i \in 2 .. Len(u) /\ RequestEnd(u) \in LineEnds(u) /\ RequestEnd(u) < i
        BY <1>1, <1>6, EndsIn, RequestEndIs
    <2>2. LineStart(v, i) = LineStart(u, i)
        BY <1>1, <2>1, LineStartGrows
    <2>3. /\ LineStart(u, i) \in Int /\ LineStart(u, i) - 1 \in LineEnds(u)
          /\ LineStart(u, i) - 1 < i
        BY <1>1, <2>1, LineStartIs
    <2>4. LineStart(u, i) \in 1 .. Len(u) + 1
        BY <1>1, <1>4, <2>1, <2>3, EndsIn
    <2>5. SubSeq(v, LineStart(u, i), i - 2) = SubSeq(u, LineStart(u, i), i - 2)
        <3>1. i - 2 \in 0 .. Len(u)
            BY <1>1, <2>1
        <3> QED BY <2>4, <3>1, PartSame
    <2>6. i \in DOMAIN HeadersOf(v)
        BY <1>8
    <2>7. HeadersOf(v)[i] = SubSeq(v, LineStart(v, i), i - 2)
        BY <1>1, <2>6, HeaderPlaces
    <2>8. HeadersOf(u)[i] = SubSeq(u, LineStart(u, i), i - 2)
        BY <1>1, HeaderPlaces
    <2> QED BY <2>2, <2>5, <2>7, <2>8
<1>10. BlankEnd(u) <= Len(u) => HeadersOf(v) = HeadersOf(u)
    <2> SUFFICES ASSUME BlankEnd(u) <= Len(u) PROVE HeadersOf(v) = HeadersOf(u)
        OBVIOUS
    <2>1. BlankEnd(v) = BlankEnd(u)
        BY BlankEndGrows
    <2>2. \A i \in DOMAIN HeadersOf(v) : i <= Len(u)
        BY <1>1, <1>3, <1>4, <1>7, <2>1
    <2>3. DOMAIN HeadersOf(v) = DOMAIN HeadersOf(u)
        BY <1>8, <2>2
    <2> QED BY <1>1, <1>9, <2>3, HeaderPlaces
<1> QED BY <1>8, <1>9, <1>10

LEMMA WrongEndGrows ==
    ASSUME NEW u, NEW v, Longer(u, v), RequestEnd(u) <= Len(u)
    PROVE  /\ WrongEnd(u) <= Len(u) => WrongEnd(v) = WrongEnd(u)
           /\ WrongEnd(u) > Len(u) => WrongEnd(v) > Len(u)
<1>1. u \in Seq(STRING) /\ v \in Seq(STRING) /\ Len(v) = Len(u) + 1 /\ Len(u) \in Nat
    BY DEF Longer
<1>2. BlankEnd(u) \in Int /\ BlankEnd(v) \in Int /\ BlankEnd(u) <= Len(u) + 1
    BY <1>1, BlankEndIs
<1>3. WrongEnd(u) \in Int /\ WrongEnd(v) \in Int /\ WrongEnd(u) <= BlankEnd(u) /\ WrongEnd(v) <= BlankEnd(v)
    BY <1>1, <1>2, WrongEndIs
<1>4. CASE BlankEnd(u) <= Len(u)
    <2>1. HeadersOf(v) = HeadersOf(u) /\ BlankEnd(v) = BlankEnd(u)
        BY <1>4, HeadersGrow, BlankEndGrows
    <2>2. WrongEnd(v) = WrongEnd(u)
        BY <2>1 DEF WrongEnd
    <2> QED BY <1>1, <1>2, <1>3, <1>4, <2>2
<1>6. \A i \in DOMAIN HeadersOf(u) : i \in DOMAIN HeadersOf(v) /\ HeadersOf(v)[i] = HeadersOf(u)[i]
    <2>1. DOMAIN HeadersOf(u) = {i \in DOMAIN HeadersOf(v) : i <= Len(u)}
        BY HeadersGrow
    <2>2. \A i \in DOMAIN HeadersOf(u) : HeadersOf(v)[i] = HeadersOf(u)[i]
        BY HeadersGrow
    <2> QED BY <2>1, <2>2
<1>5. CASE BlankEnd(u) > Len(u)
    <2>1. BlankEnd(v) > Len(u)
        BY <1>5, BlankEndGrows
    <2>2. CASE WrongEnd(v) <= Len(u)
        <3>1. WrongEnd(v) \in DOMAIN HeadersOf(v) /\ ~Has(HeadersOf(v)[WrongEnd(v)], HeaderLetters)
            BY <1>1, <1>2, <1>3, <2>1, <2>2, WrongEndIs
        <3>2. WrongEnd(v) \in DOMAIN HeadersOf(u) /\ ~Has(HeadersOf(u)[WrongEnd(v)], HeaderLetters)
            BY <2>2, <3>1, HeadersGrow
        <3>3. WrongEnd(u) <= WrongEnd(v)
            BY <1>1, <3>2, WrongEndIs
        <3>4. WrongEnd(u) \in DOMAIN HeadersOf(u) /\ ~Has(HeadersOf(u)[WrongEnd(u)], HeaderLetters)
            BY <1>1, <1>2, <1>3, <1>5, <2>2, <3>3, WrongEndIs
        <3>5. WrongEnd(u) \in DOMAIN HeadersOf(v) /\ HeadersOf(v)[WrongEnd(u)] = HeadersOf(u)[WrongEnd(u)]
            BY <3>4, <1>6
        <3>6. WrongEnd(v) <= WrongEnd(u)
            BY <1>1, <3>4, <3>5, WrongEndIs
        <3> QED BY <1>1, <1>3, <2>2, <3>3, <3>6
    <2>3. CASE WrongEnd(v) > Len(u)
        <3>1. CASE WrongEnd(u) <= Len(u)
            <4>1. WrongEnd(u) \in DOMAIN HeadersOf(u) /\ ~Has(HeadersOf(u)[WrongEnd(u)], HeaderLetters)
                BY <1>1, <1>2, <1>3, <1>5, <3>1, WrongEndIs
            <4>2. WrongEnd(u) \in DOMAIN HeadersOf(v) /\ HeadersOf(v)[WrongEnd(u)] = HeadersOf(u)[WrongEnd(u)]
                BY <4>1, <1>6
            <4>3. WrongEnd(v) <= WrongEnd(u)
                BY <1>1, <4>1, <4>2, WrongEndIs
            <4> QED BY <1>1, <1>3, <2>3, <3>1, <4>3
        <3> QED BY <1>1, <1>3, <2>3, <3>1
    <2> QED BY <1>1, <1>3, <2>2, <2>3
<1> QED BY <1>1, <1>2, <1>4, <1>5

\* The lengths a header may announce.
LEMMA LengthsAre ==
    /\ \A l \in DOMAIN Lengths : Lengths[l] \in Nat
    /\ "length0" \in DOMAIN Lengths /\ Lengths["length0"] = 0
    /\ "junk" \notin DOMAIN Lengths
<1>1. DOMAIN Lengths = {"length0", "length1", "length2", "length9"}
    BY DEF Lengths
<1>2. Lengths["length0"] = 0 /\ Lengths["length1"] = 1 /\ Lengths["length2"] = 2 /\ Lengths["length9"] = 9
    BY DEF Lengths
<1> QED BY <1>1, <1>2

LEMMA AnnouncedIs ==
    ASSUME NEW u, u \in Seq(STRING)
    PROVE  Announced(HeadersOf(u)) \in DOMAIN Lengths \union {"junk"}
<1> DEFINE lines == HeadersOf(u)
           named == {i \in DOMAIN lines : Stripped(lines[i])[1] \in DOMAIN Lengths}
<1>1. Announced(lines) = IF named = {} THEN "length0" ELSE HeaderLine(lines[Max(named)], "length0")
    BY DEF Announced
<1>2. CASE named = {}
    BY <1>1, <1>2, LengthsAre
<1>3. CASE named # {}
    BY <1>1, <1>3, LengthsAre DEF HeaderLine
<1> QED BY <1>2, <1>3

\* What a text deserves once and for all it still deserves with more bytes.
LEMMA DeservedStays ==
    ASSUME NEW u, NEW v, Longer(u, v), Deserved(u).kind # "wait"
    PROVE  Deserved(v) = Deserved(u)
<1>1. u \in Seq(STRING) /\ v \in Seq(STRING) /\ Len(v) = Len(u) + 1 /\ Len(u) \in Nat
    BY DEF Longer
<1>2. RequestEnd(u) \in Int /\ RequestEnd(v) \in Int
    BY <1>1, RequestEndIs
<1>3. MaxLine \in Nat /\ MaxHeaders \in Nat /\ MaxBody \in Nat
    BY ExchangeAssumption
<1>4. CASE Least(Len(u), RequestEnd(u)) > MaxLine
    <2>1. Least(Len(v), RequestEnd(v)) > MaxLine
        BY <1>1, <1>2, <1>3, <1>4, RequestEndGrows DEF Least
    <2> QED BY <1>4, <2>1 DEF Deserved
<1>5. CASE ~(Least(Len(u), RequestEnd(u)) > MaxLine)
    <2>1. RequestEnd(u) <= Len(u) /\ Deserved(u) = RequestDeserves(u)
        BY <1>1, <1>2, <1>5 DEF Deserved
    <2>2. RequestEnd(v) = RequestEnd(u)
        BY <2>1, RequestEndGrows
    <2>3. Deserved(v) = RequestDeserves(v)
        BY <1>1, <1>2, <1>3, <1>5, <2>1, <2>2 DEF Deserved, Least
    <2>4. SubSeq(v, 1, RequestEnd(v) - 2) = SubSeq(u, 1, RequestEnd(u) - 2)
        <3>1. RequestEnd(u) \in 2 .. Len(u)
            BY <1>1, <2>1, RequestEndIs, EndsIn
        <3>2. RequestEnd(u) - 2 \in 0 .. Len(u)
            BY <1>1, <3>1
        <3>3. SubSeq(v, 1, RequestEnd(u) - 2) = SubSeq(u, 1, RequestEnd(u) - 2)
            BY <3>2, BeginningSame
        <3> QED BY <2>2, <3>3
    <2> DEFINE outcome == RequestLine(SubSeq(u, 1, RequestEnd(u) - 2))
    <2>5. CASE outcome # "ok"
        BY <2>1, <2>3, <2>4, <2>5 DEF RequestDeserves
    <2>6. CASE outcome = "ok"
        <3>1. /\ WrongEnd(u) \in Int /\ WrongEnd(v) \in Int /\ BlankEnd(u) \in Int /\ BlankEnd(v) \in Int
              /\ WrongEnd(u) <= BlankEnd(u) /\ WrongEnd(v) <= BlankEnd(v) /\ BlankEnd(u) <= Len(u) + 1
            BY <1>1, BlankEndIs, WrongEndIs
        <3>2. CASE WrongEnd(u) > Len(u)
            <4>1. WrongEnd(v) > Len(u) /\ WrongEnd(u) = BlankEnd(u)
                BY <1>1, <2>1, <3>1, <3>2, WrongEndGrows
            <4>2. Len(u) > RequestEnd(u) + MaxHeaders
                BY <1>1, <1>2, <1>3, <2>1, <2>6, <3>1, <3>2, <4>1 DEF RequestDeserves, Least
            <4>3. Least(Len(v), WrongEnd(v)) > RequestEnd(v) + MaxHeaders
                BY <1>1, <1>2, <1>3, <2>2, <3>1, <4>1, <4>2 DEF Least
            <4>4. Least(Len(u), WrongEnd(u)) > RequestEnd(u) + MaxHeaders
                BY <1>1, <1>2, <1>3, <3>1, <3>2, <4>2 DEF Least
            <4> QED BY <2>1, <2>3, <2>4, <2>6, <4>3, <4>4 DEF RequestDeserves
        <3>3. CASE WrongEnd(u) <= Len(u)
            <4>1. WrongEnd(v) = WrongEnd(u)
                BY <2>1, <3>3, WrongEndGrows
            <4>2. Least(Len(v), WrongEnd(v)) = WrongEnd(u) /\ Least(Len(u), WrongEnd(u)) = WrongEnd(u)
                BY <1>1, <3>1, <3>3, <4>1 DEF Least
            <4>3. CASE BlankEnd(u) <= Len(u)
                <5>1. BlankEnd(v) = BlankEnd(u) /\ HeadersOf(v) = HeadersOf(u)
                    BY <2>1, <4>3, HeadersGrow, BlankEndGrows
                <5>2. BlankEnd(u) \in LineEnds(u)
                    BY <1>1, <4>3, BlankEndIs
                <5> DEFINE length == Announced(HeadersOf(u))
                <5>3. length \in DOMAIN Lengths \union {"junk"}
                    BY <1>1, AnnouncedIs
                <5>4. CASE /\ ~(WrongEnd(u) > RequestEnd(u) + MaxHeaders) /\ ~(WrongEnd(u) < BlankEnd(u))
                           /\ length # "junk" /\ ~(Lengths[length] > MaxBody)
                    <6>1. Lengths[length] \in Nat
                        BY <5>3, <5>4, LengthsAre
                    <6> HIDE DEF length
                    <6>2. Deserved(u) = IF Len(u) < BlankEnd(u) + Lengths[length] THEN [kind |-> "wait", body |-> <<>>]
                                        ELSE [kind |-> "page", body |-> SubSeq(u, BlankEnd(u) + 1, BlankEnd(u) + Lengths[length])]
                        BY <1>1, <2>1, <2>6, <3>1, <4>2, <4>3, <5>4 DEF RequestDeserves, length
                    <6>3. ~(Len(u) < BlankEnd(u) + Lengths[length])
                        BY <6>2
                    <6>4. SubSeq(v, BlankEnd(u) + 1, BlankEnd(u) + Lengths[length])
                             = SubSeq(u, BlankEnd(u) + 1, BlankEnd(u) + Lengths[length])
                        <7>1. BlankEnd(u) \in 1 .. Len(u)
                            BY <1>1, <4>3, BlankEndIs
                        <7>2. BlankEnd(u) + 1 \in 1 .. Len(u) + 1 /\ BlankEnd(u) + Lengths[length] \in 0 .. Len(u)
                            BY <1>1, <6>1, <6>3, <7>1
                        <7> QED BY <7>2, PartSame
                    <6>5. ~(Len(v) < BlankEnd(u) + Lengths[length]) /\ ~(BlankEnd(v) > Len(v))
                        BY <1>1, <3>1, <4>3, <5>1, <6>1, <6>3
                    <6>6. Deserved(v) = [kind |-> "page", body |-> SubSeq(v, BlankEnd(u) + 1, BlankEnd(u) + Lengths[length])]
                        BY <2>2, <2>3, <2>4, <2>6, <4>1, <4>2, <5>1, <5>4, <6>5 DEF RequestDeserves, length
                    <6> QED BY <6>2, <6>3, <6>4, <6>6
                <5>5. CASE ~(/\ ~(WrongEnd(u) > RequestEnd(u) + MaxHeaders) /\ ~(WrongEnd(u) < BlankEnd(u))
                             /\ length # "junk" /\ ~(Lengths[length] > MaxBody))
                    <6>1. ~(BlankEnd(v) > Len(v)) /\ ~(BlankEnd(u) > Len(u))
                        BY <1>1, <3>1, <4>3, <5>1
                    <6>2. Announced(HeadersOf(v)) = length
                        BY <5>1
                    <6> HIDE DEF length
                    <6>3. CASE WrongEnd(u) > RequestEnd(u) + MaxHeaders
                        BY <2>1, <2>2, <2>3, <2>4, <2>6, <4>1, <4>2, <6>3 DEF RequestDeserves
                    <6>4. CASE ~(WrongEnd(u) > RequestEnd(u) + MaxHeaders) /\ WrongEnd(u) < BlankEnd(u)
                        BY <2>1, <2>2, <2>3, <2>4, <2>6, <4>1, <4>2, <5>1, <6>4 DEF RequestDeserves
                    <6>5. CASE /\ ~(WrongEnd(u) > RequestEnd(u) + MaxHeaders) /\ ~(WrongEnd(u) < BlankEnd(u))
                               /\ length = "junk"
                        BY <2>1, <2>2, <2>3, <2>4, <2>6, <4>1, <4>2, <5>1, <6>1, <6>2, <6>5 DEF RequestDeserves, length
                    <6>6. CASE /\ ~(WrongEnd(u) > RequestEnd(u) + MaxHeaders) /\ ~(WrongEnd(u) < BlankEnd(u))
                               /\ length # "junk" /\ Lengths[length] > MaxBody
                        BY <2>1, <2>2, <2>3, <2>4, <2>6, <4>1, <4>2, <5>1, <6>1, <6>2, <6>6 DEF RequestDeserves, length
                    <6> QED BY <5>5, <6>3, <6>4, <6>5, <6>6
                <5> QED BY <5>4, <5>5
            <4>4. CASE BlankEnd(u) > Len(u)
                <5>1. BlankEnd(v) > Len(u)
                    BY <4>4, BlankEndGrows
                <5>2. WrongEnd(u) < BlankEnd(u) /\ WrongEnd(v) < BlankEnd(v)
                    BY <1>1, <3>1, <3>3, <4>1, <4>4, <5>1
                <5>3. CASE WrongEnd(u) > RequestEnd(u) + MaxHeaders
                    BY <2>1, <2>2, <2>3, <2>4, <2>6, <4>1, <4>2, <5>3 DEF RequestDeserves
                <5>4. CASE ~(WrongEnd(u) > RequestEnd(u) + MaxHeaders)
                    BY <2>1, <2>2, <2>3, <2>4, <2>6, <4>1, <4>2, <5>2, <5>4 DEF RequestDeserves
                <5> QED BY <5>3, <5>4
            <4> QED BY <1>1, <3>1, <4>3, <4>4
        <3> QED BY <1>1, <3>1, <3>2, <3>3
    <2> QED BY <2>5, <2>6
<1> QED BY <1>4, <1>5

LEMMA LongerIs ==
    ASSUME NEW u, NEW v, Longer(u, v)
    PROVE  v = Append(u, v[Len(v)])
<1>1. u \in Seq(STRING) /\ v \in Seq(STRING) /\ Len(v) = Len(u) + 1 /\ Len(u) \in Nat
    BY DEF Longer
<1>2. \A i \in 1 .. Len(u) : v[i] = u[i]
    BY DEF Longer
<1>3. Append(u, v[Len(v)]) = [i \in 1 .. Len(u) + 1 |-> IF i <= Len(u) THEN u[i] ELSE v[Len(v)]]
    BY <1>1
<1>4. v = [i \in 1 .. Len(u) + 1 |-> v[i]]
    BY <1>1
<1>5. \A i \in 1 .. Len(u) + 1 : v[i] = IF i <= Len(u) THEN u[i] ELSE v[Len(v)]
    BY <1>1, <1>2
<1> QED BY <1>3, <1>4, <1>5

LEMMA EndsLineIs ==
    ASSUME NEW v, v \in Seq(STRING), NEW s, s \in 1 .. Len(v), s = 1 \/ s - 1 \in LineEnds(v)
    PROVE  /\ EndsLine(SubSeq(v, s, Len(v))) <=> Len(v) \in LineEnds(v)
           /\ Len(v) \in LineEnds(v) => /\ s <= Len(v) - 1
                                        /\ LineOf(SubSeq(v, s, Len(v))) = SubSeq(v, s, Len(v) - 2)
<1> DEFINE b == SubSeq(v, s, Len(v))
           n == Len(v)
<1>1. n \in Nat /\ s \in Nat \ {0} /\ s <= n
    OBVIOUS
<1>2. b = [i \in 1 .. n - s + 1 |-> v[s + i - 1]] /\ Len(b) = n - s + 1 /\ b \in Seq(STRING)
    BY <1>1, SubSeqProperties
<1>3. n \in LineEnds(v) => s <= n - 1
    <2>1. s - 1 \in LineEnds(v) => v[s - 1] = "LF" /\ s - 1 >= 2
        BY <1>1 DEF LineEnds
    <2>2. n \in LineEnds(v) => v[n - 1] = "CR" /\ n >= 2
        BY <1>1 DEF LineEnds
    <2>3. CASE s = n /\ n \in LineEnds(v)
        BY <1>1, <2>1, <2>2, <2>3
    <2> QED BY <1>1, <2>3
<1>4. CASE s = n
    BY <1>1, <1>2, <1>3, <1>4 DEF EndsLine
<1>5. CASE s # n
    <2>1. Len(b) >= 2 /\ Len(b) - 1 \in 1 .. Len(b) /\ Len(b) \in Nat
        BY <1>1, <1>2, <1>5
    <2>2. b[Len(b) - 1] = v[n - 1] /\ b[Len(b)] = v[n]
        BY <1>1, <1>2, <2>1
    <2> HIDE DEF b
    <2>3. SubSeq(b, Len(b) - 1, Len(b)) = [i \in 1 .. 2 |-> b[Len(b) - 1 + i - 1]]
        BY <1>2, <2>1
    <2>4. SubSeq(b, Len(b) - 1, Len(b)) = <<"CR", "LF">> <=> b[Len(b) - 1] = "CR" /\ b[Len(b)] = "LF"
        <3> DEFINE c == SubSeq(b, Len(b) - 1, Len(b))
        <3>1. c = [i \in 1 .. 2 |-> b[Len(b) - 1 + i - 1]] /\ Len(b) - 1 + 1 - 1 = Len(b) - 1 /\ Len(b) - 1 + 2 - 1 = Len(b)
            BY <2>1, <2>3
        <3> HIDE DEF c
        <3>2. c = <<b[Len(b) - 1], b[Len(b)]>>
            BY <3>1
        <3>3. c = <<"CR", "LF">> <=> b[Len(b) - 1] = "CR" /\ b[Len(b)] = "LF"
            BY <3>2
        <3> QED BY <3>3 DEF c
    <2>5. n \in LineEnds(v) <=> v[n - 1] = "CR" /\ v[n] = "LF"
        BY <1>1, <1>5 DEF LineEnds
    <2>6. EndsLine(b) <=> n \in LineEnds(v)
        BY <2>1, <2>2, <2>4, <2>5 DEF EndsLine
    <2>7. LineOf(b) = SubSeq(v, s, n - 2)
        <3>1. LineOf(b) = [i \in 1 .. Len(b) - 2 |-> b[i]]
            BY <1>2, <2>1 DEF LineOf
        <3>2. SubSeq(v, s, n - 2) = [i \in 1 .. n - 2 - s + 1 |-> v[s + i - 1]]
            BY <1>1, <1>5
        <3>3. Len(b) - 2 = n - 2 - s + 1 /\ \A i \in 1 .. Len(b) - 2 : b[i] = v[s + i - 1]
            BY <1>1, <1>2, <2>1
        <3> QED BY <3>1, <3>2, <3>3
    <2> QED BY <1>3, <2>6, <2>7 DEF b
<1> QED BY <1>4, <1>5

\* The last byte ends no line.
LEMMA SameLine ==
    ASSUME NEW u, NEW v, Longer(u, v), RequestEnd(u) <= Len(u), Len(v) \notin LineEnds(v),
           BlankEnd(u) = Len(u) + 1, WrongEnd(u) = Len(u) + 1
    PROVE  /\ BlankEnd(v) = Len(v) + 1 /\ WrongEnd(v) = Len(v) + 1
           /\ HeadersOf(v) = HeadersOf(u)
           /\ LineStart(v, Len(v) + 1) = LineStart(u, Len(u) + 1)
<1>1. u \in Seq(STRING) /\ v \in Seq(STRING) /\ Len(v) = Len(u) + 1 /\ Len(u) \in Nat
    BY DEF Longer
<1>2. BlankEnd(v) \in Int /\ BlankEnd(v) > Len(u) /\ BlankEnd(v) <= Len(v) + 1
    BY <1>1, BlankEndGrows, BlankEndIs
<1>3. BlankEnd(v) = Len(v) + 1
    BY <1>1, <1>2, BlankEndIs
<1>4. \A k \in LineEnds(v) : k \in Int /\ k <= Len(u)
    BY <1>1, EndsIn
<1>5. \A k \in DOMAIN HeadersOf(v) : k \in LineEnds(v)
    BY <1>1, HeaderPlaces
<1>6. HeadersOf(v) = HeadersOf(u)
    <2>1. DOMAIN HeadersOf(u) = {i \in DOMAIN HeadersOf(v) : i <= Len(u)}
        BY HeadersGrow
    <2>2. DOMAIN HeadersOf(u) = DOMAIN HeadersOf(v)
        BY <1>4, <1>5, <2>1
    <2>3. \A i \in DOMAIN HeadersOf(u) : HeadersOf(v)[i] = HeadersOf(u)[i]
        BY HeadersGrow
    <2> QED BY <1>1, <2>2, <2>3, HeaderPlaces
<1>7. WrongEnd(v) = Len(v) + 1
    <2>1. WrongEnd(v) \in Int /\ WrongEnd(v) > Len(u) /\ WrongEnd(v) <= BlankEnd(v)
        BY <1>1, <1>2, WrongEndGrows, WrongEndIs
    <2>2. WrongEnd(v) < BlankEnd(v) => WrongEnd(v) \in DOMAIN HeadersOf(v)
        BY <1>1, WrongEndIs
    <2> QED BY <1>1, <1>3, <1>4, <1>5, <2>1, <2>2
<1>8. LineStart(v, Len(v) + 1) = LineStart(u, Len(u) + 1)
    <2>1. {k \in LineEnds(v) : k < Len(v) + 1} = {k \in LineEnds(u) : k < Len(u) + 1}
        BY <1>1, <1>4, EndsGrow
    <2> QED BY <2>1 DEF LineStart
<1> QED BY <1>3, <1>6, <1>7, <1>8

\* The last byte ends the line that starts at s.
LEMMA LineEnded ==
    ASSUME NEW u, NEW v, Longer(u, v), RequestEnd(u) <= Len(u), Len(v) \in LineEnds(v),
           BlankEnd(u) = Len(u) + 1, WrongEnd(u) = Len(u) + 1,
           NEW s, s = LineStart(u, Len(u) + 1)
    PROVE  /\ s = Len(v) - 1 =>
                  /\ BlankEnd(v) = Len(v) /\ WrongEnd(v) = Len(v)
                  /\ HeadersOf(v) = HeadersOf(u)
           /\ s # Len(v) - 1 =>
                  /\ BlankEnd(v) = Len(v) + 1
                  /\ DOMAIN HeadersOf(v) = DOMAIN HeadersOf(u) \union {Len(v)}
                  /\ HeadersOf(v)[Len(v)] = SubSeq(v, s, Len(v) - 2)
                  /\ WrongEnd(v) = IF Has(SubSeq(v, s, Len(v) - 2), HeaderLetters)
                                   THEN Len(v) + 1 ELSE Len(v)
           /\ LineStart(v, Len(v) + 1) = Len(v) + 1
<1>1. u \in Seq(STRING) /\ v \in Seq(STRING) /\ Len(v) = Len(u) + 1 /\ Len(u) \in Nat
    BY DEF Longer
<1>2. /\ BlankEnd(v) \in Int /\ BlankEnd(v) > Len(u) /\ BlankEnd(v) <= Len(v) + 1
      /\ BlankEnd(v) <= Len(v) => BlankEnd(v) - 2 \in LineEnds(v)
      /\ Len(v) - 2 \in LineEnds(v) => BlankEnd(v) <= Len(v)
    BY <1>1, BlankEndGrows, BlankEndIs
<1>3. \A k \in LineEnds(v) : k \in Int /\ k <= Len(v)
    BY <1>1, EndsIn
<1>4. RequestEnd(u) \in LineEnds(u) /\ RequestEnd(v) = RequestEnd(u) /\ RequestEnd(u) \in Int
    BY <1>1, RequestEndIs, RequestEndGrows
<1>5. /\ s = LineStart(v, Len(v)) /\ s \in Int /\ s - 1 \in LineEnds(v) /\ s - 1 < Len(v)
      /\ \A k \in LineEnds(v) : k < Len(v) => k <= s - 1
    <2>1. s = LineStart(v, Len(v))
        BY <1>1, LineStartGrows
    <2>2. RequestEnd(u) \in LineEnds(v) /\ RequestEnd(u) < Len(v)
        BY <1>1, <1>4, EndsGrow
    <2> QED BY <1>1, <2>1, <2>2, LineStartIs
<1>6. /\ DOMAIN HeadersOf(u) = {i \in DOMAIN HeadersOf(v) : i <= Len(u)}
      /\ \A i \in DOMAIN HeadersOf(u) : HeadersOf(v)[i] = HeadersOf(u)[i]
    BY HeadersGrow
<1>7. DOMAIN HeadersOf(v) = {k \in LineEnds(v) : RequestEnd(u) < k /\ k < BlankEnd(v)}
    BY <1>1, <1>4, HeaderPlaces
<1>8. WrongEnd(v) \in Int /\ WrongEnd(v) > Len(u) /\ WrongEnd(v) <= BlankEnd(v)
    BY <1>1, <1>2, WrongEndGrows, WrongEndIs
<1>9. ASSUME s = Len(v) - 1
      PROVE  BlankEnd(v) = Len(v) /\ WrongEnd(v) = Len(v) /\ HeadersOf(v) = HeadersOf(u)
    <2>1. BlankEnd(v) = Len(v)
        <3>1. Len(v) - 2 \in LineEnds(v)
            <4>1. Len(v) - 2 = s - 1
                BY <1>1, <1>9
            <4> QED BY <1>5, <4>1
        <3> QED BY <1>1, <1>2, <3>1
    <2>2. \A k \in DOMAIN HeadersOf(v) : k <= Len(u)
        BY <1>1, <1>3, <1>7, <2>1
    <2>3. DOMAIN HeadersOf(u) = DOMAIN HeadersOf(v)
        BY <1>6, <2>2
    <2>4. HeadersOf(v) = HeadersOf(u)
        BY <1>1, <1>6, <2>3, HeaderPlaces
    <2> QED BY <1>1, <1>8, <2>1, <2>4
<1>10. ASSUME s # Len(v) - 1
       PROVE  /\ BlankEnd(v) = Len(v) + 1
              /\ DOMAIN HeadersOf(v) = DOMAIN HeadersOf(u) \union {Len(v)}
              /\ HeadersOf(v)[Len(v)] = SubSeq(v, s, Len(v) - 2)
              /\ WrongEnd(v) = IF Has(SubSeq(v, s, Len(v) - 2), HeaderLetters)
                               THEN Len(v) + 1 ELSE Len(v)
    <2>1. BlankEnd(v) = Len(v) + 1
        <3>1. CASE BlankEnd(v) = Len(v)
            <4>1. Len(v) - 2 \in LineEnds(v)
                BY <1>2, <3>1
            <4>2. Len(v) - 2 <= s - 1
                BY <1>1, <1>5, <4>1
            <4>3. s <= Len(v) - 1
                <5>1. Len(v) - 1 \notin LineEnds(v)
                    <6>1. \A k \in LineEnds(v) : k + 1 \notin LineEnds(v)
                        BY <1>1, EndsIn
                    <6>2. (Len(v) - 1) + 1 = Len(v)
                        BY <1>1
                    <6> QED BY <6>1, <6>2
                <5>2. s - 1 # Len(v) - 1
                    BY <1>5, <5>1
                <5> QED BY <1>1, <1>5, <5>2
            <4> QED BY <1>1, <1>5, <1>10, <4>2, <4>3
        <3> QED BY <1>1, <1>2, <3>1
    <2>2. DOMAIN HeadersOf(v) = DOMAIN HeadersOf(u) \union {Len(v)}
        <3>1. Len(v) \in DOMAIN HeadersOf(v)
            BY <1>1, <1>4, <1>7, <2>1
        <3>2. \A k \in DOMAIN HeadersOf(v) : k <= Len(u) \/ k = Len(v)
            BY <1>1, <1>3, <1>7
        <3> QED BY <1>6, <3>1, <3>2
    <2>3. HeadersOf(v)[Len(v)] = SubSeq(v, s, Len(v) - 2)
        BY <1>1, <1>5, <2>2, HeaderPlaces
    <2>4. CASE Has(SubSeq(v, s, Len(v) - 2), HeaderLetters)
        <3>1. WrongEnd(v) # Len(v)
            <4>1. WrongEnd(v) < BlankEnd(v) => ~Has(HeadersOf(v)[WrongEnd(v)], HeaderLetters)
                BY <1>1, WrongEndIs
            <4>2. WrongEnd(v) = Len(v) => ~Has(HeadersOf(v)[Len(v)], HeaderLetters)
                BY <1>1, <2>1, <4>1
            <4> QED BY <2>3, <2>4, <4>2
        <3> QED BY <1>1, <1>8, <2>1, <2>2, <2>3, <2>4, <3>1
    <2>5. CASE ~Has(SubSeq(v, s, Len(v) - 2), HeaderLetters)
        <3>1. WrongEnd(v) <= Len(v)
            BY <1>1, <2>2, <2>3, <2>5, WrongEndIs
        <3> QED BY <1>1, <1>8, <2>1, <2>2, <2>3, <2>5, <3>1
    <2> QED BY <2>4, <2>5
<1>11. LineStart(v, Len(v) + 1) = Len(v) + 1
    <2>1. /\ LineStart(v, Len(v) + 1) \in Int
          /\ LineStart(v, Len(v) + 1) - 1 \in LineEnds(v)
          /\ \A k \in LineEnds(v) : k < Len(v) + 1 => k <= LineStart(v, Len(v) + 1) - 1
        BY <1>1, LineStartIs
    <2> QED BY <1>1, <1>3, <2>1
<1> QED BY <1>9, <1>10, <1>11

\* One more header, which ends at n.
OneMore(g, h, n) ==
    /\ n \in Nat /\ DOMAIN g \subseteq 0 .. n - 1
    /\ DOMAIN h = DOMAIN g \union {n}
    /\ \A i \in DOMAIN g : h[i] = g[i]

LEMMA AnnouncedGrows ==
    ASSUME NEW n, NEW g, NEW h, OneMore(g, h, n)
    PROVE  Announced(h) = HeaderLine(h[n], Announced(g))
<1> USE DEF OneMore
<1> DEFINE Named(f) == {i \in DOMAIN f : Stripped(f[i])[1] \in DOMAIN Lengths}
<1>1. Announced(g) = IF Named(g) = {} THEN "length0" ELSE HeaderLine(g[Max(Named(g))], "length0")
    BY DEF Announced
<1>2. Announced(h) = IF Named(h) = {} THEN "length0" ELSE HeaderLine(h[Max(Named(h))], "length0")
    BY DEF Announced
<1>3. Named(g) \subseteq 0 .. n /\ Named(h) \subseteq 0 .. n /\ Named(g) \subseteq DOMAIN g
    OBVIOUS
<1>4. CASE Stripped(h[n])[1] \in DOMAIN Lengths
    <2>1. n \in Named(h)
        BY <1>4
    <2>2. Max(Named(h)) = n
        <3>1. Max(Named(h)) \in Named(h) /\ n <= Max(Named(h))
            BY <1>3, <2>1, MaxIs
        <3> QED BY <1>3, <3>1
    <2>3. Announced(h) = HeaderLine(h[n], "length0")
        BY <1>2, <2>1, <2>2
    <2> QED BY <1>4, <2>3 DEF HeaderLine
<1>5. CASE Stripped(h[n])[1] \notin DOMAIN Lengths
    <2>1. Named(h) = Named(g)
        <3>1. n \notin DOMAIN g
            OBVIOUS
        <3> QED BY <1>5, <3>1
    <2>2. Announced(h) = Announced(g)
        <3>1. CASE Named(g) = {}
            BY <1>1, <1>2, <2>1, <3>1
        <3>2. CASE Named(g) # {}
            <4>1. Max(Named(g)) \in DOMAIN g
                BY <1>3, <3>2, MaxIs
            <4> HIDE DEF Named
            <4>2. h[Max(Named(g))] = g[Max(Named(g))]
                BY <4>1
            <4> QED BY <1>1, <1>2, <2>1, <3>2, <4>2
        <3> QED BY <3>1, <3>2
    <2> QED BY <1>5, <2>2 DEF HeaderLine
<1> QED BY <1>4, <1>5

-----------------------------------------------------------------------------
Parsers ==
    [state : {"line", "headers", "body", "done", "error"},
     error : {"none", "malformed", "too_large", "unsupported"},
     buf : Seq(STRING), headersBytes : Nat, length : DOMAIN Lengths \union {"junk"},
     need : Nat, body : Seq(STRING)]

\* A request line that is right.
RequestFine(u) ==
    /\ RequestEnd(u) <= Len(u) /\ RequestEnd(u) <= MaxLine
    /\ RequestLine(SubSeq(u, 1, RequestEnd(u) - 2)) = "ok"

InLine(p, u) ==
    /\ RequestEnd(u) = Len(u) + 1 /\ Len(u) <= MaxLine
    /\ p.buf = u /\ p.headersBytes = 0 /\ p.length = "length0" /\ p.body = <<>>

InHeaders(p, u) ==
    /\ RequestFine(u)
    /\ BlankEnd(u) = Len(u) + 1 /\ WrongEnd(u) = Len(u) + 1
    /\ p.headersBytes = Len(u) - RequestEnd(u) /\ p.headersBytes <= MaxHeaders
    /\ p.buf = SubSeq(u, LineStart(u, Len(u) + 1), Len(u))
    /\ p.length = Announced(HeadersOf(u)) /\ p.body = <<>>

InBody(p, u) ==
    /\ RequestFine(u)
    /\ BlankEnd(u) <= Len(u) /\ WrongEnd(u) = BlankEnd(u)
    /\ BlankEnd(u) <= RequestEnd(u) + MaxHeaders
    /\ Announced(HeadersOf(u)) \in DOMAIN Lengths
    /\ p.need = Lengths[Announced(HeadersOf(u))] /\ p.need <= MaxBody
    /\ Len(u) < BlankEnd(u) + p.need
    /\ p.buf = SubSeq(u, BlankEnd(u) + 1, Len(u))

\* What the parser remembers of the text it was fed.
InPlace(p, u) ==
    /\ p \in Parsers
    /\ p.state = "line" => InLine(p, u)
    /\ p.state = "headers" => InHeaders(p, u)
    /\ p.state = "body" => InBody(p, u)
    /\ p.state = "done" => Deserved(u) = [kind |-> "page", body |-> p.body]
    /\ p.state = "error" => Deserved(u) = [kind |-> p.error, body |-> <<>>]

LEMMA WaitsInPlace ==
    ASSUME NEW u, u \in Seq(STRING), NEW p, InPlace(p, u), p.state \notin {"done", "error"}
    PROVE  Deserved(u).kind = "wait"
<1>1. MaxLine \in Nat /\ MaxHeaders \in Nat /\ MaxBody \in Nat /\ Len(u) \in Nat
    BY ExchangeAssumption
<1>2. RequestEnd(u) \in Int /\ BlankEnd(u) \in Int /\ WrongEnd(u) \in Int
    BY RequestEndIs, BlankEndIs, WrongEndIs
<1>3. CASE InLine(p, u)
    BY <1>1, <1>2, <1>3 DEF InLine, Deserved, Least
<1>4. CASE RequestFine(u) /\ (InHeaders(p, u) \/ InBody(p, u))
    <2>1. Deserved(u) = RequestDeserves(u)
        BY <1>1, <1>2, <1>4 DEF RequestFine, Deserved, Least
    <2>2. CASE InHeaders(p, u)
        <3>1. ~(Least(Len(u), WrongEnd(u)) > RequestEnd(u) + MaxHeaders)
            BY <1>1, <1>2, <2>2 DEF InHeaders, Least
        <3>2. ~(WrongEnd(u) < BlankEnd(u)) /\ BlankEnd(u) > Len(u)
            BY <1>1, <1>2, <2>2 DEF InHeaders
        <3> QED BY <1>4, <2>1, <3>1, <3>2 DEF RequestDeserves, RequestFine
    <2>3. CASE InBody(p, u)
        <3>1. ~(Least(Len(u), WrongEnd(u)) > RequestEnd(u) + MaxHeaders)
            BY <1>1, <1>2, <2>3 DEF InBody, Least
        <3> DEFINE length == Announced(HeadersOf(u))
        <3>2. /\ length # "junk" /\ Lengths[length] \in Nat
              /\ Lengths[length] <= MaxBody /\ Len(u) < BlankEnd(u) + Lengths[length]
            BY <2>3, LengthsAre DEF InBody
        <3> HIDE DEF length
        <3>3. ~(WrongEnd(u) < BlankEnd(u)) /\ ~(BlankEnd(u) > Len(u)) /\ ~(Lengths[length] > MaxBody)
            BY <1>1, <1>2, <2>3, <3>2 DEF InBody
        <3> QED BY <1>4, <2>1, <3>1, <3>2, <3>3 DEF RequestDeserves, RequestFine, length
    <2> QED BY <1>4, <2>2, <2>3
<1> QED BY <1>3, <1>4 DEF InPlace, InHeaders, InBody, Parsers

LEMMA LineFed ==
    ASSUME NEW u, NEW v, Longer(u, v), NEW p, InPlace(p, u), p.state = "line"
    PROVE  InPlace(FeedLine(p, v), v)
<1>1. u \in Seq(STRING) /\ v \in Seq(STRING) /\ Len(v) = Len(u) + 1 /\ Len(u) \in Nat
    BY DEF Longer
<1>2. MaxLine \in Nat /\ MaxHeaders \in Nat /\ MaxBody \in Nat
    BY ExchangeAssumption
<1>3. /\ p \in Parsers /\ RequestEnd(u) = Len(u) + 1 /\ Len(u) <= MaxLine
      /\ p.headersBytes = 0 /\ p.length = "length0" /\ p.body = <<>>
    BY DEF InPlace, InLine
<1>4. RequestEnd(v) \in Int /\ RequestEnd(v) > Len(u) /\ RequestEnd(v) <= Len(v) + 1
    BY <1>1, <1>3, RequestEndGrows, RequestEndIs
<1>5. EndsLine(v) <=> Len(v) \in LineEnds(v)
    <2>1. SubSeq(v, 1, Len(v)) = v /\ 1 \in 1 .. Len(v)
        BY <1>1
    <2> QED BY <1>1, <2>1, EndsLineIs
<1>6. RequestEnd(v) = IF EndsLine(v) THEN Len(v) ELSE Len(v) + 1
    BY <1>1, <1>4, <1>5, RequestEndIs
<1>7. CASE Len(v) > MaxLine
    <2>1. FeedLine(p, v) = Fails(p, "too_large")
        BY <1>7 DEF FeedLine
    <2>2. Deserved(v) = [kind |-> "too_large", body |-> <<>>]
        BY <1>1, <1>2, <1>4, <1>7 DEF Deserved, Least
    <2> QED BY <1>3, <2>1, <2>2 DEF InPlace, Fails, Parsers
<1>8. CASE ~(Len(v) > MaxLine) /\ ~EndsLine(v)
    <2>1. FeedLine(p, v) = [p EXCEPT !.buf = v]
        BY <1>8 DEF FeedLine
    <2>2. Len(v) <= MaxLine
        BY <1>1, <1>2, <1>8
    <2> QED BY <1>1, <1>3, <1>6, <1>8, <2>1, <2>2 DEF InPlace, InLine, Parsers
<1>9. CASE ~(Len(v) > MaxLine) /\ EndsLine(v)
    <2> DEFINE outcome == RequestLine(LineOf(v))
    <2>1. outcome = RequestLine(SubSeq(v, 1, RequestEnd(v) - 2))
        BY <1>6, <1>9 DEF LineOf
    <2>2. outcome \in {"ok", "malformed", "unsupported"}
        BY DEF RequestLine
    <2>3. CASE outcome = "ok"
        <3>1. FeedLine(p, v) = [p EXCEPT !.state = "headers", !.buf = <<>>]
            BY <1>9, <2>3 DEF FeedLine
        <3>2. BlankEnd(v) = Len(v) + 1
            BY <1>1, <1>6, <1>9, BlankEndIs
        <3>3. DOMAIN HeadersOf(v) = {}
            <4>1. \A k \in LineEnds(v) : k \in Int /\ k <= Len(v)
                BY <1>1, EndsIn
            <4>2. DOMAIN HeadersOf(v) = {k \in LineEnds(v) : RequestEnd(v) < k /\ k < BlankEnd(v)}
                BY <1>1, HeaderPlaces
            <4>3. \A k \in LineEnds(v) : ~(RequestEnd(v) < k)
                BY <1>1, <1>6, <1>9, <4>1
            <4> QED BY <4>2, <4>3
        <3>4. WrongEnd(v) = Len(v) + 1
            <4>1. WrongEnd(v) \in Int /\ WrongEnd(v) <= BlankEnd(v) /\ ~(WrongEnd(v) < BlankEnd(v))
                BY <1>1, <3>2, <3>3, WrongEndIs
            <4> QED BY <1>1, <3>2, <4>1
        <3>5. SubSeq(v, LineStart(v, Len(v) + 1), Len(v)) = <<>>
            <4>1. /\ LineStart(v, Len(v) + 1) \in Int /\ LineStart(v, Len(v) + 1) - 1 < Len(v) + 1
                  /\ \A k \in LineEnds(v) : k < Len(v) + 1 => k <= LineStart(v, Len(v) + 1) - 1
                BY <1>1, <1>5, <1>9, LineStartIs
            <4>2. LineStart(v, Len(v) + 1) > Len(v)
                BY <1>1, <1>5, <1>9, <4>1
            <4> QED BY <1>1, <4>1, <4>2
        <3>6. Announced(HeadersOf(v)) = "length0"
            BY <3>3 DEF Announced
        <3>7. RequestFine(v)
            BY <1>1, <1>2, <1>6, <1>9, <2>1, <2>3 DEF RequestFine
        <3>8. Len(v) - RequestEnd(v) = 0 /\ 0 <= MaxHeaders
            BY <1>1, <1>2, <1>6, <1>9
        <3> DEFINE q == FeedLine(p, v)
        <3>9. /\ q \in Parsers /\ q.state = "headers" /\ q.headersBytes = 0 /\ q.buf = <<>>
              /\ q.length = "length0" /\ q.body = <<>>
            BY <1>3, <3>1 DEF Parsers
        <3> HIDE DEF q
        <3>10. InHeaders(q, v)
            BY <3>2, <3>4, <3>5, <3>6, <3>7, <3>8, <3>9 DEF InHeaders
        <3> QED BY <3>9, <3>10 DEF InPlace, q
    <2>4. CASE outcome # "ok"
        <3>1. FeedLine(p, v) = Fails(p, outcome)
            BY <1>9, <2>4 DEF FeedLine
        <3>2. ~(Least(Len(v), RequestEnd(v)) > MaxLine) /\ ~(RequestEnd(v) > Len(v))
            BY <1>1, <1>2, <1>6, <1>9 DEF Least
        <3>3. Deserved(v) = [kind |-> outcome, body |-> <<>>]
            BY <2>1, <2>4, <3>2 DEF Deserved, RequestDeserves
        <3> HIDE DEF outcome
        <3> QED BY <1>3, <2>2, <2>4, <3>1, <3>3 DEF InPlace, Fails, Parsers
    <2> QED BY <2>3, <2>4
<1> QED BY <1>7, <1>8, <1>9

\* The answer of a text after its blank line.
LEMMA BlankDeserves ==
    ASSUME NEW v, v \in Seq(STRING), RequestFine(v), BlankEnd(v) <= Len(v),
           WrongEnd(v) = BlankEnd(v), BlankEnd(v) <= RequestEnd(v) + MaxHeaders,
           NEW length, length = Announced(HeadersOf(v))
    PROVE  Deserved(v) =
               IF length = "junk" THEN [kind |-> "malformed", body |-> <<>>]
               ELSE IF Lengths[length] > MaxBody THEN [kind |-> "too_large", body |-> <<>>]
               ELSE IF Len(v) < BlankEnd(v) + Lengths[length] THEN [kind |-> "wait", body |-> <<>>]
               ELSE [kind |-> "page", body |-> SubSeq(v, BlankEnd(v) + 1, BlankEnd(v) + Lengths[length])]
<1>1. MaxLine \in Nat /\ MaxHeaders \in Nat /\ Len(v) \in Nat
    BY ExchangeAssumption
<1>2. RequestEnd(v) \in Int /\ BlankEnd(v) \in Int /\ WrongEnd(v) \in Int
    BY RequestEndIs, BlankEndIs, WrongEndIs
<1>3. Deserved(v) = RequestDeserves(v)
    BY <1>1, <1>2 DEF RequestFine, Deserved, Least
<1>4. ~(Least(Len(v), WrongEnd(v)) > RequestEnd(v) + MaxHeaders)
    BY <1>1, <1>2 DEF Least
<1>5. ~(WrongEnd(v) < BlankEnd(v)) /\ ~(BlankEnd(v) > Len(v))
    BY <1>1, <1>2
<1> QED BY <1>3, <1>4, <1>5 DEF RequestDeserves, RequestFine

LEMMA HeadersFed ==
    ASSUME NEW u, NEW v, Longer(u, v), NEW p, InPlace(p, u), p.state = "headers"
    PROVE  InPlace(FeedHeaders(p, Append(p.buf, v[Len(v)])), v)
<1> DEFINE b == Append(p.buf, v[Len(v)])
           s == LineStart(u, Len(u) + 1)
           q == [p EXCEPT !.headersBytes = @ + 1, !.buf = b]
<1>1. u \in Seq(STRING) /\ v \in Seq(STRING) /\ Len(v) = Len(u) + 1 /\ Len(u) \in Nat
    BY DEF Longer
<1>2. MaxLine \in Nat /\ MaxHeaders \in Nat /\ MaxBody \in Nat
    BY ExchangeAssumption
<1>3. p \in Parsers /\ InHeaders(p, u)
    BY DEF InPlace
<1>4. /\ RequestEnd(u) <= Len(u) /\ RequestEnd(u) <= MaxLine
      /\ BlankEnd(u) = Len(u) + 1 /\ WrongEnd(u) = Len(u) + 1
      /\ p.headersBytes = Len(u) - RequestEnd(u) /\ p.buf = SubSeq(u, s, Len(u))
      /\ p.length = Announced(HeadersOf(u)) /\ p.body = <<>>
    BY <1>3 DEF InHeaders, RequestFine
<1>5. RequestEnd(v) = RequestEnd(u) /\ RequestEnd(u) \in LineEnds(u) /\ RequestEnd(u) \in 2 .. Len(u)
    BY <1>1, <1>4, RequestEndGrows, RequestEndIs, EndsIn
<1>6. RequestFine(v)
    <2>1. RequestEnd(u) - 2 \in 0 .. Len(u)
        BY <1>1, <1>5
    <2>2. SubSeq(v, 1, RequestEnd(u) - 2) = SubSeq(u, 1, RequestEnd(u) - 2)
        BY <2>1, BeginningSame
    <2>3. RequestLine(SubSeq(u, 1, RequestEnd(u) - 2)) = "ok"
        BY <1>3 DEF InHeaders, RequestFine
    <2>4. RequestEnd(v) <= Len(v)
        BY <1>1, <1>4, <1>5
    <2> QED BY <1>4, <1>5, <2>2, <2>3, <2>4 DEF RequestFine
<1>7. /\ s \in Int /\ s - 1 \in LineEnds(u) /\ s - 1 < Len(u) + 1
    BY <1>1, <1>5, LineStartIs
<1>8. s \in 1 .. Len(u) + 1 /\ s \in 1 .. Len(v) /\ s - 1 \in LineEnds(v)
    BY <1>1, <1>7, EndsIn, EndsGrow
<1>9. b = SubSeq(v, s, Len(v)) /\ b \in Seq(STRING)
    <2>1. SubSeq(v, s, Len(v)) = Append(SubSeq(u, s, Len(u)), v[Len(v)])
        BY <1>8, PartGrows
    <2>2. SubSeq(v, s, Len(v)) \in Seq(STRING)
        BY <1>1, <1>8, SubSeqProperties
    <2> QED BY <1>4, <2>1, <2>2
<1>10. EndsLine(b) <=> Len(v) \in LineEnds(v)
    BY <1>1, <1>8, <1>9, EndsLineIs
<1>11. Len(v) \in LineEnds(v) => s <= Len(v) - 1 /\ LineOf(b) = SubSeq(v, s, Len(v) - 2)
    BY <1>1, <1>8, <1>9, EndsLineIs
<1> HIDE DEF b, s
<1>12. /\ q \in Parsers /\ q.state = "headers" /\ q.headersBytes = Len(v) - RequestEnd(v)
       /\ q.buf = b /\ q.length = p.length /\ q.body = <<>>
    <2>1. p.headersBytes + 1 = Len(v) - RequestEnd(v) /\ p.headersBytes + 1 \in Nat
        BY <1>1, <1>4, <1>5
    <2>2. q.headersBytes = p.headersBytes + 1 /\ q.state = p.state /\ q.buf = b /\ q.length = p.length /\ q.body = p.body
        BY <1>3 DEF Parsers
    <2>3. q \in Parsers
        BY <1>3, <1>9, <2>1 DEF Parsers
    <2> QED BY <1>4, <2>1, <2>2, <2>3
<1>13. WrongEnd(v) \in Int /\ WrongEnd(v) > Len(u) /\ BlankEnd(v) \in Int /\ WrongEnd(v) <= BlankEnd(v)
       /\ BlankEnd(v) <= Len(v) + 1
    BY <1>1, <1>4, WrongEndGrows, WrongEndIs, BlankEndIs
<1>14. FeedHeaders(p, b) =
           IF q.headersBytes > MaxHeaders THEN Fails(q, "too_large")
           ELSE IF ~EndsLine(b) THEN q
           ELSE IF LineOf(b) = <<>> THEN HeadersDone([q EXCEPT !.buf = <<>>])
           ELSE IF ~Has(b, HeaderLetters) THEN Fails(q, "malformed")
           ELSE [q EXCEPT !.buf = <<>>, !.length = HeaderLine(LineOf(b), @)]
    BY DEF FeedHeaders
<1> HIDE DEF q
<1> DEFINE result == FeedHeaders(p, b)
<1> SUFFICES InPlace(result, v)
    BY DEF b
<1>15. CASE q.headersBytes > MaxHeaders
    <2>1. result = Fails(q, "too_large")
        BY <1>14, <1>15
    <2>2. Least(Len(v), WrongEnd(v)) > RequestEnd(v) + MaxHeaders
        BY <1>1, <1>2, <1>5, <1>12, <1>13, <1>15 DEF Least
    <2>3. ~(Least(Len(v), RequestEnd(v)) > MaxLine) /\ ~(RequestEnd(v) > Len(v))
        BY <1>1, <1>2, <1>4, <1>5 DEF Least
    <2>4. Deserved(v) = [kind |-> "too_large", body |-> <<>>]
        BY <1>6, <2>2, <2>3 DEF Deserved, RequestDeserves, RequestFine
    <2>5. result \in Parsers /\ result.state = "error" /\ result.error = "too_large"
        BY <1>12, <2>1 DEF Fails, Parsers
    <2> HIDE DEF result
    <2> QED BY <2>4, <2>5 DEF InPlace
<1>16. CASE ~(q.headersBytes > MaxHeaders) /\ ~EndsLine(b)
    <2>1. result = q
        BY <1>14, <1>16
    <2>2. /\ BlankEnd(v) = Len(v) + 1 /\ WrongEnd(v) = Len(v) + 1
          /\ HeadersOf(v) = HeadersOf(u) /\ LineStart(v, Len(v) + 1) = s
        BY <1>4, <1>10, <1>16, SameLine DEF s
    <2>3. q.headersBytes <= MaxHeaders
        BY <1>1, <1>2, <1>5, <1>12, <1>16
    <2>4. InHeaders(q, v)
        BY <1>4, <1>6, <1>9, <1>12, <2>2, <2>3 DEF InHeaders
    <2> QED BY <1>12, <2>1, <2>4 DEF InPlace
<1>17. CASE ~(q.headersBytes > MaxHeaders) /\ EndsLine(b) /\ LineOf(b) = <<>>
    <2>1. s = Len(v) - 1
        <3>1. SubSeq(v, s, Len(v) - 2) = <<>>
            BY <1>10, <1>11, <1>17
        <3>2. CASE s <= Len(v) - 2
            <4>1. Len(SubSeq(v, s, Len(v) - 2)) = Len(v) - 2 - s + 1
                BY <1>1, <1>8, <3>2, SubSeqProperties
            <4>2. Len(SubSeq(v, s, Len(v) - 2)) > 0
                BY <1>1, <1>8, <3>2, <4>1
            <4>3. Len(<<>>) = 0
                OBVIOUS
            <4>4. ~(Len(<<>>) > 0)
                BY <4>3
            <4> QED BY <3>1, <4>2, <4>4, Zenon
        <3>3. s <= Len(v) - 1
            BY <1>10, <1>11, <1>17
        <3>4. s \in Int
            BY <1>8
        <3> QED BY <1>1, <3>2, <3>3, <3>4
    <2>2. BlankEnd(v) = Len(v) /\ WrongEnd(v) = Len(v) /\ HeadersOf(v) = HeadersOf(u)
        BY <1>4, <1>10, <1>17, <2>1, LineEnded DEF s
    <2> DEFINE length == Announced(HeadersOf(v))
               r == [q EXCEPT !.buf = <<>>]
    <2>3. /\ r \in Parsers /\ r.state = "headers" /\ r.buf = <<>> /\ r.length = length /\ r.body = <<>>
        BY <1>4, <1>12, <2>2 DEF Parsers
    <2>4. result = HeadersDone(r)
        BY <1>14, <1>17
    <2>5. length \in DOMAIN Lengths \union {"junk"}
        BY <1>1, AnnouncedIs
    <2>6. BlankEnd(v) <= Len(v) /\ WrongEnd(v) = BlankEnd(v) /\ BlankEnd(v) <= RequestEnd(v) + MaxHeaders
        BY <1>1, <1>2, <1>5, <1>12, <1>17, <2>2
    <2> HIDE DEF r, result
    <2>7. Deserved(v) =
               IF length = "junk" THEN [kind |-> "malformed", body |-> <<>>]
               ELSE IF Lengths[length] > MaxBody THEN [kind |-> "too_large", body |-> <<>>]
               ELSE IF Len(v) < BlankEnd(v) + Lengths[length] THEN [kind |-> "wait", body |-> <<>>]
               ELSE [kind |-> "page", body |-> SubSeq(v, BlankEnd(v) + 1, BlankEnd(v) + Lengths[length])]
        BY <1>1, <1>6, <2>6, BlankDeserves
    <2>8. CASE length = "junk"
        <3>1. result = Fails(r, "malformed")
            BY <2>3, <2>4, <2>8 DEF HeadersDone
        <3>2. result \in Parsers /\ result.state = "error" /\ result.error = "malformed"
            BY <2>3, <3>1 DEF Fails, Parsers
        <3> QED BY <2>7, <2>8, <3>2 DEF InPlace
    <2>9. CASE length # "junk" /\ Lengths[length] > MaxBody
        <3>1. result = Fails(r, "too_large")
            BY <2>3, <2>4, <2>9 DEF HeadersDone
        <3>2. result \in Parsers /\ result.state = "error" /\ result.error = "too_large"
            BY <2>3, <3>1 DEF Fails, Parsers
        <3> QED BY <2>7, <2>9, <3>2 DEF InPlace
    <2>10. CASE length # "junk" /\ ~(Lengths[length] > MaxBody)
        <3> DEFINE k == Lengths[length]
        <3>1. length \in DOMAIN Lengths /\ k \in Nat
            BY <2>5, <2>10, LengthsAre
        <3>2. result = [r EXCEPT !.need = k, !.state = IF k = 0 THEN "done" ELSE "body"]
            BY <2>3, <2>4, <2>10 DEF HeadersDone
        <3> HIDE DEF k
        <3>3. /\ result \in Parsers /\ result.state = (IF k = 0 THEN "done" ELSE "body")
              /\ result.need = k /\ result.buf = <<>> /\ result.body = <<>>
            BY <2>3, <3>1, <3>2 DEF Parsers
        <3>4. CASE k = 0
            <4>1. BlankEnd(v) + k = Len(v) /\ SubSeq(v, BlankEnd(v) + 1, BlankEnd(v) + k) = <<>>
                BY <1>1, <2>2, <3>4
            <4>2. Deserved(v) = [kind |-> "page", body |-> <<>>]
                BY <1>1, <2>2, <2>7, <2>10, <4>1 DEF k
            <4> QED BY <3>3, <3>4, <4>2 DEF InPlace
        <3>5. CASE k # 0
            <4>1. k <= MaxBody /\ Len(v) < BlankEnd(v) + k
                BY <1>1, <1>2, <2>2, <2>10, <3>1, <3>5 DEF k
            <4>2. SubSeq(v, BlankEnd(v) + 1, Len(v)) = <<>>
                BY <1>1, <2>2
            <4>3. InBody(result, v)
                BY <1>6, <2>6, <3>1, <3>3, <4>1, <4>2 DEF InBody, k
            <4> QED BY <3>3, <3>5, <4>3 DEF InPlace
        <3> QED BY <3>4, <3>5
    <2> QED BY <2>8, <2>9, <2>10 DEF result
<1>18. CASE ~(q.headersBytes > MaxHeaders) /\ EndsLine(b) /\ LineOf(b) # <<>>
    <2> DEFINE line == SubSeq(v, s, Len(v) - 2)
    <2>1. line = LineOf(b) /\ s <= Len(v) - 1
        BY <1>10, <1>11, <1>18
    <2>2. s # Len(v) - 1
        <3>1. s = Len(v) - 1 => line = <<>>
            BY <1>1, <1>8
        <3> QED BY <1>18, <2>1, <3>1
    <2>3. /\ BlankEnd(v) = Len(v) + 1
          /\ DOMAIN HeadersOf(v) = DOMAIN HeadersOf(u) \union {Len(v)}
          /\ HeadersOf(v)[Len(v)] = line
          /\ WrongEnd(v) = IF Has(line, HeaderLetters) THEN Len(v) + 1 ELSE Len(v)
          /\ LineStart(v, Len(v) + 1) = Len(v) + 1
        BY <1>4, <1>10, <1>18, <2>2, LineEnded DEF s
    <2>4. Has(b, HeaderLetters) <=> Has(line, HeaderLetters)
        <3>1. b = [i \in 1 .. Len(v) - s + 1 |-> v[s + i - 1]]
            BY <1>1, <1>8, <1>9
        <3>2. line = [i \in 1 .. Len(v) - 2 - s + 1 |-> v[s + i - 1]]
            BY <1>1, <1>8
        <3>3. v[Len(v) - 1] = "CR" /\ v[Len(v)] = "LF"
            BY <1>10, <1>18 DEF LineEnds
        <3>4. "CR" \notin HeaderLetters /\ "LF" \notin HeaderLetters
            BY DEF HeaderLetters, Lengths
        <3> HIDE DEF line
        <3>5. ASSUME Has(line, HeaderLetters) PROVE Has(b, HeaderLetters)
            <4>1. PICK i \in DOMAIN line : line[i] \in HeaderLetters
                BY <3>5 DEF Has
            <4>2. i \in DOMAIN b /\ b[i] = line[i]
                BY <1>1, <1>8, <3>1, <3>2
            <4> QED BY <4>1, <4>2 DEF Has
        <3>6. ASSUME Has(b, HeaderLetters) PROVE Has(line, HeaderLetters)
            <4>1. PICK i \in DOMAIN b : b[i] \in HeaderLetters
                BY <3>6 DEF Has
            <4>2. i \in 1 .. Len(v) - s + 1 /\ b[i] = v[s + i - 1]
                BY <3>1
            <4>3. s + i - 1 # Len(v) - 1 /\ s + i - 1 # Len(v)
                BY <3>3, <3>4, <4>1, <4>2
            <4>4. i \in DOMAIN line /\ b[i] = line[i]
                BY <1>1, <1>8, <3>2, <4>2, <4>3
            <4> QED BY <4>1, <4>4 DEF Has
        <3> QED BY <3>5, <3>6
    <2>5. Announced(HeadersOf(v)) = HeaderLine(line, p.length)
        <3>1. DOMAIN HeadersOf(u) \subseteq 0 .. Len(v) - 1
            <4>1. \A k \in LineEnds(u) : k \in 0 .. Len(v) - 1
                BY <1>1, EndsIn
            <4>2. \A k \in DOMAIN HeadersOf(u) : k \in LineEnds(u)
                BY <1>1, HeaderPlaces
            <4> QED BY <4>1, <4>2
        <3>2. \A i \in DOMAIN HeadersOf(u) : HeadersOf(v)[i] = HeadersOf(u)[i]
            BY <1>4, HeadersGrow
        <3>3. Announced(HeadersOf(v)) = HeaderLine(HeadersOf(v)[Len(v)], Announced(HeadersOf(u)))
            <4>1. OneMore(HeadersOf(u), HeadersOf(v), Len(v))
                BY <1>1, <2>3, <3>1, <3>2 DEF OneMore
            <4> QED BY <4>1, AnnouncedGrows
        <3> QED BY <1>4, <2>3, <3>3
    <2> HIDE DEF line
    <2>6. CASE ~Has(b, HeaderLetters)
        <3>1. result = Fails(q, "malformed")
            BY <1>14, <1>18, <2>6
        <3>2. result \in Parsers /\ result.state = "error" /\ result.error = "malformed"
            BY <1>12, <3>1 DEF Fails, Parsers
        <3>3. ~(Least(Len(v), RequestEnd(v)) > MaxLine) /\ ~(RequestEnd(v) > Len(v))
            BY <1>1, <1>2, <1>4, <1>5 DEF Least
        <3>4. ~(Least(Len(v), WrongEnd(v)) > RequestEnd(v) + MaxHeaders) /\ WrongEnd(v) < BlankEnd(v)
            BY <1>1, <1>2, <1>5, <1>12, <1>18, <2>3, <2>4, <2>6 DEF Least
        <3>5. Deserved(v) = [kind |-> "malformed", body |-> <<>>]
            BY <1>6, <3>3, <3>4 DEF Deserved, RequestDeserves, RequestFine
        <3> HIDE DEF result
        <3> QED BY <3>2, <3>5 DEF InPlace
    <2>7. CASE Has(b, HeaderLetters)
        <3>1. result = [q EXCEPT !.buf = <<>>, !.length = HeaderLine(line, q.length)]
            BY <1>14, <1>18, <2>1, <2>7
        <3>2. HeaderLine(line, q.length) \in DOMAIN Lengths \union {"junk"}
            BY <1>12, <1>3 DEF HeaderLine, Parsers
        <3>3. /\ result \in Parsers /\ result.state = "headers" /\ result.buf = <<>>
              /\ result.headersBytes = Len(v) - RequestEnd(v) /\ result.body = <<>>
              /\ result.length = Announced(HeadersOf(v))
            BY <1>12, <2>5, <3>1, <3>2 DEF Parsers
        <3>4. SubSeq(v, LineStart(v, Len(v) + 1), Len(v)) = <<>>
            BY <1>1, <2>3
        <3>5. Len(v) - RequestEnd(v) <= MaxHeaders
            BY <1>1, <1>2, <1>5, <1>12, <1>18
        <3> HIDE DEF result
        <3>6. InHeaders(result, v)
            BY <1>6, <2>3, <2>4, <2>7, <3>3, <3>4, <3>5 DEF InHeaders
        <3> QED BY <3>3, <3>6 DEF InPlace, result
    <2> QED BY <2>6, <2>7
<1> QED BY <1>15, <1>16, <1>17, <1>18 DEF b

LEMMA BodyFed ==
    ASSUME NEW u, NEW v, Longer(u, v), NEW p, InPlace(p, u), p.state = "body"
    PROVE  InPlace(FeedBody(p, Append(p.buf, v[Len(v)])), v)
<1> DEFINE b == Append(p.buf, v[Len(v)])
           k == p.need
           length == Announced(HeadersOf(u))
           result == FeedBody(p, b)
<1>1. u \in Seq(STRING) /\ v \in Seq(STRING) /\ Len(v) = Len(u) + 1 /\ Len(u) \in Nat
    BY DEF Longer
<1>2. MaxLine \in Nat /\ MaxHeaders \in Nat /\ MaxBody \in Nat
    BY ExchangeAssumption
<1>3. p \in Parsers /\ InBody(p, u) /\ k \in Nat
    BY DEF InPlace, Parsers
<1>4. /\ RequestEnd(u) <= Len(u) /\ RequestEnd(u) <= MaxLine
      /\ BlankEnd(u) <= Len(u) /\ WrongEnd(u) = BlankEnd(u)
      /\ BlankEnd(u) <= RequestEnd(u) + MaxHeaders
      /\ length \in DOMAIN Lengths /\ k = Lengths[length] /\ k <= MaxBody
      /\ Len(u) < BlankEnd(u) + k /\ p.buf = SubSeq(u, BlankEnd(u) + 1, Len(u))
    BY <1>3 DEF InBody, RequestFine
<1>5. RequestEnd(v) = RequestEnd(u) /\ RequestEnd(u) \in 2 .. Len(u)
    BY <1>1, <1>4, RequestEndGrows, RequestEndIs, EndsIn
<1>6. RequestFine(v)
    <2>1. RequestEnd(u) - 2 \in 0 .. Len(u)
        BY <1>1, <1>5
    <2>2. SubSeq(v, 1, RequestEnd(u) - 2) = SubSeq(u, 1, RequestEnd(u) - 2)
        BY <2>1, BeginningSame
    <2>3. RequestLine(SubSeq(u, 1, RequestEnd(u) - 2)) = "ok"
        BY <1>3 DEF InBody, RequestFine
    <2>4. RequestEnd(v) <= Len(v)
        BY <1>1, <1>4, <1>5
    <2> QED BY <1>4, <1>5, <2>2, <2>3, <2>4 DEF RequestFine
<1>7. BlankEnd(v) = BlankEnd(u) /\ WrongEnd(v) = WrongEnd(u) /\ HeadersOf(v) = HeadersOf(u)
    BY <1>4, BlankEndGrows, WrongEndGrows, HeadersGrow
<1>8. BlankEnd(u) \in 1 .. Len(u)
    BY <1>1, <1>4, BlankEndIs
<1>9. BlankEnd(u) + 1 \in 1 .. Len(u) + 1
    BY <1>1, <1>8
<1>10. /\ b = SubSeq(v, BlankEnd(u) + 1, Len(v)) /\ b \in Seq(STRING)
       /\ Len(b) = Len(v) - BlankEnd(u)
    <2> DEFINE a == SubSeq(u, BlankEnd(u) + 1, Len(u))
    <2>1. a \in Seq(STRING) /\ Len(a) = Len(u) + 1 - (BlankEnd(u) + 1)
        BY <1>9, PartGrows
    <2>2. SubSeq(v, BlankEnd(u) + 1, Len(v)) = Append(a, v[Len(v)])
        BY <1>9, PartGrows
    <2>3. v[Len(v)] \in STRING
        BY <1>1
    <2> HIDE DEF a
    <2>4. b = Append(a, v[Len(v)])
        BY <1>4 DEF a
    <2> HIDE DEF b
    <2>5. b \in Seq(STRING) /\ Len(b) = Len(a) + 1
        BY <2>1, <2>3, <2>4
    <2>6. Len(b) = Len(v) - BlankEnd(u)
        BY <1>1, <1>8, <2>1, <2>5
    <2> QED BY <2>2, <2>4, <2>5, <2>6
<1> HIDE DEF b, length
<1>11. Deserved(v) =
           IF length = "junk" THEN [kind |-> "malformed", body |-> <<>>]
           ELSE IF Lengths[length] > MaxBody THEN [kind |-> "too_large", body |-> <<>>]
           ELSE IF Len(v) < BlankEnd(v) + Lengths[length] THEN [kind |-> "wait", body |-> <<>>]
           ELSE [kind |-> "page", body |-> SubSeq(v, BlankEnd(v) + 1, BlankEnd(v) + Lengths[length])]
    <2>1. /\ BlankEnd(v) <= Len(v) /\ WrongEnd(v) = BlankEnd(v)
          /\ BlankEnd(v) <= RequestEnd(v) + MaxHeaders
        BY <1>1, <1>4, <1>5, <1>7, <1>8
    <2>2. length = Announced(HeadersOf(v))
        BY <1>7 DEF length
    <2> QED BY <1>1, <1>6, <2>1, <2>2, BlankDeserves
<1>12. length # "junk" /\ ~(Lengths[length] > MaxBody)
    BY <1>2, <1>3, <1>4, LengthsAre
<1> SUFFICES InPlace(result, v)
    BY DEF b
<1>13. CASE Len(b) < k
    <2>1. result = [p EXCEPT !.buf = b]
        BY <1>13 DEF FeedBody
    <2>2. /\ result \in Parsers /\ result.state = "body" /\ result.buf = b /\ result.need = k
        BY <1>3, <1>10, <2>1 DEF Parsers
    <2>3. Len(v) < BlankEnd(v) + k /\ BlankEnd(v) <= Len(v)
        BY <1>1, <1>3, <1>7, <1>8, <1>10, <1>13
    <2>4. Announced(HeadersOf(v)) = length
        BY <1>7 DEF length
    <2> HIDE DEF result, k
    <2>5. InBody(result, v)
        BY <1>4, <1>5, <1>6, <1>7, <1>10, <2>2, <2>3, <2>4 DEF InBody
    <2> QED BY <2>2, <2>5 DEF InPlace
<1>14. CASE ~(Len(b) < k)
    <2>1. result = [p EXCEPT !.body = b, !.state = "done"]
        BY <1>14 DEF FeedBody
    <2>2. result \in Parsers /\ result.state = "done" /\ result.body = b
        BY <1>3, <1>10, <2>1 DEF Parsers
    <2>3. Len(v) = BlankEnd(v) + k
        BY <1>1, <1>3, <1>4, <1>7, <1>8, <1>10, <1>14
    <2>4. ~(Len(v) < BlankEnd(v) + Lengths[length]) /\ Len(v) = BlankEnd(v) + Lengths[length]
        BY <1>1, <1>4, <2>3
    <2>5. Deserved(v) = [kind |-> "page", body |-> SubSeq(v, BlankEnd(v) + 1, Len(v))]
        BY <1>11, <1>12, <2>4
    <2> HIDE DEF result
    <2> QED BY <1>7, <1>10, <2>2, <2>5 DEF InPlace
<1> QED BY <1>13, <1>14

\* Whatever byte comes next, the parser stays in step with the text.
LEMMA ByteFed ==
    ASSUME NEW u, NEW v, Longer(u, v), NEW p, InPlace(p, u)
    PROVE  InPlace(FeedByte(p, v[Len(v)]), v)
<1>1. CASE p.state = "line"
    <2>1. Append(p.buf, v[Len(v)]) = v
        BY <1>1, LongerIs DEF InPlace, InLine
    <2>2. FeedByte(p, v[Len(v)]) = FeedLine(p, v)
        BY <1>1, <2>1 DEF FeedByte
    <2> QED BY <1>1, <2>2, LineFed
<1>2. CASE p.state = "headers"
    <2>1. FeedByte(p, v[Len(v)]) = FeedHeaders(p, Append(p.buf, v[Len(v)]))
        BY <1>2 DEF FeedByte
    <2> QED BY <1>2, <2>1, HeadersFed
<1>3. CASE p.state = "body"
    <2>1. FeedByte(p, v[Len(v)]) = FeedBody(p, Append(p.buf, v[Len(v)]))
        BY <1>3 DEF FeedByte
    <2> QED BY <1>3, <2>1, BodyFed
<1>4. CASE p.state \in {"done", "error"}
    <2>1. FeedByte(p, v[Len(v)]) = p
        BY <1>4 DEF FeedByte
    <2>2. p.state = "error" => p.error # "wait"
        BY DEF InPlace, Parsers
    <2>3. CASE p.state = "done"
        <3>1. Deserved(u) = [kind |-> "page", body |-> p.body]
            BY <2>3 DEF InPlace
        <3>2. Deserved(u).kind # "wait"
            BY <3>1
        <3>3. Deserved(v) = Deserved(u)
            BY <3>2, DeservedStays
        <3> QED BY <2>1, <2>3, <3>1, <3>3 DEF InPlace
    <2>4. CASE p.state = "error" /\ p.error # "wait"
        <3>1. Deserved(u) = [kind |-> p.error, body |-> <<>>]
            BY <2>4 DEF InPlace
        <3>2. Deserved(u).kind # "wait"
            BY <2>4, <3>1
        <3>3. Deserved(v) = Deserved(u)
            BY <3>2, DeservedStays
        <3> QED BY <2>1, <2>4, <3>1, <3>3 DEF InPlace
    <2> QED BY <1>4, <2>2, <2>3, <2>4
<1> QED BY <1>1, <1>2, <1>3, <1>4 DEF InPlace, Parsers

\* The parsers after each byte of some data.
AreFed(after, p, data) ==
    after = [j \in 0 .. Len(data) |-> IF j = 0 THEN p ELSE FeedByte(after[j - 1], data[j])]

LEMMA FeedRuns ==
    ASSUME NEW p, NEW data, data \in Seq(STRING)
    PROVE  \E after : AreFed(after, p, data) /\ Feed(p, data) = after[Len(data)]
<1> DEFINE Runs(f, m) == f = [j \in 0 .. m |-> IF j = 0 THEN p ELSE FeedByte(f[j - 1], data[j])]
           n == Len(data)
           Stuck == {m \in 0 .. n : ~\E f : Runs(f, m)}
<1>1. n \in Nat
    OBVIOUS
<1>2. Stuck = {}
    <2> SUFFICES ASSUME Stuck # {} PROVE FALSE
        OBVIOUS
    <2>1. Stuck \subseteq Nat
        BY <1>1
    <2>2. PICK m \in Stuck : \A k \in Stuck : m <= k
        BY <2>1, LeastExists
    <2>3. CASE m = 0
        <3>1. Runs([j \in 0 .. 0 |-> p], 0)
            OBVIOUS
        <3> QED BY <2>3, <3>1
    <2>4. CASE m # 0
        <3>1. m \in 0 .. n /\ m - 1 \in 0 .. n /\ m - 1 \notin Stuck
            BY <1>1, <2>2, <2>4
        <3>2. PICK f : Runs(f, m - 1)
            BY <3>1
        <3> DEFINE g == [j \in 0 .. m |-> IF j <= m - 1 THEN f[j] ELSE FeedByte(f[m - 1], data[m])]
        <3>3. \A j \in 0 .. m - 1 : g[j] = f[j]
            BY <3>1
        <3>4. g[m] = FeedByte(g[m - 1], data[m])
            BY <2>4, <3>1
        <3>5. \A j \in 0 .. m - 1 : f[j] = IF j = 0 THEN p ELSE FeedByte(f[j - 1], data[j])
            BY <3>2
        <3> HIDE DEF Runs, g
        <3>6. \A j \in 0 .. m : g[j] = IF j = 0 THEN p ELSE FeedByte(g[j - 1], data[j])
            <4> SUFFICES ASSUME NEW j, j \in 0 .. m PROVE g[j] = IF j = 0 THEN p ELSE FeedByte(g[j - 1], data[j])
                OBVIOUS
            <4>1. CASE j = m
                BY <2>4, <3>4, <4>1
            <4>2. CASE j # m
                <5>1. j \in 0 .. m - 1 /\ (j # 0 => j - 1 \in 0 .. m - 1)
                    BY <3>1, <4>2
                <5> QED BY <3>3, <3>5, <5>1
            <4> QED BY <4>1, <4>2
        <3>7. Runs(g, m)
            BY <3>6 DEF Runs, g
        <3>8. m \in Stuck
            BY <2>2
        <3> QED BY <3>7, <3>8
    <2> QED BY <2>3, <2>4
<1>3. \E f : Runs(f, n)
    BY <1>1, <1>2
<1> DEFINE after == CHOOSE f : Runs(f, n)
<1>4. Runs(after, n)
    BY <1>3
<1>5. Feed(p, data) = after[n]
    BY DEF Feed
<1> QED BY <1>4, <1>5 DEF AreFed

LEMMA BeginningLonger ==
    ASSUME NEW t, t \in Seq(STRING), NEW k, k \in Nat, k < Len(t)
    PROVE  /\ Longer(SubSeq(t, 1, k), SubSeq(t, 1, k + 1))
           /\ Len(SubSeq(t, 1, k + 1)) = k + 1
           /\ SubSeq(t, 1, k + 1)[k + 1] = t[k + 1]
<1> DEFINE u == SubSeq(t, 1, k)
           v == SubSeq(t, 1, k + 1)
<1>1. Len(t) \in Nat /\ k + 1 \in Nat /\ k + 1 <= Len(t)
    OBVIOUS
<1>2. u \in Seq(STRING) /\ v \in Seq(STRING)
    BY <1>1
<1>3. u = [i \in 1 .. k |-> t[i]] /\ v = [i \in 1 .. k + 1 |-> t[i]]
    BY <1>1
<1>4. Len(u) = k /\ Len(v) = k + 1
    BY <1>1
<1> HIDE DEF u, v
<1>5. v[k + 1] = t[k + 1] /\ \A i \in 1 .. k : v[i] = u[i]
    BY <1>1, <1>3
<1>6. Longer(u, v)
    BY <1>2, <1>4, <1>5 DEF Longer
<1> QED BY <1>4, <1>5, <1>6 DEF u, v

\* Feeding what comes next of a text, in one piece, keeps the parser in step.
LEMMA PieceFed ==
    ASSUME NEW t, t \in Seq(STRING), NEW k, k \in Nat, NEW n, n \in Nat, k + n <= Len(t),
           NEW p, InPlace(p, SubSeq(t, 1, k))
    PROVE  InPlace(Feed(p, SubSeq(t, k + 1, k + n)), SubSeq(t, 1, k + n))
<1> DEFINE data == SubSeq(t, k + 1, k + n)
<1>1. Len(t) \in Nat
    OBVIOUS
<1>2. data = [j \in 1 .. n |-> t[k + j]] /\ Len(data) = n /\ data \in Seq(STRING)
    <2>1. data = [j \in 1 .. (k + n) - (k + 1) + 1 |-> t[(k + 1) + j - 1]]
        BY <1>1
    <2>2. (k + n) - (k + 1) + 1 = n /\ \A j \in 1 .. n : (k + 1) + j - 1 = k + j
        OBVIOUS
    <2>3. \A j \in 1 .. n : t[k + j] \in STRING
        BY <1>1
    <2>4. data = [j \in 1 .. n |-> t[k + j]]
        BY <2>1, <2>2
    <2> HIDE DEF data
    <2> QED BY <2>3, <2>4
<1> HIDE DEF data
<1>3. PICK after : AreFed(after, p, data) /\ Feed(p, data) = after[Len(data)]
    BY <1>2, FeedRuns
<1>4. after[0] = p /\ \A j \in 1 .. n : after[j] = FeedByte(after[j - 1], t[k + j])
    <2>1. \A j \in 0 .. n : after[j] = IF j = 0 THEN p ELSE FeedByte(after[j - 1], data[j])
        BY <1>2, <1>3 DEF AreFed
    <2>2. \A j \in 1 .. n : data[j] = t[k + j]
        BY <1>2
    <2>3. 0 \in 0 .. n /\ \A j \in 1 .. n : j \in 0 .. n /\ j # 0
        OBVIOUS
    <2> QED BY <2>1, <2>2, <2>3
<1> DEFINE Wrong == {j \in 0 .. n : ~InPlace(after[j], SubSeq(t, 1, k + j))}
<1>5. Wrong = {}
    <2> SUFFICES ASSUME Wrong # {} PROVE FALSE
        OBVIOUS
    <2>1. Wrong \subseteq Nat
        OBVIOUS
    <2>2. PICK j \in Wrong : \A i \in Wrong : j <= i
        BY <2>1, LeastExists
    <2>3. j # 0
        BY <1>4, <2>2
    <2>4. j \in 1 .. n /\ j - 1 \in 0 .. n /\ j - 1 \notin Wrong
        BY <2>2, <2>3
    <2> DEFINE i == k + (j - 1)
    <2>5. InPlace(after[j - 1], SubSeq(t, 1, i))
        BY <2>4
    <2>6. i \in Nat /\ i < Len(t) /\ i + 1 = k + j
        BY <1>1, <2>4
    <2> HIDE DEF i
    <2>7. /\ Longer(SubSeq(t, 1, i), SubSeq(t, 1, i + 1))
          /\ Len(SubSeq(t, 1, i + 1)) = i + 1
          /\ SubSeq(t, 1, i + 1)[i + 1] = t[i + 1]
        BY <2>6, BeginningLonger
    <2>8. InPlace(FeedByte(after[j - 1], t[i + 1]), SubSeq(t, 1, i + 1))
        BY <2>5, <2>7, ByteFed
    <2>9. InPlace(after[j], SubSeq(t, 1, k + j))
        BY <1>4, <2>4, <2>6, <2>8
    <2> QED BY <2>2, <2>9
<1>6. n \in 0 .. n
    OBVIOUS
<1> QED BY <1>2, <1>3, <1>5, <1>6 DEF data

-----------------------------------------------------------------------------
\* The answer leaves in order, whatever parts it is made of.
AreEnds(end, parts) ==
    end = [j \in 0 .. Len(parts) |-> IF j = 0 THEN 0 ELSE end[j - 1] + parts[j]]

LEMMA EndsRun ==
    ASSUME NEW parts, parts \in Seq(Nat)
    PROVE  AreEnds(PartEnds(parts), parts)
<1> DEFINE Runs(f, m) == f = [j \in 0 .. m |-> IF j = 0 THEN 0 ELSE f[j - 1] + parts[j]]
           n == Len(parts)
           Stuck == {m \in 0 .. n : ~\E f : Runs(f, m)}
<1>1. n \in Nat
    OBVIOUS
<1>2. Stuck = {}
    <2> SUFFICES ASSUME Stuck # {} PROVE FALSE
        OBVIOUS
    <2>1. Stuck \subseteq Nat
        BY <1>1
    <2>2. PICK m \in Stuck : \A k \in Stuck : m <= k
        BY <2>1, LeastExists
    <2>3. CASE m = 0
        <3>1. Runs([j \in 0 .. 0 |-> 0], 0)
            OBVIOUS
        <3> QED BY <2>3, <3>1
    <2>4. CASE m # 0
        <3>1. m \in 0 .. n /\ m - 1 \in 0 .. n /\ m - 1 \notin Stuck
            <4>1. m \in 0 .. n /\ m \in Nat
                BY <1>1
            <4>2. m - 1 \in 0 .. n /\ ~(m <= m - 1)
                BY <1>1, <2>4, <4>1
            <4> HIDE DEF Stuck
            <4> QED BY <2>2, <4>1, <4>2
        <3>2. PICK f : Runs(f, m - 1)
            BY <3>1
        <3> DEFINE g == [j \in 0 .. m |-> IF j <= m - 1 THEN f[j] ELSE f[m - 1] + parts[m]]
        <3>3. \A j \in 0 .. m - 1 : g[j] = f[j]
            BY <3>1
        <3>4. g[m] = g[m - 1] + parts[m]
            BY <2>4, <3>1
        <3>5. \A j \in 0 .. m - 1 : f[j] = IF j = 0 THEN 0 ELSE f[j - 1] + parts[j]
            BY <3>2
        <3> HIDE DEF Runs, g
        <3>6. \A j \in 0 .. m : g[j] = IF j = 0 THEN 0 ELSE g[j - 1] + parts[j]
            <4> SUFFICES ASSUME NEW j, j \in 0 .. m PROVE g[j] = IF j = 0 THEN 0 ELSE g[j - 1] + parts[j]
                OBVIOUS
            <4>1. CASE j = m
                BY <2>4, <3>4, <4>1
            <4>2. CASE j # m
                <5>1. j \in 0 .. m - 1 /\ (j # 0 => j - 1 \in 0 .. m - 1)
                    BY <3>1, <4>2
                <5> QED BY <3>3, <3>5, <5>1
            <4> QED BY <4>1, <4>2
        <3>7. Runs(g, m)
            BY <3>6 DEF Runs, g
        <3>8. m \in Stuck
            BY <2>2
        <3> QED BY <3>7, <3>8
    <2> QED BY <2>3, <2>4
<1>3. \E f : Runs(f, n)
    BY <1>1, <1>2
<1> DEFINE end == CHOOSE f : Runs(f, n)
<1>4. Runs(end, n)
    BY <1>3
<1>5. PartEnds(parts) = end
    BY DEF PartEnds
<1> QED BY <1>4, <1>5 DEF AreEnds

\* The parts of an answer follow each other.
LEMMA EndsAscend ==
    ASSUME NEW parts, parts \in Seq(Nat)
    PROVE  /\ PartEnds(parts)[0] = 0
           /\ \A j \in 0 .. Len(parts) : PartEnds(parts)[j] \in Nat
           /\ \A j \in 1 .. Len(parts) : PartEnds(parts)[j] = PartEnds(parts)[j - 1] + parts[j]
<1> DEFINE end == PartEnds(parts)
           n == Len(parts)
<1>1. n \in Nat /\ 0 \in 0 .. n
    OBVIOUS
<1>2. \A j \in 0 .. n : end[j] = IF j = 0 THEN 0 ELSE end[j - 1] + parts[j]
    BY EndsRun DEF AreEnds
<1>3. end[0] = 0 /\ \A j \in 1 .. n : end[j] = end[j - 1] + parts[j]
    BY <1>1, <1>2
<1> HIDE DEF end
<1> DEFINE Wrong == {j \in 0 .. n : end[j] \notin Nat}
<1>4. Wrong = {}
    <2> SUFFICES ASSUME Wrong # {} PROVE FALSE
        OBVIOUS
    <2>1. Wrong \subseteq Nat
        OBVIOUS
    <2>2. PICK j \in Wrong : \A i \in Wrong : j <= i
        BY <2>1, LeastExists
    <2>3. j \in 1 .. n /\ j - 1 \in 0 .. n /\ j - 1 \notin Wrong
        BY <1>1, <1>3, <2>2
    <2>4. end[j - 1] \in Nat /\ parts[j] \in Nat
        BY <2>3
    <2>5. end[j] \in Nat
        BY <1>3, <2>3, <2>4
    <2> QED BY <2>2, <2>5
<1> QED BY <1>3, <1>4 DEF end

\* What lies after one place of an answer and up to another.
Places(from, to) == [i \in 1 .. (IF to > from THEN to - from ELSE 0) |-> from + i]

LEMMA PlacesAre ==
    ASSUME NEW from, from \in Nat, NEW to, to \in Nat
    PROVE  /\ Places(from, to) \in Seq(Nat)
           /\ Len(Places(from, to)) = IF to > from THEN to - from ELSE 0
           /\ \A i \in 1 .. Len(Places(from, to)) : Places(from, to)[i] = from + i
BY DEF Places

LEMMA PlacesFollow ==
    ASSUME NEW a, a \in Nat, NEW b, b \in Nat, NEW c, c \in Nat, a <= b, b <= c
    PROVE  Places(a, b) \o Places(b, c) = Places(a, c)
<1> DEFINE f == Places(a, b)
           g == Places(b, c)
           h == Places(a, c)
<1>1. f \in Seq(Nat) /\ Len(f) = b - a /\ \A i \in 1 .. b - a : f[i] = a + i
    BY DEF Places
<1>2. g \in Seq(Nat) /\ Len(g) = c - b /\ \A i \in 1 .. c - b : g[i] = b + i
    BY DEF Places
<1>3. h \in Seq(Nat) /\ Len(h) = c - a /\ \A i \in 1 .. c - a : h[i] = a + i
    BY DEF Places
<1> HIDE DEF f, g, h
<1>4. /\ f \o g \in Seq(Nat) /\ Len(f \o g) = c - a
      /\ \A i \in 1 .. c - a : (f \o g)[i] = IF i <= b - a THEN f[i] ELSE g[i - (b - a)]
    <2>1. Len(f) + Len(g) = c - a /\ Len(f) = b - a
        BY <1>1, <1>2
    <2>2. f \o g \in Seq(Nat) /\ Len(f \o g) = Len(f) + Len(g)
        BY <1>1, <1>2, ConcatProperties
    <2>3. \A i \in 1 .. Len(f) + Len(g) : (f \o g)[i] = IF i <= Len(f) THEN f[i] ELSE g[i - Len(f)]
        BY <1>1, <1>2
    <2> QED BY <2>1, <2>2, <2>3
<1>5. \A i \in 1 .. c - a : (f \o g)[i] = h[i]
    <2> SUFFICES ASSUME NEW i, i \in 1 .. c - a PROVE (f \o g)[i] = h[i]
        OBVIOUS
    <2>1. CASE i <= b - a
        <3>1. i \in 1 .. b - a
            BY <2>1
        <3> QED BY <1>1, <1>3, <1>4, <2>1, <3>1
    <2>2. CASE ~(i <= b - a)
        <3>1. i - (b - a) \in 1 .. c - b /\ b + (i - (b - a)) = a + i
            BY <2>2
        <3> QED BY <1>2, <1>3, <1>4, <2>2, <3>1
    <2> QED BY <2>1, <2>2
<1> QED BY <1>3, <1>4, <1>5, SeqEqual DEF f, g, h

\* The bytes of one more part that lie between two offsets.
LEMMA SliceFollows ==
    ASSUME NEW e, e \in Nat, NEW f, f \in Nat, e <= f, NEW start, start \in Nat, NEW stop, stop \in Nat
    PROVE  Places(start, Least(stop, e)) \o Slice(e, f, start, stop) = Places(start, Least(stop, f))
<1> DEFINE from == IF start > e THEN start ELSE e
           to == Least(f, stop)
<1>1. Slice(e, f, start, stop) = Places(from, to)
    BY DEF Slice, Places
<1>2. from \in Nat /\ to \in Nat
    BY DEF Least
<1>3. \A a \in Nat, b \in Nat : b <= a => Places(a, b) = <<>>
    BY DEF Places
<1>4. CASE stop <= e
    <2>1. Places(from, to) = <<>>
        <3>1. to <= from
            BY <1>4 DEF Least
        <3> HIDE DEF from, to
        <3> QED BY <1>2, <1>3, <3>1
    <2>2. Least(stop, e) = stop /\ Least(stop, f) = stop
        BY <1>4 DEF Least
    <2>3. Places(start, stop) \o <<>> = Places(start, stop)
        BY PlacesAre, ConcatEmptySeq
    <2> QED BY <1>1, <2>1, <2>2, <2>3
<1>5. CASE start >= e /\ ~(stop <= e)
    <2>1. Least(stop, e) = e /\ from = start /\ to = Least(stop, f)
        BY <1>5 DEF Least
    <2>2. Places(start, e) = <<>>
        BY <1>3, <1>5
    <2>3. <<>> \o Places(start, to) = Places(start, to)
        BY <1>2, PlacesAre, ConcatEmptySeq
    <2> QED BY <1>1, <2>1, <2>2, <2>3
<1>6. CASE ~(start >= e) /\ ~(stop <= e)
    <2>1. Least(stop, e) = e /\ from = e /\ to = Least(stop, f) /\ start <= e /\ e <= to
        BY <1>6 DEF Least
    <2> HIDE DEF from, to
    <2>2. Places(start, e) \o Places(e, to) = Places(start, to)
        BY <1>2, <2>1, PlacesFollow
    <2> QED BY <1>1, <2>1, <2>2
<1> QED BY <1>4, <1>5, <1>6

\* What has been taken of the first parts of an answer.
AreTaken(taken, parts, start, stop) ==
    taken = [j \in 0 .. Len(parts) |->
                IF j = 0 THEN <<>>
                ELSE taken[j - 1] \o Slice(PartEnds(parts)[j - 1], PartEnds(parts)[j], start, stop)]

LEMMA TakenRun ==
    ASSUME NEW parts, parts \in Seq(Nat), NEW start, NEW stop
    PROVE  \E taken : /\ AreTaken(taken, parts, start, stop)
                      /\ ResponseChunk(parts, start, stop) = taken[Len(parts)]
<1> DEFINE end == PartEnds(parts)
           Runs(f, m) == f = [j \in 0 .. m |->
               IF j = 0 THEN <<>> ELSE f[j - 1] \o Slice(end[j - 1], end[j], start, stop)]
           n == Len(parts)
           Stuck == {m \in 0 .. n : ~\E f : Runs(f, m)}
<1>1. n \in Nat
    OBVIOUS
<1> HIDE DEF end
<1>2. Stuck = {}
    <2> SUFFICES ASSUME Stuck # {} PROVE FALSE
        OBVIOUS
    <2>1. Stuck \subseteq Nat
        <3> HIDE DEF Runs
        <3> QED BY <1>1
    <2>2. PICK m \in Stuck : \A k \in Stuck : m <= k
        BY <2>1, LeastExists
    <2>3. CASE m = 0
        <3>1. Runs([j \in 0 .. 0 |-> <<>>], 0)
            OBVIOUS
        <3> QED BY <2>3, <3>1
    <2>4. CASE m # 0
        <3>1. m \in 0 .. n /\ m - 1 \in 0 .. n /\ m - 1 \notin Stuck
            <4>1. m \in 0 .. n /\ m \in Nat
                BY <1>1
            <4>2. m - 1 \in 0 .. n /\ ~(m <= m - 1)
                BY <1>1, <2>4, <4>1
            <4> HIDE DEF Stuck
            <4> QED BY <2>2, <4>1, <4>2
        <3>2. PICK f : Runs(f, m - 1)
            BY <3>1
        <3> DEFINE g == [j \in 0 .. m |-> IF j <= m - 1 THEN f[j]
                                          ELSE f[m - 1] \o Slice(end[m - 1], end[m], start, stop)]
        <3>3. \A j \in 0 .. m - 1 : g[j] = f[j]
            BY <3>1
        <3>4. g[m] = g[m - 1] \o Slice(end[m - 1], end[m], start, stop)
            BY <2>4, <3>1
        <3>5. \A j \in 0 .. m - 1 : f[j] =
                  IF j = 0 THEN <<>> ELSE f[j - 1] \o Slice(end[j - 1], end[j], start, stop)
            BY <3>2
        <3> HIDE DEF Runs, g
        <3>6. \A j \in 0 .. m : g[j] =
                  IF j = 0 THEN <<>> ELSE g[j - 1] \o Slice(end[j - 1], end[j], start, stop)
            <4> SUFFICES ASSUME NEW j, j \in 0 .. m
                         PROVE  g[j] = IF j = 0 THEN <<>>
                                       ELSE g[j - 1] \o Slice(end[j - 1], end[j], start, stop)
                OBVIOUS
            <4>1. CASE j = m
                BY <2>4, <3>4, <4>1
            <4>2. CASE j # m
                <5>1. j \in 0 .. m - 1 /\ (j # 0 => j - 1 \in 0 .. m - 1)
                    BY <3>1, <4>2
                <5> QED BY <3>3, <3>5, <5>1
            <4> QED BY <4>1, <4>2
        <3>7. Runs(g, m)
            BY <3>6 DEF Runs, g
        <3>8. m \in Stuck
            BY <2>2
        <3> QED BY <3>7, <3>8
    <2> QED BY <2>3, <2>4
<1>3. \E f : Runs(f, n)
    <2> HIDE DEF Runs
    <2>1. n \in 0 .. n
        BY <1>1
    <2> QED BY <1>2, <2>1
<1> DEFINE taken == CHOOSE f : Runs(f, n)
<1>4. Runs(taken, n)
    BY <1>3
<1>5. ResponseChunk(parts, start, stop) = taken[n]
    BY DEF ResponseChunk, end
<1> QED BY <1>4, <1>5 DEF AreTaken, end

\* A chunk is what lies between its offsets.
LEMMA ChunkIs ==
    ASSUME NEW parts, parts \in Seq(Nat), NEW start, start \in Nat, NEW stop, stop \in Nat
    PROVE  /\ Total(parts) \in Nat
           /\ ResponseChunk(parts, start, stop) = Places(start, Least(stop, Total(parts)))
<1> DEFINE end == PartEnds(parts)
           n == Len(parts)
<1>1. n \in Nat /\ 0 \in 0 .. n /\ n \in 0 .. n
    OBVIOUS
<1>2. /\ end[0] = 0 /\ \A j \in 0 .. n : end[j] \in Nat
      /\ \A j \in 1 .. n : end[j] = end[j - 1] + parts[j]
    BY EndsAscend
<1>3. PICK taken : /\ AreTaken(taken, parts, start, stop)
                   /\ ResponseChunk(parts, start, stop) = taken[n]
    BY TakenRun
<1>4. \A j \in 0 .. n : taken[j] =
          IF j = 0 THEN <<>> ELSE taken[j - 1] \o Slice(end[j - 1], end[j], start, stop)
    BY <1>3 DEF AreTaken
<1> HIDE DEF end
<1> DEFINE Wrong == {j \in 0 .. n : taken[j] # Places(start, Least(stop, end[j]))}
<1>5. Wrong = {}
    <2> SUFFICES ASSUME Wrong # {} PROVE FALSE
        OBVIOUS
    <2>1. Wrong \subseteq Nat
        OBVIOUS
    <2>2. PICK j \in Wrong : \A i \in Wrong : j <= i
        BY <2>1, LeastExists
    <2>3. j # 0
        <3>1. taken[0] = <<>>
            BY <1>1, <1>4
        <3>2. Least(stop, end[0]) = 0 /\ ~(0 > start)
            BY <1>2 DEF Least
        <3>3. Places(start, 0) = <<>>
            BY DEF Places
        <3> QED BY <2>2, <3>1, <3>2, <3>3
    <2>4. j \in 1 .. n /\ j - 1 \in 0 .. n
        BY <1>1, <2>3
    <2>5. j - 1 \notin Wrong
        <3>1. ~(j <= j - 1)
            BY <2>4
        <3> HIDE DEF Wrong
        <3> QED BY <2>2, <3>1
    <2>6. taken[j - 1] = Places(start, Least(stop, end[j - 1]))
        BY <2>4, <2>5
    <2>7. taken[j] = taken[j - 1] \o Slice(end[j - 1], end[j], start, stop)
        BY <1>4, <2>3, <2>4
    <2>8. end[j - 1] \in Nat /\ end[j] \in Nat /\ end[j - 1] <= end[j]
        <3>1. parts[j] \in Nat
            BY <2>4
        <3> QED BY <1>2, <2>4, <3>1
    <2>9. taken[j] = Places(start, Least(stop, end[j]))
        <3> DEFINE e == end[j - 1]
                   f == end[j]
        <3>1. e \in Nat /\ f \in Nat /\ e <= f
            BY <2>8
        <3> HIDE DEF e, f
        <3>2. Places(start, Least(stop, e)) \o Slice(e, f, start, stop) = Places(start, Least(stop, f))
            BY <3>1, SliceFollows
        <3> QED BY <2>6, <2>7, <3>2 DEF e, f
    <2> QED BY <2>2, <2>9
<1>6. taken[n] = Places(start, Least(stop, end[n]))
    BY <1>1, <1>5
<1> QED BY <1>1, <1>2, <1>3, <1>6 DEF Total, end

-----------------------------------------------------------------------------
\* What has been received of the text.
Received == SubSeq(text, 1, fed)

Replies ==
    [kind : {"none", "failure", "page", "malformed", "too_large", "unsupported"},
     body : Seq(STRING), total : Nat]
Outboxes == [parts : Seq(Nat), source : BOOLEAN, offset : Nat]

\* The verdict of an answer is that of the text received so far.
Fitting(r, t) ==
    r.kind \notin {"none", "failure"} => r.kind = Deserved(t).kind /\ r.body = Deserved(t).body

ExchangeInv ==
    /\ text \in Seq(STRING) /\ fed \in 0 .. Len(text)
    /\ phase \in {"reading", "held", "writing", "closed"}
    /\ outbox \in Outboxes /\ outOffset \in Nat /\ reply \in Replies
    /\ phase = "reading" =>
          InPlace(parser, Received) /\ parser.state \notin {"done", "error"} /\ reply.kind = "none"
    /\ phase = "held" => reply.kind = "page"
    /\ phase \in {"reading", "held"} => got = <<>>
    /\ Fitting(reply, Received)
    /\ phase = "writing" =>
          /\ outbox.source => outbox.offset = outOffset
          /\ reply.total = Total(outbox.parts)
          /\ Len(got) = outOffset /\ outOffset <= reply.total
    /\ Len(got) \in Nat /\ got = Places(0, Len(got))
    /\ phase # "closed" => ending = "none"
    /\ ending = "complete" => Len(got) = reply.total

LEMMA TotalOfOne ==
    ASSUME NEW n, n \in Nat
    PROVE  <<n>> \in Seq(Nat) /\ Total(<<n>>) = n
<1>1. <<n>> \in Seq(Nat) /\ Len(<<n>>) = 1 /\ <<n>>[1] = n
    OBVIOUS
<1> DEFINE parts == <<n>>
<1> HIDE DEF parts
<1>2. parts \in Seq(Nat) /\ Len(parts) = 1 /\ parts[1] = n
    BY <1>1 DEF parts
<1> DEFINE end == PartEnds(parts)
<1> HIDE DEF end
<1>3. end[0] = 0 /\ \A j \in 1 .. Len(parts) : end[j] = end[j - 1] + parts[j]
    BY <1>2, EndsAscend DEF end
<1>4. end[1] = n
    <2>1. 1 \in 1 .. Len(parts) /\ 1 - 1 = 0
        BY <1>2
    <2>2. end[1] = end[1 - 1] + parts[1]
        BY <1>3, <2>1
    <2> QED BY <1>2, <1>3, <2>1, <2>2
<1> QED BY <1>1, <1>2, <1>4 DEF Total, parts, end

LEMMA NewInPlace ==
    ASSUME NEW t, t \in Seq(STRING)
    PROVE  InPlace(NewParser, SubSeq(t, 1, 0))
<1>1. SubSeq(t, 1, 0) = <<>> /\ <<>> \in Seq(STRING) /\ Len(<<>>) = 0
    OBVIOUS
<1> DEFINE u == SubSeq(t, 1, 0)
<1>2. u \in Seq(STRING) /\ Len(u) = 0 /\ u = <<>>
    BY <1>1
<1> HIDE DEF u
<1>3. RequestEnd(u) = Len(u) + 1
    <2>1. RequestEnd(u) \in 1 .. Len(u) + 1
        BY <1>2, RequestEndIs
    <2>2. Len(u) = 0
        BY <1>2
    <2> QED BY <2>1, <2>2
<1>4. Len(u) <= MaxLine
    BY <1>2, ExchangeAssumption
<1>5. /\ NewParser \in Parsers /\ NewParser.state = "line" /\ NewParser.buf = <<>>
      /\ NewParser.headersBytes = 0 /\ NewParser.length = "length0" /\ NewParser.body = <<>>
    BY DEF NewParser, Parsers, Lengths
<1>6. InLine(NewParser, u)
    BY <1>2, <1>3, <1>4, <1>5 DEF InLine
<1> QED BY <1>5, <1>6 DEF InPlace, u

\* What holds of a connection that has just been accepted.
LEMMA FreshExchange ==
    ASSUME NEW t, t \in Texts
    PROVE  /\ t \in Seq(STRING) /\ 0 \in 0 .. Len(t)
           /\ InPlace(NewParser, SubSeq(t, 1, 0)) /\ NewParser.state \notin {"done", "error"}
           /\ NoOutbox \in Outboxes
           /\ <<>> = Places(0, 0) /\ Len(<<>>) = 0
<1>1. t \in Seq(STRING)
    BY ExchangeAssumption
<1>2. 0 \in 0 .. Len(t)
    BY <1>1
<1>3. NoOutbox \in Outboxes
    BY DEF NoOutbox, Outboxes
<1>4. <<>> = Places(0, 0) /\ Len(<<>>) = 0
    BY DEF Places
<1> QED BY <1>1, <1>2, <1>3, <1>4, NewInPlace DEF NewParser

LEMMA ExchangeInvInit == ExchangeInit => ExchangeInv
<1> SUFFICES ASSUME ExchangeInit PROVE ExchangeInv
    OBVIOUS
<1>1. /\ text \in Texts /\ fed = 0 /\ parser = NewParser /\ phase = "reading" /\ outbox = NoOutbox
      /\ outOffset = 0 /\ reply = [kind |-> "none", body |-> <<>>, total |-> 0]
      /\ got = <<>> /\ ending = "none"
    BY DEF ExchangeInit
<1>2. reply \in Replies /\ reply.kind = "none"
    BY <1>1 DEF Replies
<1> QED BY <1>1, <1>2, FreshExchange DEF ExchangeInv, Received, Fitting

LEMMA ReadKeeps ==
    ASSUME ExchangeInv, Read
    PROVE  ExchangeInv'
<1>1. PICK n \in 1 .. Least(PerTick, Len(text) - fed) :
          LET p == Feed(parser, SubSeq(text, fed + 1, fed + n))
          IN /\ fed' = fed + n
             /\ parser' = p
             /\ \/ /\ p.state \notin {"done", "error"}
                   /\ UNCHANGED <<phase, outbox, outOffset, reply>>
                \/ /\ p.state = "error"
                   /\ Queue(<<ErrorLength>>, TRUE)
                   /\ reply' = [kind |-> p.error, body |-> <<>>, total |-> ErrorLength]
                \/ /\ p.state = "done"
                   /\ \E parts \in Pages : Answer(parts, p.body)
                \/ /\ p.state = "done"
                   /\ phase' = "held"
                   /\ reply' = [kind |-> "page", body |-> p.body, total |-> 0]
                   /\ UNCHANGED <<outbox, outOffset>>
                \/ Breaks
    BY Zenon DEF Read
<1>2. /\ phase = "reading" /\ text' = text /\ got' = got /\ ending' = ending
      /\ text \in Seq(STRING) /\ fed \in 0 .. Len(text) /\ Len(text) \in Nat
      /\ InPlace(parser, SubSeq(text, 1, fed)) /\ reply.kind = "none" /\ got = <<>>
      /\ ending = "none" /\ outbox \in Outboxes /\ outOffset \in Nat /\ reply \in Replies
    BY DEF Read, ExchangeInv, Received
<1>3. n \in Nat /\ fed + n <= Len(text) /\ fed' = fed + n /\ fed + n \in 0 .. Len(text)
    BY <1>1, <1>2, ExchangeAssumption DEF Least
<1> DEFINE p == Feed(parser, SubSeq(text, fed + 1, fed + n))
           t == SubSeq(text, 1, fed + n)
<1>4. InPlace(p, t)
    <2>1. fed \in Nat
        BY <1>2
    <2> HIDE DEF p, t
    <2>2. InPlace(Feed(parser, SubSeq(text, fed + 1, fed + n)), SubSeq(text, 1, fed + n))
        BY <1>2, <1>3, <2>1, PieceFed
    <2> QED BY <2>2 DEF p, t
<1>5. parser' = p /\ Received' = t
    BY <1>1, <1>2, <1>3 DEF Received
<1>6. Len(got) = 0 /\ got = Places(0, Len(got))
    BY <1>2 DEF Places
<1>7. /\ text' \in Seq(STRING) /\ fed' \in 0 .. Len(text')
      /\ Len(got') \in Nat /\ got' = Places(0, Len(got'))
      /\ ending' = "none" /\ got' = <<>> /\ Len(got') = 0
    BY <1>2, <1>3, <1>6
<1>8. ErrorLength \in Nat /\ Pages \subseteq Seq(Nat)
    BY ExchangeAssumption
<1>9. \/ /\ p.state \notin {"done", "error"}
         /\ UNCHANGED <<phase, outbox, outOffset, reply>>
      \/ /\ p.state = "error"
         /\ Queue(<<ErrorLength>>, TRUE)
         /\ reply' = [kind |-> p.error, body |-> <<>>, total |-> ErrorLength]
      \/ /\ p.state = "done"
         /\ \E parts \in Pages : Answer(parts, p.body)
      \/ /\ p.state = "done"
         /\ phase' = "held"
         /\ reply' = [kind |-> "page", body |-> p.body, total |-> 0]
         /\ UNCHANGED <<outbox, outOffset>>
      \/ Breaks
    BY <1>1
<1> HIDE DEF p, t
<1>10. p.error \in {"none", "malformed", "too_large", "unsupported"} /\ p.body \in Seq(STRING)
    BY <1>4 DEF InPlace, Parsers
<1>11. CASE /\ p.state \notin {"done", "error"}
            /\ UNCHANGED <<phase, outbox, outOffset, reply>>
    BY <1>2, <1>4, <1>5, <1>7, <1>11 DEF ExchangeInv, Fitting
<1>12. CASE /\ p.state = "error"
            /\ Queue(<<ErrorLength>>, TRUE)
            /\ reply' = [kind |-> p.error, body |-> <<>>, total |-> ErrorLength]
    <2>1. /\ phase' = "writing" /\ outbox' = [parts |-> <<ErrorLength>>, source |-> TRUE, offset |-> 0]
          /\ outOffset' = 0
        BY <1>12 DEF Queue
    <2>2. <<ErrorLength>> \in Seq(Nat) /\ Total(<<ErrorLength>>) = ErrorLength
        BY <1>8, TotalOfOne
    <2>3. outbox' \in Outboxes /\ outbox'.offset = 0 /\ outbox'.parts = <<ErrorLength>>
        BY <2>1, <2>2 DEF Outboxes
    <2>4. Deserved(t) = [kind |-> p.error, body |-> <<>>]
        BY <1>4, <1>12 DEF InPlace
    <2>5. /\ reply' \in Replies /\ reply'.kind = p.error /\ reply'.body = <<>>
          /\ reply'.total = ErrorLength
        BY <1>8, <1>10, <1>12 DEF Replies
    <2>6. Fitting(reply, Received)'
        BY <1>5, <2>4, <2>5 DEF Fitting
    <2> QED BY <1>7, <1>8, <2>1, <2>2, <2>3, <2>5, <2>6 DEF ExchangeInv
<1>13. CASE p.state = "done" /\ \E parts \in Pages : Answer(parts, p.body)
    <2>1. PICK parts \in Pages : Answer(parts, p.body)
        BY <1>13
    <2>2. /\ phase' = "writing" /\ outbox' = [parts |-> parts, source |-> TRUE, offset |-> 0]
          /\ outOffset' = 0 /\ reply' = [kind |-> "page", body |-> p.body, total |-> Total(parts)]
        BY <2>1 DEF Answer, Queue
    <2>3. parts \in Seq(Nat) /\ Total(parts) \in Nat
        BY <1>8, ChunkIs
    <2>4. outbox' \in Outboxes /\ outbox'.offset = 0 /\ outbox'.parts = parts
        BY <2>2, <2>3 DEF Outboxes
    <2>5. Deserved(t) = [kind |-> "page", body |-> p.body]
        BY <1>4, <1>13 DEF InPlace
    <2>6. /\ reply' \in Replies /\ reply'.kind = "page" /\ reply'.body = p.body
          /\ reply'.total = Total(parts)
        BY <1>10, <2>2, <2>3 DEF Replies
    <2>7. Fitting(reply, Received)'
        BY <1>5, <2>5, <2>6 DEF Fitting
    <2> QED BY <1>7, <2>2, <2>3, <2>4, <2>6, <2>7 DEF ExchangeInv
<1>14. CASE /\ p.state = "done"
            /\ phase' = "held"
            /\ reply' = [kind |-> "page", body |-> p.body, total |-> 0]
            /\ UNCHANGED <<outbox, outOffset>>
    <2>1. Deserved(t) = [kind |-> "page", body |-> p.body]
        BY <1>4, <1>14 DEF InPlace
    <2>2. reply' \in Replies /\ reply'.kind = "page" /\ reply'.body = p.body
        BY <1>10, <1>14 DEF Replies
    <2>3. Fitting(reply, Received)'
        BY <1>5, <2>1, <2>2 DEF Fitting
    <2> QED BY <1>2, <1>7, <1>14, <2>2, <2>3 DEF ExchangeInv
<1>15. CASE Breaks
    <2>1. /\ phase' = "writing" /\ outbox' = [parts |-> <<ErrorLength>>, source |-> FALSE, offset |-> 0]
          /\ outOffset' = 0 /\ reply' = [kind |-> "failure", body |-> <<>>, total |-> ErrorLength]
        BY <1>15 DEF Breaks, Queue
    <2>2. <<ErrorLength>> \in Seq(Nat) /\ Total(<<ErrorLength>>) = ErrorLength
        BY <1>8, TotalOfOne
    <2>3. outbox' \in Outboxes /\ outbox'.offset = 0 /\ outbox'.parts = <<ErrorLength>>
        BY <2>1, <2>2 DEF Outboxes
    <2>4. reply' \in Replies /\ reply'.kind = "failure" /\ reply'.total = ErrorLength
        BY <1>8, <2>1 DEF Replies
    <2> QED BY <1>7, <1>8, <2>1, <2>2, <2>3, <2>4 DEF ExchangeInv, Fitting
<1> QED BY <1>9, <1>11, <1>12, <1>13, <1>14, <1>15

LEMMA AnswerHeldKeeps ==
    ASSUME ExchangeInv, AnswerHeld
    PROVE  ExchangeInv'
<1>1. PICK parts \in Pages : Answer(parts, reply.body)
    BY DEF AnswerHeld
<1>2. /\ phase = "held" /\ UNCHANGED <<text, fed, parser, got, ending>>
      /\ phase' = "writing" /\ outbox' = [parts |-> parts, source |-> TRUE, offset |-> 0]
      /\ outOffset' = 0 /\ reply' = [kind |-> "page", body |-> reply.body, total |-> Total(parts)]
    BY <1>1 DEF AnswerHeld, Answer, Queue
<1>3. parts \in Seq(Nat) /\ Total(parts) \in Nat
    BY ExchangeAssumption, ChunkIs
<1>4. outbox' \in Outboxes /\ outbox'.offset = 0 /\ outbox'.parts = parts
    BY <1>2, <1>3 DEF Outboxes
<1>5. /\ reply \in Replies /\ reply.kind = "page" /\ Fitting(reply, Received)
      /\ got = <<>> /\ got = Places(0, Len(got))
    BY <1>2 DEF ExchangeInv
<1>6. /\ reply' \in Replies /\ reply'.kind = "page" /\ reply'.body = reply.body
      /\ reply'.total = Total(parts)
    BY <1>2, <1>3, <1>5 DEF Replies
<1>7. Fitting(reply, Received)'
    BY <1>2, <1>5, <1>6 DEF Fitting, Received
<1>8. Len(got') = 0 /\ got' = Places(0, Len(got'))
    BY <1>2, <1>5
<1> QED BY <1>2, <1>3, <1>4, <1>6, <1>7, <1>8 DEF ExchangeInv

LEMMA DisconnectKeeps ==
    ASSUME ExchangeInv, Disconnect
    PROVE  ExchangeInv'
<1>1. /\ phase' = "closed" /\ ending' = "broken" /\ outbox' = NoOutbox
      /\ UNCHANGED <<text, fed, parser, outOffset, reply, got>>
    BY DEF Disconnect, Close
<1>2. NoOutbox \in Outboxes
    BY DEF NoOutbox, Outboxes
<1> QED BY <1>1, <1>2 DEF ExchangeInv, Received, Fitting

LEMMA WriteKeeps ==
    ASSUME ExchangeInv, Write
    PROVE  ExchangeInv'
<1>1. PICK n \in 0 .. Len(Chunk) :
          /\ got' = got \o SubSeq(Chunk, 1, n)
          /\ outOffset' = outOffset + n
          /\ IF Chunk = <<>> \/ outOffset' >= Total(outbox.parts) THEN Close("complete")
             ELSE /\ outbox' = [outbox EXCEPT !.offset = IF outbox.source THEN At + n ELSE @]
                  /\ UNCHANGED <<phase, ending>>
    BY DEF Write, SendChunk
<1>2. phase = "writing" /\ UNCHANGED <<text, fed, parser, reply>>
    BY DEF Write, SendChunk
<1> DEFINE parts == outbox.parts
           total == Total(parts)
           c == Chunk
           stop == Least(outOffset + PerTick, total)
<1>3. /\ outbox \in Outboxes /\ parts \in Seq(Nat) /\ outOffset \in Nat /\ reply.total = total
      /\ outbox.source => outbox.offset = outOffset
      /\ Len(got) = outOffset /\ outOffset <= total /\ got = Places(0, outOffset)
      /\ ending = "none"
    BY <1>2 DEF ExchangeInv, Outboxes
<1>4. At = outOffset
    BY <1>3 DEF At
<1>5. total \in Nat /\ PerTick \in Nat \ {0}
    BY <1>3, ChunkIs, ExchangeAssumption
<1>6. stop \in Nat /\ Least(stop, total) = stop /\ outOffset <= stop /\ stop <= total
      /\ (outOffset < total => outOffset < stop)
    BY <1>3, <1>5 DEF Least
<1>7. c = Places(outOffset, stop) /\ Len(c) = stop - outOffset
    <2>1. c = ResponseChunk(parts, outOffset, stop)
        BY <1>4 DEF Chunk
    <2> HIDE DEF stop, total, c
    <2>2. c = Places(outOffset, Least(stop, total))
        BY <1>3, <1>6, <2>1, ChunkIs DEF total
    <2>3. c = Places(outOffset, stop)
        BY <1>6, <2>2
    <2>4. Len(Places(outOffset, stop)) = IF stop > outOffset THEN stop - outOffset ELSE 0
        BY <1>3, <1>6, PlacesAre
    <2>5. (IF stop > outOffset THEN stop - outOffset ELSE 0) = stop - outOffset
        BY <1>3, <1>6
    <2> QED BY <2>3, <2>4, <2>5
<1> HIDE DEF c, stop, total, parts
<1>8. n \in Nat /\ outOffset + n <= stop /\ outOffset' = outOffset + n
    BY <1>1, <1>3, <1>6, <1>7 DEF c
<1>9. SubSeq(c, 1, n) = Places(outOffset, outOffset + n)
    <2>1. c = [i \in 1 .. stop - outOffset |-> outOffset + i]
        BY <1>3, <1>6, <1>7 DEF Places
    <2>2. SubSeq(c, 1, n) = [i \in 1 .. n |-> c[i]]
        BY <1>3, <1>6, <1>7, <1>8, <2>1
    <2>3. \A i \in 1 .. n : c[i] = outOffset + i
        BY <1>3, <1>6, <1>8, <2>1
    <2>4. SubSeq(c, 1, n) = [i \in 1 .. n |-> outOffset + i]
        BY <2>2, <2>3
    <2>5. Places(outOffset, outOffset + n) = [i \in 1 .. n |-> outOffset + i]
        BY <1>3, <1>8 DEF Places
    <2> QED BY <2>4, <2>5
<1>10. got' = Places(0, outOffset') /\ Len(got') = outOffset' /\ outOffset' \in Nat /\ outOffset' <= total
    <2>1. got' = Places(0, outOffset) \o Places(outOffset, outOffset + n)
        BY <1>1, <1>3, <1>9 DEF c
    <2>2. outOffset + n \in Nat /\ 0 \in Nat /\ 0 <= outOffset /\ outOffset <= outOffset + n
        BY <1>3, <1>8
    <2>3. got' = Places(0, outOffset + n)
        BY <1>3, <2>1, <2>2, PlacesFollow
    <2>4. Len(Places(0, outOffset + n)) = outOffset + n
        BY <2>2, PlacesAre
    <2> QED BY <1>3, <1>5, <1>6, <1>8, <2>2, <2>3, <2>4
<1>11. /\ text' \in Seq(STRING) /\ fed' \in 0 .. Len(text') /\ reply' \in Replies
       /\ Fitting(reply, Received)' /\ reply' = reply
    BY <1>2 DEF ExchangeInv, Received, Fitting
<1>12. CASE Chunk = <<>> \/ outOffset' >= Total(outbox.parts)
    <2>1. phase' = "closed" /\ ending' = "complete" /\ outbox' = NoOutbox
        BY <1>1, <1>12 DEF Close
    <2>2. outOffset' = total
        <3>1. CASE outOffset' >= total
            BY <1>5, <1>10, <3>1
        <3>2. CASE c = <<>>
            <4>1. Len(c) = 0
                BY <3>2
            <4> QED BY <1>3, <1>5, <1>6, <1>7, <1>8, <4>1
        <3> QED BY <1>12, <3>1, <3>2 DEF c, total, parts
    <2>3. NoOutbox \in Outboxes
        BY DEF NoOutbox, Outboxes
    <2> QED BY <1>3, <1>10, <1>11, <2>1, <2>2, <2>3 DEF ExchangeInv
<1>13. CASE ~(Chunk = <<>> \/ outOffset' >= Total(outbox.parts))
    <2>1. /\ outbox' = [outbox EXCEPT !.offset = IF outbox.source THEN At + n ELSE @]
          /\ phase' = "writing" /\ ending' = "none"
        BY <1>1, <1>2, <1>3, <1>13
    <2>2. /\ outbox' \in Outboxes /\ outbox'.parts = parts
          /\ outbox'.source => outbox'.offset = outOffset'
        BY <1>3, <1>4, <1>8, <1>10, <2>1 DEF Outboxes, parts
    <2> QED BY <1>3, <1>10, <1>11, <2>1, <2>2 DEF ExchangeInv, total
<1> QED BY <1>12, <1>13

LEMMA AgainKeeps ==
    ASSUME ExchangeInv, Again
    PROVE  ExchangeInv'
<1>1. /\ text' \in Texts /\ fed' = 0 /\ parser' = NewParser /\ phase' = "reading"
      /\ outbox' = NoOutbox /\ outOffset' = 0
      /\ reply' = [kind |-> "none", body |-> <<>>, total |-> 0]
      /\ got' = <<>> /\ ending' = "none"
    BY DEF Again
<1>2. reply' \in Replies /\ reply'.kind = "none"
    BY <1>1 DEF Replies
<1> QED BY <1>1, <1>2, FreshExchange DEF ExchangeInv, Received, Fitting

\* AnswerFits holds in every behaviour, for every request, every way to cut it into
\* pieces, every limit of the parser and every page: the request is answered as its text
\* deserves, and what the browser gets is the beginning of one answer, whole at the end.
THEOREM AnswerFitsAlways == ExchangeSpec => []AnswerFits
<1>1. ExchangeInit => ExchangeInv
    BY ExchangeInvInit
<1>2. ExchangeInv /\ [ExchangeNext]_exchangeVars => ExchangeInv'
    <2> SUFFICES ASSUME ExchangeInv, [ExchangeNext]_exchangeVars PROVE ExchangeInv'
        OBVIOUS
    <2>1. CASE Read
        BY <2>1, ReadKeeps
    <2>2. CASE AnswerHeld
        BY <2>2, AnswerHeldKeeps
    <2>3. CASE Disconnect
        BY <2>3, DisconnectKeeps
    <2>4. CASE Write
        BY <2>4, WriteKeeps
    <2>5. CASE Again
        BY <2>5, AgainKeeps
    <2>6. CASE UNCHANGED exchangeVars
        BY <2>6 DEF exchangeVars, ExchangeInv, Received, Fitting
    <2> QED BY <2>1, <2>2, <2>3, <2>4, <2>5, <2>6 DEF ExchangeNext
<1>3. ExchangeInv => AnswerFits
    <2> SUFFICES ASSUME ExchangeInv PROVE AnswerFits
        OBVIOUS
    <2>1. phase = "reading" => Deserved(SubSeq(text, 1, fed)).kind = "wait"
        <3>1. SubSeq(text, 1, fed) \in Seq(STRING)
            BY DEF ExchangeInv
        <3> QED BY <3>1, WaitsInPlace DEF ExchangeInv, Received
    <2>2. got = [i \in 1 .. Len(got) |-> i]
        <3>1. Len(got) \in Nat /\ got = Places(0, Len(got))
            BY DEF ExchangeInv
        <3> DEFINE m == Len(got)
        <3> HIDE DEF m
        <3>2. m \in Nat => Places(0, m) = [i \in 1 .. m |-> i]
            BY DEF Places
        <3> QED BY <3>1, <3>2 DEF m
    <2> QED BY <2>1, <2>2 DEF AnswerFits, ExchangeInv, Received, Fitting
<1> QED BY <1>1, <1>2, <1>3, PTL DEF ExchangeSpec
=============================================================================
