------------------------ MODULE RequestParserProofs ------------------------
(***************************************************************************)
(* RequestParser finds the heads its input contains, for every input,      *)
(* every size of the header buffer and every way the input is split into   *)
(* reads.  The reference is a function of the whole input; the invariant   *)
(* IInv says, for each state of the parser, what of the reference is still *)
(* to be found and that no separator has been passed over.  The recursive  *)
(* functions of the reference are unfolded first, and the two readings of  *)
(* percent codes are shown to agree.                                       *)
(***************************************************************************)
EXTENDS RequestParser, SequenceTheorems, FiniteSetTheorems, TLAPS

-----------------------------------------------------------------------------
(* Numbers.  A set of naturals has a least element, and one that holds 0   *)
(* and every successor holds all of them.                                  *)
LEMMA LeastNatural ==
  ASSUME NEW T, T \subseteq Nat, T # {}
  PROVE  \E x \in T : \A y \in T : x <= y
  <1> DEFINE Upto(n) == 0 .. n
             C == {Upto(n) : n \in T}
             R == StrictSubsetOrdering(Nat)
  <1>1. C \subseteq FiniteSubsetsOf(Nat) /\ C # {}
    <2>1. \A n \in T : IsFiniteSet(0 .. n) /\ 0 .. n \subseteq Nat
      BY FS_Interval
    <2> QED BY <2>1 DEF FiniteSubsetsOf
  <1>2. PICK s \in C : \A t \in C : ~ (<<t, s>> \in R)
    <2>1. IsWellFoundedOn(R, FiniteSubsetsOf(Nat))
      BY FS_StrictSubsetOrderingWellFounded
    <2> HIDE DEF R, C
    <2> QED BY <1>1, <2>1, WFMin
  <1>3. PICK x \in T : s = Upto(x)
    OBVIOUS
  <1>4. ASSUME NEW y \in T, y < x PROVE FALSE
    <2>1. Upto(y) \in SUBSET Nat /\ Upto(x) \in SUBSET Nat
      OBVIOUS
    <2>2. Upto(y) \subseteq Upto(x) /\ x \in Upto(x) /\ x \notin Upto(y)
      BY <1>4
    <2>3. <<Upto(y), Upto(x)>> \in R
      BY <2>1, <2>2 DEF StrictSubsetOrdering
    <2> QED BY <1>2, <1>3, <2>3
  <1> QED BY <1>4

LEMMA Induction ==
  ASSUME NEW P, 0 \in P, \A n \in Nat : n \in P => n + 1 \in P
  PROVE  Nat \subseteq P
  <1> DEFINE T == Nat \ P
  <1>1. ASSUME T # {} PROVE FALSE
    <2>1. PICK x \in T : \A y \in T : x <= y
      BY <1>1, LeastNatural
    <2>2. x # 0 /\ x - 1 \in Nat
      OBVIOUS
    <2>3. x - 1 \in P
      BY <2>1, <2>2
    <2> QED BY <2>2, <2>3
  <1> QED BY <1>1


(* A part of a text.                                                       *)
LEMMA SubSeqFacts ==
  ASSUME NEW S, NEW s \in Seq(S), NEW i \in 1 .. Len(s) + 1, NEW j \in 0 .. Len(s)
  PROVE  /\ SubSeq(s, i, j) \in Seq(S)
         /\ Len(SubSeq(s, i, j)) = IF i <= j THEN j - i + 1 ELSE 0
         /\ \A k \in 1 .. j - i + 1 : SubSeq(s, i, j)[k] = s[i + k - 1]
  <1>1. Len(s) \in Nat /\ \A k \in 1 .. Len(s) : s[k] \in S
    BY SMTT(30)
  <1>2. i \in Int /\ j \in Int /\ \A k \in i .. j : s[k] \in S
    BY <1>1
  <1>3. \A k \in 1 .. j - i + 1 : SubSeq(s, i, j)[k] = s[k + i - 1]
        /\ k + i - 1 = i + k - 1
    BY <1>2, SubSeqProperties, SMTT(30)
  <1>4. /\ SubSeq(s, i, j) \in Seq(S)
        /\ Len(SubSeq(s, i, j)) = IF i <= j THEN j - i + 1 ELSE 0
    BY <1>2, SubSeqProperties, ZenonT(30)
  <1> QED BY <1>3, <1>4

(* The first of some characters: where FirstAt and Until look.             *)
First(s, c, from, e) ==
  e \in from .. Len(s) /\ s[e] = c /\ \A k \in from .. e - 1 : s[k] # c
None(s, c, from, to) == \A k \in from .. to : s[k] # c

LEMMA LeastOf ==
  ASSUME NEW T, T \subseteq Nat, NEW e \in T, \A j \in T : e <= j
  PROVE  (CHOOSE k \in T : \A j \in T : k <= j) = e
  <1> DEFINE m == CHOOSE k \in T : \A j \in T : k <= j
  <1>1. m \in T /\ \A j \in T : m <= j
    BY Zenon
  <1> HIDE DEF m
  <1>2. m <= e /\ e <= m /\ m \in Nat /\ e \in Nat
    BY <1>1
  <1>3. m = e
    BY <1>2
  <1> QED BY <1>3, Zenon DEF m

LEMMA FirstAtFacts ==
  ASSUME NEW S, NEW s \in Seq(S), NEW c, NEW from \in Nat \ {0}
  PROVE  /\ \/ FirstAt(s, c, from) = 0 /\ None(s, c, from, Len(s))
            \/ First(s, c, from, FirstAt(s, c, from))
         /\ None(s, c, from, Len(s)) => FirstAt(s, c, from) = 0
         /\ \A e \in Nat : First(s, c, from, e) => FirstAt(s, c, from) = e
  <1> DEFINE found == {k \in from .. Len(s) : s[k] = c}
  <1>1. FirstAt(s, c, from) =
          IF found = {} THEN 0 ELSE CHOOSE k \in found : \A j \in found : k <= j
    BY DEF FirstAt
  <1>2. Len(s) \in Nat /\ found \subseteq Nat
    OBVIOUS
  <1>3. found = {} <=> None(s, c, from, Len(s))
    BY DEF None
  <1>4. \A e \in found : (\A j \in found : e <= j) => First(s, c, from, e)
    <2> SUFFICES ASSUME NEW e \in found, \A j \in found : e <= j
                 PROVE  \A k \in from .. e - 1 : s[k] # c
      BY DEF First
    <2> SUFFICES ASSUME NEW k \in from .. e - 1, s[k] = c PROVE FALSE
      OBVIOUS
    <2>1. k \in found /\ ~ (e <= k)
      BY <1>2
    <2> QED BY <2>1
  <1>5. \A e \in Nat : First(s, c, from, e) => e \in found /\ \A j \in found : e <= j
    <2> SUFFICES ASSUME NEW e \in Nat, First(s, c, from, e)
                 PROVE  e \in found /\ \A j \in found : e <= j
      OBVIOUS
    <2>1. e \in found
      BY DEF First
    <2>2. ASSUME NEW j \in found, ~ (e <= j) PROVE FALSE
      <3>1. j \in from .. e - 1 /\ s[j] = c
        BY <1>2, <2>1, <2>2
      <3> QED BY <3>1 DEF First
    <2> QED BY <2>1, <2>2
  <1> HIDE DEF found
  <1>6. found # {} => \E e \in found : \A j \in found : e <= j
    BY <1>2, LeastNatural
  <1>7. \A e \in found : (\A j \in found : e <= j) => FirstAt(s, c, from) = e
    BY <1>1, <1>2, LeastOf
  <1> QED BY <1>2, <1>3, <1>4, <1>5, <1>6, <1>7, <1>1

-----------------------------------------------------------------------------
(* The headers of a head: HeadersFrom, which goes on after each line.      *)
LEMMA EndedLocal ==
  ASSUME NEW s, NEW k, NEW e, NEW g, NEW h, e # 0 /\ e # Len(s) => g[e + 2] = h[e + 2]
  PROVE  Ended(s, k, e, g) = Ended(s, k, e, h)
  BY DEF Ended, HeaderLine

LEMMA HeadersUnfold ==
  ASSUME NEW S, NEW s \in Seq(S), NEW k \in 1 .. Len(s) + 3
  PROVE  HeadersFrom(s)[k] = Ended(s, k, FirstAt(s, "cr", k), HeadersFrom(s))
  <1> DEFINE D == 1 .. Len(s) + 3
             Body(g) == [j \in D |-> Ended(s, j, FirstAt(s, "cr", j), g)]
             v == CHOOSE g : g = Body(g)
             Good(g, n) == \A j \in D : j > n => g[j] = Body(g)[j]
             P == {n \in Nat : n <= Len(s) + 3 => \E g : Good(g, Len(s) + 3 - n)}
  <1>1. Len(s) \in Nat
    OBVIOUS
  <1>2. \A j \in D : FirstAt(s, "cr", j) # 0 => FirstAt(s, "cr", j) \in j .. Len(s)
    BY FirstAtFacts DEF First
  <1>3. 0 \in P
    <2>1. Good(<<>>, Len(s) + 3)
      BY <1>1
    <2> HIDE DEF Good
    <2> QED BY <1>1, <2>1
  <1>4. ASSUME NEW n \in Nat, n \in P PROVE n + 1 \in P
    <2> SUFFICES ASSUME n + 1 <= Len(s) + 3 PROVE \E g : Good(g, Len(s) + 3 - (n + 1))
      OBVIOUS
    <2> DEFINE m == Len(s) + 3 - n
    <2>1. m \in D /\ Len(s) + 3 - (n + 1) = m - 1 /\ n <= Len(s) + 3
      BY <1>1
    <2>2. PICK g : Good(g, m)
      BY <1>4, <2>1
    <2> HIDE DEF m
    <2> DEFINE h == [j \in D |-> IF j = m THEN Ended(s, m, FirstAt(s, "cr", m), g) ELSE g[j]]
    <2>3. \A j \in D : j >= m => Body(h)[j] = Body(g)[j]
      <3> SUFFICES ASSUME NEW j \in D, j >= m PROVE Body(h)[j] = Body(g)[j]
        OBVIOUS
      <3> DEFINE e == FirstAt(s, "cr", j)
      <3>1. e # 0 /\ e # Len(s) => h[e + 2] = g[e + 2]
        <4> SUFFICES ASSUME e # 0, e # Len(s) PROVE h[e + 2] = g[e + 2]
          OBVIOUS
        <4>1. e \in j .. Len(s)
          BY <1>2
        <4> HIDE DEF e
        <4>2. e + 2 \in D /\ e + 2 # m
          BY <1>1, <2>1, <4>1
        <4> QED BY <4>2
      <3>2. Ended(s, j, e, h) = Ended(s, j, e, g)
        <4> HIDE DEF e, h
        <4> QED BY <3>1, EndedLocal
      <3> QED BY <3>2
    <2>4. \A j \in D : j > m - 1 => h[j] = Body(h)[j]
      <3> SUFFICES ASSUME NEW j \in D, j > m - 1 PROVE h[j] = Body(h)[j]
        OBVIOUS
      <3>1. Body(h)[j] = Body(g)[j]
        BY <2>1, <2>3
      <3>2. CASE j = m
        BY <2>1, <3>1, <3>2
      <3>3. CASE j # m
        <4>1. j > m
          BY <2>1, <3>3
        <4>2. g[j] = Body(g)[j]
          BY <2>2, <4>1, Zenon
        <4> QED BY <3>1, <3>3, <4>2, Zenon
      <3> QED BY <3>2, <3>3
    <2>5. Good(h, m - 1)
      BY <2>4, Zenon
    <2> HIDE DEF Good, h
    <2> QED BY <2>1, <2>5
  <1>5. Len(s) + 3 \in P
    <2> HIDE DEF P
    <2>1. Nat \subseteq P
      BY <1>3, <1>4, Induction
    <2> QED BY <1>1, <2>1
  <1>6. PICK g : \A j \in D : g[j] = Body(g)[j]
    <2>1. PICK g : Good(g, 0)
      BY <1>1, <1>5
    <2> QED BY <1>1, <2>1
  <1> DEFINE f == [j \in D |-> g[j]]
  <1>7. Body(f) = Body(g)
    <2> SUFFICES ASSUME NEW j \in D PROVE Body(f)[j] = Body(g)[j]
      BY Zenon
    <2> DEFINE e == FirstAt(s, "cr", j)
    <2>1. e # 0 /\ e # Len(s) => f[e + 2] = g[e + 2]
      <3> SUFFICES ASSUME e # 0 PROVE f[e + 2] = g[e + 2]
        OBVIOUS
      <3>1. e \in j .. Len(s)
        BY <1>2
      <3> HIDE DEF e
      <3>2. e + 2 \in D
        BY <1>1, <3>1
      <3> QED BY <3>2
    <2>2. Ended(s, j, e, f) = Ended(s, j, e, g)
      <3> HIDE DEF e, f
      <3> QED BY <2>1, EndedLocal
    <2> QED BY <2>2
  <1>8. f = Body(f)
    <2>1. f = Body(g)
      BY <1>6, Zenon
    <2> QED BY <1>7, <2>1, Zenon
  <1>9. v = Body(v)
    BY <1>8, Zenon
  <1>10. HeadersFrom(s) = v
    BY DEF HeadersFrom
  <1> HIDE DEF v
  <1> QED BY <1>9, <1>10

(* What kitserv makes of the parts of a head.                              *)
Text == Seq(Chars)
Field == Text \X Text
Ending(n) == [status : {0}, end : n, headers : Seq(Field)]

LEMMA AtFacts ==
  ASSUME NEW S, NEW s \in Seq(S), NEW c, Has(s, c)
  PROVE  First(s, c, 1, At(s, c))
  <1> DEFINE found == {k \in 1 .. Len(s) : s[k] = c}
             P(k) == s[k] = c /\ \A j \in 1 .. k - 1 : s[j] # c
  <1>1. Len(s) \in Nat /\ found \subseteq Nat /\ found # {}
    BY DEF Has
  <1>2. PICK k \in found : \A j \in found : k <= j
    BY <1>1, LeastNatural
  <1>3. k \in 1 .. Len(s) /\ P(k)
    BY <1>1, <1>2
  <1>4. At(s, c) = CHOOSE j \in 1 .. Len(s) : P(j)
    BY DEF At
  <1> HIDE DEF P
  <1>5. At(s, c) \in 1 .. Len(s) /\ P(At(s, c))
    BY <1>3, <1>4, Zenon
  <1> QED BY <1>5 DEF P, First

LEMMA PathFacts ==
  ASSUME NEW s \in Text
  PROVE  Path(s) \in Text /\ Query(s) \in Text
  <1>1. CASE Has(s, "?")
    <2>1. At(s, "?") \in 1 .. Len(s) /\ Len(s) \in Nat
      BY <1>1, AtFacts DEF First, Text
    <2>2. 1 \in 1 .. Len(s) + 1 /\ At(s, "?") - 1 \in 0 .. Len(s)
          /\ At(s, "?") + 1 \in 1 .. Len(s) + 1 /\ Len(s) \in 0 .. Len(s)
      BY <2>1
    <2> QED BY <1>1, <2>2, SubSeqFacts DEF Path, Query, Text
  <1>2. CASE ~ Has(s, "?")
    BY <1>2 DEF Path, Query, Text
  <1> QED BY <1>1, <1>2

LEMMA LineFacts ==
  ASSUME NEW s \in Text, ~ BadHeader(s)
  PROVE  <<Name(s), Value(s)>> \in Field
  <1>1. Has(s, ":")
    BY DEF BadHeader
  <1>2. At(s, ":") \in 1 .. Len(s) /\ Len(s) \in Nat
    BY <1>1, AtFacts DEF First, Text
  <1>3. 1 \in 1 .. Len(s) + 1 /\ At(s, ":") - 1 \in 0 .. Len(s)
        /\ At(s, ":") + 1 \in 1 .. Len(s) + 1 /\ Len(s) \in 0 .. Len(s)
    BY <1>2
  <1> DEFINE v == SubSeq(s, At(s, ":") + 1, Len(s))
             ink == {k \in 1 .. Len(v) : v[k] # "sp"}
             i == CHOOSE k \in ink : \A j \in ink : k <= j
  <1>4. Name(s) \in Text /\ v \in Text
    BY <1>3, SubSeqFacts DEF Name, Text
  <1>5. Value(s) = IF ink = {} THEN <<>> ELSE SubSeq(v, i, Len(v))
    BY DEF Value
  <1> HIDE DEF v
  <1>6. ink \subseteq Nat /\ ink \subseteq 1 .. Len(v)
    OBVIOUS
  <1> HIDE DEF ink
  <1>7. ink # {} => i \in ink
    BY <1>6, LeastNatural
  <1> HIDE DEF i
  <1>8. Len(v) \in Nat /\ <<>> \in Text
    BY <1>4 DEF Text
  <1>9. i \in ink => i \in 1 .. Len(v) + 1 /\ Len(v) \in 0 .. Len(v)
    BY <1>6, <1>8
  <1>10. i \in ink => SubSeq(v, i, Len(v)) \in Text
    BY <1>4, <1>9, SubSeqFacts DEF Text
  <1>11. Value(s) \in Text
    BY <1>5, <1>7, <1>8, <1>10
  <1> QED BY <1>4, <1>11 DEF Field

(* A header line read, and those after it.                                 *)
LEMMA ConsFacts ==
  ASSUME NEW line, <<Name(line), Value(line)>> \in Field, NEW n, NEW rest \in Ending(n)
  PROVE  /\ Cons(line, rest) \in Ending(n)
         /\ Cons(line, rest).status = 0 /\ Cons(line, rest).end = rest.end
         /\ Cons(line, rest).headers = <<<<Name(line), Value(line)>>>> \o rest.headers
  <1> DEFINE x == <<Name(line), Value(line)>>
  <1>1. rest.status = 0 /\ rest.end \in n /\ rest.headers \in Seq(Field)
        /\ rest = [status |-> 0, end |-> rest.end, headers |-> rest.headers]
    BY DEF Ending
  <1>2. Cons(line, rest) = [rest EXCEPT !.headers = <<x>> \o @]
    BY <1>1 DEF Cons
  <1> HIDE DEF x
  <1>3. <<x>> \o rest.headers \in Seq(Field)
    <2>1. <<x>> \in Seq(Field)
      BY DEF x
    <2> QED BY <1>1, <2>1, ConcatProperties
  <1>4. Cons(line, rest) = [status |-> 0, end |-> rest.end, headers |-> <<x>> \o rest.headers]
    BY <1>1, <1>2
  <1> QED BY <1>1, <1>3, <1>4 DEF Ending, x

(* What the headers from some line on come to.                             *)
Headers(s, k) ==
  {Incomplete, Error(400)} \union Ending({n \in 1 .. Len(s) + 1 : n >= k + 2})

LEMMA HeadersShape ==
  ASSUME NEW s \in Text, NEW k \in 1 .. Len(s) + 3
  PROVE  HeadersFrom(s)[k] \in Headers(s, k)
  <1> DEFINE n == Len(s) + 3
             H == HeadersFrom(s)
             P == {m \in Nat : \A j \in 1 .. n : j > n - m => H[j] \in Headers(s, j)}
  <1>1. Len(s) \in Nat /\ n \in Nat
    BY DEF Text
  <1>2. 0 \in P
    BY <1>1
  <1>3. ASSUME NEW m \in Nat, m \in P PROVE m + 1 \in P
    <2> SUFFICES ASSUME NEW j \in 1 .. n, j = n - m PROVE H[j] \in Headers(s, j)
      BY <1>1, <1>3
    <2> DEFINE e == FirstAt(s, "cr", j)
               line == Part(s, j, e)
    <2>1. H[j] = HeaderLine(s, j, e, line, H)
      BY HeadersUnfold DEF Ended, Text
    <2>2. e # 0 => e \in j .. Len(s)
      BY FirstAtFacts DEF First, Text
    <2>3. e # 0 /\ e # Len(s) => H[e + 2] \in Headers(s, e + 2)
      <3> SUFFICES ASSUME e # 0, e # Len(s) PROVE H[e + 2] \in Headers(s, e + 2)
        OBVIOUS
      <3>1. e \in j .. Len(s)
        BY <2>2
      <3> HIDE DEF e, H
      <3>2. e + 2 \in 1 .. n /\ e + 2 > n - m
        BY <1>1, <3>1
      <3> QED BY <1>3, <3>2
    <2>4. e # 0 => line \in Text
      <3> SUFFICES ASSUME e # 0 PROVE line \in Text
        OBVIOUS
      <3> HIDE DEF e
      <3>1. j \in 1 .. Len(s) + 1 /\ e - 1 \in 0 .. Len(s)
        BY <1>1, <2>2
      <3> QED BY <3>1, SubSeqFacts DEF Part, Text
    <2> HIDE DEF H, e, line, n
    <2>5. CASE H[j] \in {Incomplete, Error(400)}
      BY <2>5 DEF Headers
    <2>6. CASE e \in j .. Len(s) /\ e # 0 /\ e # Len(s) /\ e = j /\ H[j] = Blank(s, e)
      <3>1. e + 2 \in {i \in 1 .. Len(s) + 1 : i >= j + 2}
        BY <1>1, <2>6
      <3>2. <<>> \in Seq(Field)
        OBVIOUS
      <3>3. Blank(s, e) \in Ending({i \in 1 .. Len(s) + 1 : i >= j + 2})
        BY <3>1, <3>2 DEF Blank, Ending
      <3> QED BY <2>6, <3>3 DEF Headers
    <2>7. CASE /\ e \in j .. Len(s) /\ e # 0 /\ e # Len(s) /\ ~ BadHeader(line)
               /\ H[j] = Cons(line, H[e + 2])
      <3>1. CASE H[e + 2] \in {Incomplete, Error(400)}
        <4>1. H[e + 2].status # 0
          BY <3>1 DEF Incomplete, Error
        <4> QED BY <2>7, <3>1, <4>1 DEF Cons, Headers
      <3>2. CASE H[e + 2] \in Ending({i \in 1 .. Len(s) + 1 : i >= e + 2 + 2})
        <4>1. H[e + 2] \in Ending({i \in 1 .. Len(s) + 1 : i >= j + 2})
          <5>1. \A i \in 1 .. Len(s) + 1 : i >= e + 2 + 2 => i >= j + 2
            BY <1>1, <2>7
          <5> QED BY <3>2, <5>1 DEF Ending
        <4>2. <<Name(line), Value(line)>> \in Field
          BY <2>4, <2>7, LineFacts
        <4>3. Cons(line, H[e + 2]) \in Ending({i \in 1 .. Len(s) + 1 : i >= j + 2})
          BY <4>1, <4>2, ConsFacts, Zenon
        <4> QED BY <2>7, <4>3 DEF Headers
      <3> QED BY <2>3, <2>7, <3>1, <3>2 DEF Headers
    <2>8. \/ H[j] \in {Incomplete, Error(400)}
          \/ e # 0 /\ e # Len(s) /\ e = j /\ H[j] = Blank(s, e)
          \/ /\ e # 0 /\ e # Len(s) /\ e # j /\ ~ BadHeader(line)
             /\ H[j] = Cons(line, H[e + 2])
      BY <2>1, ZenonT(60) DEF HeaderLine
    <2> QED BY <2>2, <2>5, <2>6, <2>7, <2>8
  <1>4. n \in P
    <2> HIDE DEF P
    <2>1. Nat \subseteq P
      BY <1>2, <1>3, Induction
    <2> QED BY <1>1, <2>1
  <1> QED BY <1>1, <1>4

(* The headers read so far, and the rest of the head.                      *)
Made(t, h) ==
  IF h.status # 0 THEN h
  ELSE [status |-> 0, path |-> t.path, query |-> t.query, version |-> t.version,
        headers |-> t.headers \o h.headers, end |-> h.end]

LEMMA MadeFailed ==
  ASSUME NEW t, NEW h \in {Incomplete} \union {Error(c) : c \in {400, 431, 501, 505}}
  PROVE  h.status # 0 /\ Made(t, h) = h /\ \A line : Cons(line, h) = h
  <1>1. h.status # 0
    BY DEF Incomplete, Error
  <1> QED BY <1>1, ZenonT(60) DEF Made, Cons

-----------------------------------------------------------------------------
(* Percent codes: Decode, which reads them one after the other, and        *)
(* Decoded, which says what remains of a text, agree.                      *)
DecodeStep(s, k, D) ==
  CASE k > Len(s) -> <<>>
    [] k <= Len(s) /\ IsCode(s, k) ->
         LET x == Coded(s[k + 1], s[k + 2])
         IN  IF x = <<>> THEN <<>> ELSE x \o D[k + 3]
    [] OTHER -> <<s[k]>> \o D[k + 1]

DecodeFrom(s) == LET D[k \in 1 .. Len(s) + 1] == DecodeStep(s, k, D) IN D

LEMMA DecodeStepFacts ==
  ASSUME NEW s \in Text, NEW k \in 1 .. Len(s) + 1, NEW D
  PROVE  /\ k > Len(s) => DecodeStep(s, k, D) = <<>>
         /\ k <= Len(s) /\ ~ IsCode(s, k) => DecodeStep(s, k, D) = <<s[k]>> \o D[k + 1]
         /\ k <= Len(s) /\ IsCode(s, k) =>
              DecodeStep(s, k, D) = IF Coded(s[k + 1], s[k + 2]) = <<>> THEN <<>>
                                    ELSE Coded(s[k + 1], s[k + 2]) \o D[k + 3]
  <1>1. k \in Nat /\ Len(s) \in Nat
    BY DEF Text
  <1> DEFINE x == Coded(s[k + 1], s[k + 2])
             y == IF x = <<>> THEN <<>> ELSE x \o D[k + 3]
  <1>2. DecodeStep(s, k, D) = CASE k > Len(s) -> <<>>
                                [] k <= Len(s) /\ IsCode(s, k) -> y
                                [] OTHER -> <<s[k]>> \o D[k + 1]
    BY DEF DecodeStep
  <1> HIDE DEF x
  <1>3. CASE k > Len(s)
    <2>1. ~ (k <= Len(s))
      BY <1>1, <1>3
    <2> HIDE DEF y
    <2> QED BY <1>2, <1>3, <2>1, Zenon
  <1>4. CASE k <= Len(s)
    <2>1. ~ (k > Len(s))
      BY <1>1, <1>4
    <2>2. DecodeStep(s, k, D) = IF IsCode(s, k) THEN y ELSE <<s[k]>> \o D[k + 1]
      <3> HIDE DEF y
      <3> QED BY <1>2, <1>4, <2>1, Zenon
    <2> QED BY <2>1, <2>2 DEF x
  <1> QED BY <1>1, <1>3, <1>4

LEMMA IsCodeFacts ==
  ASSUME NEW s \in Text, NEW k \in 1 .. Len(s) + 1, IsCode(s, k)
  PROVE  /\ k + 2 <= Len(s) /\ s[k] = "%"
         /\ s[k + 1] \in Hex /\ s[k + 2] \in Hex
         /\ ~ IsCode(s, k + 1) /\ ~ IsCode(s, k + 2)
  <1>1. k + 2 <= Len(s) /\ s[k] = "%" /\ s[k + 1] \in Hex /\ s[k + 2] \in Hex
    BY DEF IsCode
  <1>2. s[k + 1] # "%" /\ s[k + 2] # "%"
    BY <1>1 DEF Hex
  <1> QED BY <1>1, <1>2 DEF IsCode

LEMMA DecodeLocal ==
  ASSUME NEW s \in Text, NEW k \in 1 .. Len(s) + 1, NEW g, NEW h,
         \A j \in k + 1 .. Len(s) + 1 : g[j] = h[j]
  PROVE  DecodeStep(s, k, g) = DecodeStep(s, k, h)
  <1>1. k \in Nat /\ Len(s) \in Nat
    BY DEF Text
  <1>2. CASE k > Len(s)
    BY <1>2, DecodeStepFacts
  <1>3. CASE k <= Len(s) /\ ~ IsCode(s, k)
    <2>1. k + 1 \in k + 1 .. Len(s) + 1
      BY <1>1, <1>3
    <2>2. g[k + 1] = h[k + 1]
      BY <2>1
    <2> QED BY <1>3, <2>2, DecodeStepFacts, ZenonT(60)
  <1>4. CASE k <= Len(s) /\ IsCode(s, k)
    <2>1. k + 3 \in k + 1 .. Len(s) + 1
      BY <1>1, <1>4, IsCodeFacts
    <2>2. g[k + 3] = h[k + 3]
      BY <2>1
    <2> QED BY <1>4, <2>2, DecodeStepFacts, ZenonT(60)
  <1> QED BY <1>1, <1>2, <1>3, <1>4

LEMMA DecodeUnfold ==
  ASSUME NEW s \in Text, NEW k \in 1 .. Len(s) + 1
  PROVE  DecodeFrom(s)[k] = DecodeStep(s, k, DecodeFrom(s))
  <1> DEFINE n == Len(s) + 1
             D == 1 .. n
             Body(g) == [j \in D |-> DecodeStep(s, j, g)]
             v == CHOOSE g : g = Body(g)
             Good(g, m) == \A j \in D : j > m => g[j] = Body(g)[j]
             P == {m \in Nat : m <= n => \E g : Good(g, n - m)}
  <1>1. Len(s) \in Nat /\ n \in Nat
    BY DEF Text
  <1>2. 0 \in P
    <2>1. Good(<<>>, n)
      BY <1>1
    <2> HIDE DEF Good, n
    <2> QED BY <1>1, <2>1
  <1>3. ASSUME NEW i \in Nat, i \in P PROVE i + 1 \in P
    <2> SUFFICES ASSUME i + 1 <= n PROVE \E g : Good(g, n - (i + 1))
      OBVIOUS
    <2> DEFINE m == n - i
    <2>1. m \in D /\ n - (i + 1) = m - 1 /\ i <= n
      BY <1>1
    <2>2. PICK g : Good(g, m)
      BY <1>3, <2>1
    <2> DEFINE h == [j \in D |-> IF j = m THEN DecodeStep(s, m, g) ELSE g[j]]
    <2> HIDE DEF m
    <2>3. \A j \in D : j >= m => Body(h)[j] = Body(g)[j]
      <3> SUFFICES ASSUME NEW j \in D, j >= m PROVE Body(h)[j] = Body(g)[j]
        OBVIOUS
      <3>1. \A q \in j + 1 .. Len(s) + 1 : h[q] = g[q]
        BY <1>1, <2>1
      <3>2. DecodeStep(s, j, h) = DecodeStep(s, j, g)
        <4> HIDE DEF h
        <4> QED BY <3>1, DecodeLocal
      <3> QED BY <3>2
    <2>4. \A j \in D : j > m - 1 => h[j] = Body(h)[j]
      <3> SUFFICES ASSUME NEW j \in D, j > m - 1 PROVE h[j] = Body(h)[j]
        OBVIOUS
      <3>1. Body(h)[j] = Body(g)[j]
        BY <1>1, <2>1, <2>3
      <3>2. CASE j = m
        BY <2>1, <3>1, <3>2
      <3>3. CASE j # m
        <4>1. j > m
          BY <1>1, <2>1, <3>3
        <4>2. g[j] = Body(g)[j]
          BY <2>2, <4>1, Zenon
        <4> QED BY <3>1, <3>3, <4>2, Zenon
      <3> QED BY <3>2, <3>3
    <2>5. Good(h, m - 1)
      BY <2>4, Zenon
    <2> HIDE DEF Good, h
    <2> QED BY <2>1, <2>5
  <1>4. n \in P
    <2> HIDE DEF P
    <2>1. Nat \subseteq P
      BY <1>2, <1>3, Induction
    <2> QED BY <1>1, <2>1
  <1>5. PICK g : \A j \in D : g[j] = Body(g)[j]
    <2>1. PICK g : Good(g, 0)
      BY <1>1, <1>4
    <2> QED BY <1>1, <2>1
  <1> DEFINE f == [j \in D |-> g[j]]
  <1>6. Body(f) = Body(g)
    <2> SUFFICES ASSUME NEW j \in D PROVE Body(f)[j] = Body(g)[j]
      BY Zenon
    <2>1. \A q \in j + 1 .. Len(s) + 1 : f[q] = g[q]
      BY <1>1
    <2>2. DecodeStep(s, j, f) = DecodeStep(s, j, g)
      <3> HIDE DEF f
      <3> QED BY <2>1, DecodeLocal
    <2> QED BY <2>2
  <1>7. f = Body(f)
    <2>1. f = Body(g)
      BY <1>5, Zenon
    <2> QED BY <1>6, <2>1, Zenon
  <1>8. v = Body(v)
    BY <1>7, Zenon
  <1>9. DecodeFrom(s) = v
    BY DEF DecodeFrom
  <1> HIDE DEF v
  <1> QED BY <1>8, <1>9

LEMMA CodedFacts ==
  ASSUME NEW a \in Hex, NEW b \in Hex
  PROVE  /\ Coded(a, b) = <<>> <=> a = "0" /\ b = "0"
         /\ Coded(a, b) # <<>> => \E c \in Chars : Coded(a, b) = <<c>>
  <1>1. \A c \in {"%", "sp", "u", "x"} : c \in Chars /\ <<c>> # <<>>
    BY DEF Chars
  <1>2. /\ (<<a, b>> = <<"2", "5">>) <=> (a = "2" /\ b = "5")
        /\ (<<a, b>> = <<"2", "0">>) <=> (a = "2" /\ b = "0")
        /\ (<<a, b>> = <<"0", "0">>) <=> (a = "0" /\ b = "0")
    OBVIOUS
  <1> DEFINE p25 == <<a, b>> = <<"2", "5">>
             p20 == <<a, b>> = <<"2", "0">>
             p00 == <<a, b>> = <<"0", "0">>
             p01 == a \in {"0", "1"} /\ <<a, b>> # <<"0", "0">>
  <1>3. Coded(a, b) = CASE p25 -> <<"%">> [] p20 -> <<"sp">> [] p00 -> <<>>
                        [] p01 -> <<"u">> [] OTHER -> <<"x">>
    BY DEF Coded
  <1>4. /\ p25 => ~ p20 /\ ~ p00 /\ ~ p01
        /\ p20 => ~ p00 /\ ~ p01
        /\ p00 => ~ p01
        /\ p00 <=> a = "0" /\ b = "0"
    BY <1>2
  <1> HIDE DEF p25, p20, p00, p01
  <1>5. CASE p25
    BY <1>1, <1>3, <1>4, <1>5
  <1>6. CASE p20
    BY <1>1, <1>3, <1>4, <1>6
  <1>7. CASE p00
    BY <1>1, <1>3, <1>4, <1>7
  <1>8. CASE p01
    BY <1>1, <1>3, <1>4, <1>8
  <1>9. CASE ~ p25 /\ ~ p20 /\ ~ p00 /\ ~ p01
    BY <1>1, <1>3, <1>4, <1>9
  <1> QED BY <1>5, <1>6, <1>7, <1>8, <1>9

(* The characters of a text that begin something of the decoded text, and  *)
(* how many of them come no later than a place.                            *)
Codes(s) == { k \in 1 .. Len(s) : IsCode(s, k) }
Nuls(s) == { k \in Codes(s) : s[k + 1] = "0" /\ s[k + 2] = "0" }
Kept(s) == { k \in 1 .. Len(s) : (\A c \in Codes(s) : k \notin {c + 1, c + 2})
                                 /\ \A n \in Nuls(s) : k < n }
Upto(s, k) == {j \in Kept(s) : j <= k}
Rank(s, k) == Cardinality(Upto(s, k))
NthKept(s, n) == CHOOSE k \in Kept(s) : Rank(s, k) = n
Item(s, k) == IF k \in Codes(s) THEN Coded(s[k + 1], s[k + 2])[1] ELSE s[k]

LEMMA RankFacts ==
  ASSUME NEW s \in Text
  PROVE  /\ \A k \in Nat : Rank(s, k) \in Nat
         /\ Rank(s, 0) = 0
         /\ \A k \in Nat \ {0} :
              Rank(s, k) = IF k \in Kept(s) THEN Rank(s, k - 1) + 1 ELSE Rank(s, k - 1)
         /\ \A j, k \in Nat : j <= k => Rank(s, j) <= Rank(s, k)
         /\ Cardinality(Kept(s)) = Rank(s, Len(s))
  <1>1. Len(s) \in Nat /\ Kept(s) \subseteq 1 .. Len(s)
    BY DEF Text, Kept
  <1>2. IsFiniteSet(1 .. Len(s))
    BY <1>1, FS_Interval
  <1>3. \A k \in Nat : IsFiniteSet(Upto(s, k))
    <2>1. \A k \in Nat : Upto(s, k) \in SUBSET (1 .. Len(s))
      BY <1>1 DEF Upto
    <2> QED BY <1>2, <2>1, FS_Subset
  <1>4. \A k \in Nat : Rank(s, k) \in Nat
    BY <1>3, FS_CardinalityType DEF Rank
  <1>5. Rank(s, 0) = 0
    <2>1. Upto(s, 0) = {}
      BY <1>1 DEF Upto
    <2> QED BY <2>1, FS_EmptySet DEF Rank
  <1>6. ASSUME NEW k \in Nat \ {0}
        PROVE  Rank(s, k) = IF k \in Kept(s) THEN Rank(s, k - 1) + 1 ELSE Rank(s, k - 1)
    <2>1. CASE k \in Kept(s)
      <3>1. Upto(s, k) = Upto(s, k - 1) \union {k} /\ k \notin Upto(s, k - 1)
        BY <1>1, <2>1 DEF Upto
      <3>2. IsFiniteSet(Upto(s, k - 1))
        BY <1>3
      <3> QED BY <2>1, <3>1, <3>2, FS_AddElement DEF Rank
    <2>2. CASE k \notin Kept(s)
      <3>1. Upto(s, k) = Upto(s, k - 1)
        BY <1>1, <2>2 DEF Upto
      <3> QED BY <2>2, <3>1 DEF Rank
    <2> QED BY <2>1, <2>2
  <1>7. ASSUME NEW j \in Nat, NEW k \in Nat, j <= k PROVE Rank(s, j) <= Rank(s, k)
    <2>1. Upto(s, j) \in SUBSET Upto(s, k)
      BY <1>1, <1>7 DEF Upto
    <2> QED BY <1>3, <2>1, FS_Subset DEF Rank
  <1>8. Cardinality(Kept(s)) = Rank(s, Len(s))
    <2>1. Upto(s, Len(s)) = Kept(s)
      BY <1>1 DEF Upto
    <2> QED BY <2>1 DEF Rank
  <1> QED BY <1>4, <1>5, <1>6, <1>7, <1>8

LEMMA NthKeptFacts ==
  ASSUME NEW s \in Text, NEW k \in Kept(s)
  PROVE  NthKept(s, Rank(s, k)) = k
  <1>1. Kept(s) \subseteq Nat \ {0}
    BY DEF Kept, Text
  <1>2. ASSUME NEW i \in Kept(s), NEW j \in Kept(s), i < j PROVE Rank(s, i) < Rank(s, j)
    <2>1. i \in Nat /\ j \in Nat \ {0} /\ j - 1 \in Nat /\ i <= j - 1
      BY <1>1, <1>2
    <2>2. Rank(s, i) <= Rank(s, j - 1) /\ Rank(s, j) = Rank(s, j - 1) + 1
          /\ Rank(s, i) \in Nat /\ Rank(s, j - 1) \in Nat
      BY <1>2, <2>1, RankFacts
    <2> QED BY <2>2
  <1> DEFINE m == NthKept(s, Rank(s, k))
  <1>3. m \in Kept(s) /\ Rank(s, m) = Rank(s, k)
    BY Zenon DEF NthKept
  <1> HIDE DEF m
  <1>4. Rank(s, m) \in Nat /\ Rank(s, k) \in Nat /\ m \in Nat /\ k \in Nat
    BY <1>1, <1>3, RankFacts
  <1>5. ~ (m < k) /\ ~ (k < m)
    BY <1>2, <1>3, <1>4
  <1>6. m = k
    BY <1>4, <1>5
  <1> QED BY <1>6 DEF m

LEMMA DecodedForm ==
  ASSUME NEW s \in Text
  PROVE  Decoded(s) = [n \in 1 .. Rank(s, Len(s)) |-> Item(s, NthKept(s, n))]
  <1>1. Decoded(s) = [n \in 1 .. Cardinality(Kept(s)) |->
            IF NthKept(s, n) \in Codes(s)
              THEN Coded(s[NthKept(s, n) + 1], s[NthKept(s, n) + 2])[1] ELSE s[NthKept(s, n)]]
    BY DEF Decoded, NthKept, Rank, Upto, Kept, Nuls, Codes
  <1>2. Cardinality(Kept(s)) = Rank(s, Len(s))
    BY RankFacts
  <1> QED BY <1>1, <1>2 DEF Item

(* A place outside of every code, with no code for NUL before it.          *)
Between(s, k) == (\A c \in Codes(s) : k \notin {c + 1, c + 2})
                 /\ \A n \in Nuls(s) : k <= n

(* What is decoded from such a place on.                                   *)
DecodedFrom(s, k, d) ==
  /\ d \in Text /\ Len(d) = Rank(s, Len(s)) - Rank(s, k - 1)
  /\ \A i \in 1 .. Len(d) : d[i] = Item(s, NthKept(s, i + Rank(s, k - 1)))

LEMMA OneMore ==
  ASSUME NEW s \in Text, NEW k \in Kept(s), NEW next \in k + 1 .. Len(s) + 1,
         NEW c \in Chars, Item(s, k) = c, NEW d, DecodedFrom(s, next, d),
         Rank(s, next - 1) = Rank(s, k)
  PROVE  DecodedFrom(s, k, <<c>> \o d)
  <1>1. Len(s) \in Nat /\ k \in 1 .. Len(s)
    BY DEF Text, Kept
  <1>2. /\ Rank(s, k) = Rank(s, k - 1) + 1
        /\ Rank(s, k) \in Nat /\ Rank(s, k - 1) \in Nat /\ Rank(s, Len(s)) \in Nat
    BY <1>1, RankFacts
  <1>3. /\ d \in Text /\ Len(d) = Rank(s, Len(s)) - Rank(s, k)
        /\ \A i \in 1 .. Len(d) : d[i] = Item(s, NthKept(s, i + Rank(s, k)))
    BY DEF DecodedFrom
  <1> DEFINE e == <<c>> \o d
  <1>4. /\ e \in Text /\ Len(e) = Len(d) + 1 /\ Len(d) \in Nat
        /\ e[1] = c /\ \A i \in 2 .. Len(d) + 1 : e[i] = d[i - 1]
    <2>1. <<c>> \in Text /\ Len(<<c>>) = 1 /\ <<c>>[1] = c
      BY DEF Text
    <2>2. Len(d) \in Nat
      BY <1>3 DEF Text
    <2>3. /\ e \in Text /\ Len(e) = 1 + Len(d)
          /\ \A i \in 1 .. 1 + Len(d) : e[i] = IF i <= 1 THEN <<c>>[i] ELSE d[i - 1]
      BY <1>3, <2>1, ConcatProperties, SMTT(60) DEF Text
    <2> QED BY <2>1, <2>2, <2>3
  <1> HIDE DEF e
  <1>5. NthKept(s, 1 + Rank(s, k - 1)) = k
    <2>1. 1 + Rank(s, k - 1) = Rank(s, k)
      BY <1>2
    <2> QED BY <2>1, NthKeptFacts
  <1>6. ASSUME NEW i \in 1 .. Len(e)
        PROVE  e[i] = Item(s, NthKept(s, i + Rank(s, k - 1)))
    <2>1. CASE i = 1
      BY <1>4, <1>5, <2>1
    <2>2. CASE i # 1
      <3>1. i \in 2 .. Len(d) + 1 /\ i - 1 \in 1 .. Len(d)
            /\ i - 1 + Rank(s, k) = i + Rank(s, k - 1)
        BY <1>2, <1>4, <2>2
      <3> QED BY <1>3, <1>4, <3>1
    <2> QED BY <2>1, <2>2
  <1>7. Len(e) = Rank(s, Len(s)) - Rank(s, k - 1)
    BY <1>2, <1>3, <1>4, SMTT(60)
  <1> QED BY <1>4, <1>6, <1>7 DEF DecodedFrom, e

LEMMA DecodeFromFacts ==
  ASSUME NEW s \in Text, NEW k \in 1 .. Len(s) + 1, Between(s, k),
         \A j \in k + 1 .. Len(s) + 1 : Between(s, j) => DecodedFrom(s, j, DecodeFrom(s)[j])
  PROVE  DecodedFrom(s, k, DecodeFrom(s)[k])
  <1> DEFINE D == DecodeFrom(s)
  <1>1. Len(s) \in Nat /\ k \in Nat /\ D[k] = DecodeStep(s, k, D) /\ <<>> \in Text
        /\ Len(<<>>) = 0
    BY DecodeUnfold DEF Text
  <1>2. /\ k > Len(s) => D[k] = <<>>
        /\ k <= Len(s) /\ ~ IsCode(s, k) => D[k] = <<s[k]>> \o D[k + 1]
        /\ k <= Len(s) /\ IsCode(s, k) =>
             D[k] = IF Coded(s[k + 1], s[k + 2]) = <<>> THEN <<>>
                    ELSE Coded(s[k + 1], s[k + 2]) \o D[k + 3]
    <2> HIDE DEF D
    <2> QED BY <1>1, DecodeStepFacts, ZenonT(60)
  <1>3. \A j \in k + 1 .. Len(s) + 1 : Between(s, j) => DecodedFrom(s, j, D[j])
    OBVIOUS
  <1> HIDE DEF D
  <1>4. Rank(s, Len(s)) \in Nat /\ Rank(s, k - 1) \in Nat
    <2>1. k - 1 \in Nat
      BY <1>1
    <2> QED BY <1>1, <2>1, RankFacts, Zenon
  <1>0. Rank(s, k - 1) = Rank(s, Len(s)) => DecodedFrom(s, k, <<>>)
    BY <1>1, <1>4 DEF DecodedFrom
  <1>5. CASE k > Len(s)
    <2>1. k - 1 = Len(s) /\ D[k] = <<>>
      BY <1>1, <1>2, <1>5
    <2> QED BY <1>0, <2>1, Zenon DEF D
  <1>6. CASE k <= Len(s) /\ ~ IsCode(s, k)
    <2>1. k \notin Codes(s) /\ k \in 1 .. Len(s)
      BY <1>6 DEF Codes
    <2>2. \A n \in Nuls(s) : n \in Codes(s) /\ n \in Nat
      BY DEF Nuls, Codes
    <2>3. \A n \in Nuls(s) : k < n /\ k + 1 <= n
      <3>1. \A n \in Nuls(s) : k <= n /\ n # k /\ n \in Nat
        BY <2>1, <2>2 DEF Between
      <3> QED BY <1>1, <3>1
    <2>4. k \in Kept(s)
      BY <2>1, <2>3 DEF Kept, Between
    <2>5. Between(s, k + 1)
      <3>1. \A c \in Codes(s) : c \in Nat /\ k + 1 \notin {c + 1, c + 2}
        <4>1. \A c \in Codes(s) : c \in Nat /\ c # k /\ k # c + 1
          BY <2>1 DEF Between, Codes
        <4> QED BY <1>1, <4>1
      <3> QED BY <2>3, <3>1 DEF Between
    <2>6. k + 1 \in k + 1 .. Len(s) + 1 /\ k + 1 - 1 = k
      BY <1>1, <1>6
    <2>7. DecodedFrom(s, k + 1, D[k + 1])
      BY <1>3, <2>5, <2>6
    <2>8. s[k] \in Chars /\ Item(s, k) = s[k]
      BY <2>1 DEF Item, Text
    <2>9. Rank(s, k + 1 - 1) = Rank(s, k)
      BY <2>6
    <2>10. DecodedFrom(s, k, <<s[k]>> \o D[k + 1])
      <3> DEFINE next == k + 1
      <3>1. next \in k + 1 .. Len(s) + 1 /\ DecodedFrom(s, next, D[next])
            /\ Rank(s, next - 1) = Rank(s, k)
        BY <2>6, <2>7, <2>9
      <3>2. DecodedFrom(s, k, <<s[k]>> \o D[next])
        <4> HIDE DEF next
        <4> QED BY <2>4, <2>8, <3>1, OneMore, Zenon
      <3> QED BY <3>2
    <2> QED BY <1>2, <1>6, <2>10, Zenon DEF D
  <1>7. CASE k <= Len(s) /\ IsCode(s, k)
    <2> DEFINE x == Coded(s[k + 1], s[k + 2])
    <2>1. /\ k + 2 <= Len(s) /\ s[k + 1] \in Hex /\ s[k + 2] \in Hex
          /\ ~ IsCode(s, k + 1) /\ ~ IsCode(s, k + 2)
          /\ k \in Codes(s)
      BY <1>7, IsCodeFacts DEF Codes
    <2>2. x = <<>> <=> k \in Nuls(s)
      BY <2>1, CodedFacts DEF Nuls
    <2>3. CASE x = <<>>
      <3>1. \A j \in Kept(s) : j \in Nat /\ j <= k - 1
        <4>1. \A j \in Kept(s) : j \in Nat /\ j < k
          BY <2>2, <2>3 DEF Kept
        <4> QED BY <1>1, <4>1
      <3>2. Upto(s, Len(s)) = Upto(s, k - 1)
        BY <1>1, <1>7, <3>1 DEF Upto
      <3>3. Rank(s, Len(s)) = Rank(s, k - 1)
        BY <3>2 DEF Rank
      <3>4. D[k] = <<>>
        BY <1>2, <1>7, <2>3
      <3> QED BY <1>0, <3>3, <3>4, Zenon DEF D
    <2>4. CASE x # <<>>
      <3>1. PICK c \in Chars : x = <<c>>
        BY <2>1, <2>4, CodedFacts
      <3>2. Item(s, k) = c
        BY <2>1, <3>1 DEF Item
      <3>3. D[k] = <<c>> \o D[k + 3]
        BY <1>2, <1>7, <2>4, <3>1
      <3>4. k + 1 \notin Codes(s) /\ k + 2 \notin Codes(s) /\ k \notin Nuls(s)
        BY <2>1, <2>2, <2>4 DEF Codes
      <3>5. \A n \in Nuls(s) : n \in Nat /\ k < n /\ k + 3 <= n
        <4>1. \A n \in Nuls(s) : n \in Nat /\ k <= n /\ n # k /\ n # k + 1 /\ n # k + 2
          BY <3>4 DEF Between, Nuls, Codes
        <4> QED BY <1>1, <4>1
      <3>6. k \in Kept(s)
        BY <1>1, <1>7, <3>5 DEF Kept, Between
      <3>7. Between(s, k + 3)
        <4>1. \A d \in Codes(s) : d \in Nat /\ d # k + 1 /\ d # k + 2
          BY <3>4 DEF Codes
        <4>2. \A d \in Codes(s) : k + 3 \notin {d + 1, d + 2}
          BY <1>1, <4>1
        <4> QED BY <3>5, <4>2 DEF Between
      <3>8. k + 1 \notin Kept(s) /\ k + 2 \notin Kept(s)
        BY <2>1 DEF Kept
      <3>9. Rank(s, k + 2) = Rank(s, k)
        <4>1. k + 1 \in Nat \ {0} /\ k + 2 \in Nat \ {0} /\ k + 1 - 1 = k /\ k + 2 - 1 = k + 1
          BY <1>1
        <4> QED BY <3>8, <4>1, RankFacts
      <3>10. k + 3 \in k + 1 .. Len(s) + 1 /\ k + 3 - 1 = k + 2
        BY <1>1, <2>1
      <3>11. DecodedFrom(s, k + 3, D[k + 3])
        BY <1>3, <3>7, <3>10
      <3>12. Rank(s, k + 3 - 1) = Rank(s, k)
        BY <3>9, <3>10
      <3>13. DecodedFrom(s, k, <<c>> \o D[k + 3])
        <4> DEFINE next == k + 3
        <4>1. next \in k + 1 .. Len(s) + 1 /\ DecodedFrom(s, next, D[next])
              /\ Rank(s, next - 1) = Rank(s, k)
          BY <3>10, <3>11, <3>12
        <4>2. DecodedFrom(s, k, <<c>> \o D[next])
          <5> HIDE DEF next
          <5> QED BY <3>2, <3>6, <4>1, OneMore, Zenon
        <4> QED BY <4>2
      <3> QED BY <3>3, <3>13, Zenon DEF D
    <2> QED BY <2>3, <2>4
  <1> QED BY <1>1, <1>5, <1>6, <1>7

LEMMA DecodeFacts ==
  ASSUME NEW s \in Text
  PROVE  Decode(s) = Decoded(s) /\ Decoded(s) \in Text
  <1> DEFINE n == Len(s) + 1
             D == DecodeFrom(s)
             Done(j) == Between(s, j) => DecodedFrom(s, j, D[j])
             P == {m \in Nat : \A j \in 1 .. n : j > n - m => Done(j)}
  <1>1. Len(s) \in Nat /\ n \in Nat
    BY DEF Text
  <1>2. 0 \in P
    <2> HIDE DEF Done
    <2> QED BY <1>1
  <1>3. ASSUME NEW m \in Nat, m \in P PROVE m + 1 \in P
    <2> SUFFICES ASSUME NEW j \in 1 .. n, j > n - (m + 1) PROVE Done(j)
      <3> HIDE DEF Done
      <3> QED OBVIOUS
    <2>1. \A i \in 1 .. n : i > n - m => Done(i)
      BY <1>3, Zenon
    <2>2. \A i \in j + 1 .. n : i \in 1 .. n /\ i > n - m
      BY <1>1
    <2>3. \A i \in j + 1 .. n : Done(i)
      BY <2>1, <2>2, Zenon
    <2>4. ASSUME Between(s, j) PROVE DecodedFrom(s, j, D[j])
      BY <2>3, <2>4, DecodeFromFacts
    <2> QED BY <2>4
  <1>4. n \in P
    <2> HIDE DEF P
    <2>1. Nat \subseteq P
      BY <1>2, <1>3, Induction
    <2> QED BY <1>1, <2>1
  <1>5. Done(1)
    <2> HIDE DEF Done
    <2> QED BY <1>1, <1>4
  <1>6. Between(s, 1)
    <2>1. \A c \in Codes(s) : c \in Nat /\ c >= 1
      BY DEF Codes
    <2> QED BY <2>1 DEF Between, Nuls
  <1>7. DecodedFrom(s, 1, D[1])
    BY <1>5, <1>6
  <1>8. Decode(s) = D[1]
    BY DEF Decode, DecodeFrom, DecodeStep
  <1> HIDE DEF D
  <1>9. /\ D[1] \in Text /\ Len(D[1]) = Rank(s, Len(s)) /\ Rank(s, Len(s)) \in Nat
        /\ \A i \in 1 .. Len(D[1]) : D[1][i] = Item(s, NthKept(s, i))
    <2>1. Rank(s, 1 - 1) = 0 /\ Rank(s, Len(s)) \in Nat
      BY <1>1, RankFacts
    <2> QED BY <1>7, <2>1 DEF DecodedFrom
  <1>10. D[1] = [i \in 1 .. Rank(s, Len(s)) |-> Item(s, NthKept(s, i))]
    <2>1. D[1] = [i \in 1 .. Len(D[1]) |-> D[1][i]]
      BY <1>9, LenProperties DEF Text
    <2> QED BY <1>9, <2>1, Zenon
  <1> QED BY <1>8, <1>9, <1>10, DecodedForm

-----------------------------------------------------------------------------
(* The head a text begins with, and all the heads of a text.               *)
Failure == {Error(c) : c \in {400, 431, 501, 505}}
Request == [status : {0}, path : Text, query : Text, version : {"0", "1"},
            headers : Seq(Field)]
Complete(n) == [status : {0}, path : Text, query : Text, version : {"0", "1"},
                headers : Seq(Field), end : n]
Result == Request \union Failure
Shape(n) == {Incomplete} \union Failure \union Complete(3 .. n + 1)

LEMMA WholeFacts ==
  ASSUME NEW w \in Text, NEW path \in Text, NEW k \in 1 .. Len(w) + 3,
         NEW version \in {<<"h", "1">>, <<"h", "0">>}
  PROVE  Whole(path, version, HeadersFrom(w)[k]) \in Shape(Len(w))
  <1> DEFINE h == HeadersFrom(w)[k]
             n == {j \in 1 .. Len(w) + 1 : j >= k + 2}
  <1>1. h \in {Incomplete, Error(400)} \union Ending(n)
    BY HeadersShape, ZenonT(60) DEF Headers
  <1> HIDE DEF h
  <1>2. CASE h \in {Incomplete, Error(400)}
    <2>1. h.status # 0
      BY <1>2 DEF Incomplete, Error
    <2>2. Whole(path, version, h) = h
      BY <2>1 DEF Whole
    <2> QED BY <1>2, <2>2 DEF Shape, Failure, h
  <1>3. CASE h \in Ending(n)
    <2>1. h.status = 0 /\ h.end \in n /\ h.headers \in Seq(Field)
      BY <1>3 DEF Ending
    <2>2. h.end \in 3 .. Len(w) + 1
      BY <2>1 DEF Text
    <2>3. version[2] \in {"0", "1"}
      OBVIOUS
    <2>4. Decoded(Path(path)) \in Text /\ Decoded(Query(path)) \in Text
      BY PathFacts, DecodeFacts
    <2>5. Whole(path, version, h) =
            [status |-> 0, path |-> Decoded(Path(path)), query |-> Decoded(Query(path)),
             version |-> version[2], headers |-> h.headers, end |-> h.end]
      BY <2>1 DEF Whole
    <2>6. Whole(path, version, h) \in Complete(3 .. Len(w) + 1)
      BY <2>1, <2>2, <2>3, <2>4, <2>5 DEF Complete
    <2> QED BY <2>6 DEF Shape, h
  <1> QED BY <1>1, <1>2, <1>3

LEMMA HeadShape ==
  ASSUME NEW w \in Text
  PROVE  HeadOf(w) \in Shape(Len(w))
  <1> DEFINE a == FirstAt(w, "sp", 1)
             b == FirstAt(w, "sp", a + 1)
             path == Part(w, a + 1, b)
             c == FirstAt(w, "cr", b + 1)
             version == Part(w, b + 1, c)
  <1>1. Len(w) \in Nat
    BY DEF Text
  <1>2. a = 0 \/ a \in 1 .. Len(w)
    BY FirstAtFacts DEF First, Text
  <1>3. a # 0 => b = 0 \/ b \in a + 1 .. Len(w)
    <2> SUFFICES ASSUME a # 0 PROVE b = 0 \/ b \in a + 1 .. Len(w)
      OBVIOUS
    <2>1. a + 1 \in Nat \ {0}
      BY <1>2
    <2> QED BY <2>1, FirstAtFacts DEF First, Text
  <1>4. a # 0 /\ b # 0 => c = 0 \/ c \in b + 1 .. Len(w)
    <2> SUFFICES ASSUME a # 0, b # 0 PROVE c = 0 \/ c \in b + 1 .. Len(w)
      OBVIOUS
    <2>1. b + 1 \in Nat \ {0}
      BY <1>2, <1>3
    <2> QED BY <2>1, FirstAtFacts DEF First, Text
  <1>5. /\ HeadOf(w) = Methoded(w, a, b)
        /\ Pathed(w, path, b) = IF b = 0 THEN Incomplete
                                ELSE IF BadPath(path) THEN Error(400)
                                ELSE StartLine(w, path, version, c)
    BY DEF HeadOf, From, Pathed, Versioned
  <1>6. a # 0 /\ b # 0 => path \in Text
    <2> SUFFICES ASSUME a # 0, b # 0 PROVE path \in Text
      OBVIOUS
    <2> HIDE DEF a, b
    <2>1. a + 1 \in 1 .. Len(w) + 1 /\ b - 1 \in 0 .. Len(w)
      BY <1>1, <1>2, <1>3
    <2> QED BY <2>1, SubSeqFacts DEF Part, Text
  <1>7. \A q : Methoded(w, a, b) = q =>
          \/ q \in {Incomplete, Error(501)}
          \/ a # 0 /\ q = Pathed(w, path, b)
    BY DEF Methoded
  <1> HIDE DEF path, version
  <1>8. \A q : StartLine(w, path, version, c) = q =>
          \/ q \in {Incomplete, Error(400), Error(505)}
          \/ c # 0 /\ version \in {<<"h", "1">>, <<"h", "0">>}
             /\ q = Whole(path, version, HeadersFrom(w)[c + 2])
    <2> HIDE DEF a, b, c
    <2> QED BY ZenonT(60) DEF StartLine
  <1> HIDE DEF a, b, c
  <1>9. {Incomplete, Error(400), Error(501), Error(505)} \subseteq Shape(Len(w))
    BY DEF Shape, Failure
  <1>10. CASE a # 0 /\ b # 0 /\ c # 0 /\ version \in {<<"h", "1">>, <<"h", "0">>}
              /\ HeadOf(w) = Whole(path, version, HeadersFrom(w)[c + 2])
    <2>1. c + 2 \in 1 .. Len(w) + 3
      BY <1>1, <1>2, <1>3, <1>4, <1>10
    <2> QED BY <1>6, <1>10, <2>1, WholeFacts
  <1>11. \/ HeadOf(w) \in {Incomplete, Error(501)}
         \/ a # 0 /\ HeadOf(w) = Pathed(w, path, b)
    BY <1>5, <1>7, ZenonT(60)
  <1>12. CASE a # 0 /\ HeadOf(w) = Pathed(w, path, b)
    <2>1. \/ HeadOf(w) \in {Incomplete, Error(400)}
          \/ b # 0 /\ HeadOf(w) = StartLine(w, path, version, c)
      BY <1>5, <1>12, ZenonT(60)
    <2>2. CASE b # 0 /\ HeadOf(w) = StartLine(w, path, version, c)
      <3>1. \/ HeadOf(w) \in {Incomplete, Error(400), Error(505)}
            \/ c # 0 /\ version \in {<<"h", "1">>, <<"h", "0">>}
               /\ HeadOf(w) = Whole(path, version, HeadersFrom(w)[c + 2])
        BY <1>8, <2>2, ZenonT(60)
      <3> QED BY <1>9, <1>10, <1>12, <2>2, <3>1
    <2> QED BY <1>9, <2>1, <2>2
  <1> QED BY <1>9, <1>11, <1>12

Window(s) == SubSeq(s, 1, IF Len(s) < BufSz THEN Len(s) ELSE BufSz)

LEMMA WindowFacts ==
  ASSUME NEW s \in Text
  PROVE  /\ Window(s) \in Text
         /\ Len(Window(s)) = IF Len(s) < BufSz THEN Len(s) ELSE BufSz
         /\ \A k \in 1 .. Len(Window(s)) : Window(s)[k] = s[k]
  <1>1. Len(s) \in Nat /\ BufSz \in Nat
    BY InputAssumption DEF Text
  <1> DEFINE n == IF Len(s) < BufSz THEN Len(s) ELSE BufSz
  <1>2. n \in 0 .. Len(s) /\ 1 \in 1 .. Len(s) + 1 /\ n \in Nat
    BY <1>1
  <1>3. Window(s) = SubSeq(s, 1, n)
    BY DEF Window
  <1> HIDE DEF n
  <1>4. /\ SubSeq(s, 1, n) \in Text
        /\ Len(SubSeq(s, 1, n)) = IF 1 <= n THEN n - 1 + 1 ELSE 0
        /\ \A k \in 1 .. n - 1 + 1 : SubSeq(s, 1, n)[k] = s[1 + k - 1]
    BY <1>2, SubSeqFacts DEF Text
  <1>5. Len(SubSeq(s, 1, n)) = n /\ \A k \in 1 .. n : SubSeq(s, 1, n)[k] = s[k]
    <2>1. n - 1 + 1 = n /\ \A k \in 1 .. n : 1 + k - 1 = k
      BY <1>2
    <2> QED BY <1>2, <1>4, <2>1
  <1> QED BY <1>3, <1>4, <1>5 DEF n

LEMMA LimitedFacts ==
  ASSUME NEW s \in Text
  PROVE  /\ Limited(s) \in Shape(Len(s))
         /\ HeadOf(Window(s)) # Incomplete => Limited(s) = HeadOf(Window(s))
         /\ HeadOf(Window(s)) = Incomplete =>
              Limited(s) = IF Len(s) >= BufSz THEN Error(431) ELSE Incomplete
  <1>1. Len(s) \in Nat /\ BufSz \in Nat
    BY InputAssumption DEF Text
  <1> DEFINE h == HeadOf(Window(s))
  <1>2. h \in Shape(Len(Window(s))) /\ Len(Window(s)) \in Nat /\ Len(Window(s)) <= Len(s)
    BY <1>1, WindowFacts, HeadShape, SMTT(60) DEF Text
  <1>3. h \in Shape(Len(s))
    <2>1. 3 .. Len(Window(s)) + 1 \subseteq 3 .. Len(s) + 1
      BY <1>1, <1>2
    <2>2. Complete(3 .. Len(Window(s)) + 1) \subseteq Complete(3 .. Len(s) + 1)
      BY <2>1 DEF Complete
    <2> QED BY <1>2, <2>2 DEF Shape
  <1>4. Limited(s) = IF h.status = -1 /\ Len(s) >= BufSz THEN Error(431) ELSE h
    BY DEF Limited, Refused, Window
  <1> HIDE DEF h
  <1>5. Incomplete.status = -1 /\ h # Incomplete => h.status # -1
    <2>1. Incomplete.status = -1
      BY DEF Incomplete
    <2>2. \A f \in Failure : f.status # -1
      BY DEF Failure, Error
    <2>3. \A c \in Complete(3 .. Len(s) + 1) : c.status # -1
      BY DEF Complete
    <2> QED BY <1>3, <2>1, <2>2, <2>3 DEF Shape
  <1>6. Error(431) \in Shape(Len(s))
    BY DEF Shape, Failure
  <1>7. Incomplete.status = -1
    BY DEF Incomplete
  <1> QED BY <1>3, <1>4, <1>5, <1>6, <1>7 DEF h

(* All the heads of a text, from one place on.                             *)
HeadsStep(s, k, A) == Then(Limited(SubSeq(s, k, Len(s))), k, A)
AllHeads(s) == LET A[k \in 1 .. Len(s) + 1] == HeadsStep(s, k, A) IN A

LEMMA RestFacts ==
  ASSUME NEW s \in Text, NEW k \in 1 .. Len(s) + 1
  PROVE  /\ SubSeq(s, k, Len(s)) \in Text
         /\ Len(SubSeq(s, k, Len(s))) = Len(s) - k + 1
         /\ \A j \in 1 .. Len(s) - k + 1 : SubSeq(s, k, Len(s))[j] = s[k + j - 1]
  <1>1. Len(s) \in Nat
    BY DEF Text
  <1>2. Len(s) \in 0 .. Len(s)
    BY <1>1
  <1>3. /\ SubSeq(s, k, Len(s)) \in Text
        /\ Len(SubSeq(s, k, Len(s))) = IF k <= Len(s) THEN Len(s) - k + 1 ELSE 0
        /\ \A j \in 1 .. Len(s) - k + 1 : SubSeq(s, k, Len(s))[j] = s[k + j - 1]
    BY <1>2, SubSeqFacts DEF Text
  <1> QED BY <1>1, <1>3

LEMMA HeadsStepFacts ==
  ASSUME NEW s \in Text, NEW k \in 1 .. Len(s) + 1
  PROVE  \E h \in Shape(Len(s) - k + 1) :
           /\ h = Limited(SubSeq(s, k, Len(s)))
           /\ \A A : HeadsStep(s, k, A) = Then(h, k, A)
           /\ h \in Complete(3 .. Len(s) - k + 1 + 1) =>
                k + h.end - 1 \in k + 1 .. Len(s) + 1
  <1>1. Len(s) \in Nat
    BY DEF Text
  <1> DEFINE h == Limited(SubSeq(s, k, Len(s)))
  <1>2. h \in Shape(Len(s) - k + 1)
    BY RestFacts, LimitedFacts
  <1>3. \A A : HeadsStep(s, k, A) = Then(h, k, A)
    BY DEF HeadsStep
  <1> HIDE DEF h
  <1>4. ASSUME h \in Complete(3 .. Len(s) - k + 1 + 1)
        PROVE  k + h.end - 1 \in k + 1 .. Len(s) + 1
    <2>1. h.end \in 3 .. Len(s) - k + 1 + 1
      BY <1>4 DEF Complete
    <2> QED BY <1>1, <2>1
  <1> QED BY <1>2, <1>3, <1>4 DEF h

LEMMA ThenFacts ==
  ASSUME NEW h, NEW n, h \in Shape(n), NEW k, NEW A
  PROVE  /\ h = Incomplete => Then(h, k, A) = <<>>
         /\ h \in Failure => Then(h, k, A) = <<h>> /\ h \in Result
         /\ h \in Complete(3 .. n + 1) =>
              Then(h, k, A) = <<Strip(h)>> \o A[k + h.end - 1] /\ Strip(h) \in Result
  <1>1. h = Incomplete => h.status = -1
    BY DEF Incomplete
  <1>2. h \in Failure => h.status \in {400, 431, 501, 505} /\ h \in Result
    BY DEF Failure, Error, Result
  <1>3. h \in Complete(3 .. n + 1) => h.status = 0 /\ Strip(h) \in Result
    BY DEF Complete, Strip, Result, Request
  <1> QED BY <1>1, <1>2, <1>3, SMTT(60) DEF Then

LEMMA HeadsLocal ==
  ASSUME NEW s \in Text, NEW k \in 1 .. Len(s) + 1, NEW g, NEW h,
         \A j \in k + 1 .. Len(s) + 1 : g[j] = h[j]
  PROVE  HeadsStep(s, k, g) = HeadsStep(s, k, h)
  <1>1. PICK x \in Shape(Len(s) - k + 1) :
           /\ \A A : HeadsStep(s, k, A) = Then(x, k, A)
           /\ x \in Complete(3 .. Len(s) - k + 1 + 1) => k + x.end - 1 \in k + 1 .. Len(s) + 1
    BY HeadsStepFacts, Zenon
  <1>2. CASE x \in Complete(3 .. Len(s) - k + 1 + 1)
    <2>1. g[k + x.end - 1] = h[k + x.end - 1]
      BY <1>1, <1>2
    <2> QED BY <1>1, <1>2, <2>1, ThenFacts, ZenonT(60)
  <1>3. CASE x \notin Complete(3 .. Len(s) - k + 1 + 1)
    <2>1. x = Incomplete \/ x \in Failure
      BY <1>1, <1>3 DEF Shape
    <2> QED BY <1>1, <2>1, ThenFacts, ZenonT(60)
  <1> QED BY <1>2, <1>3

LEMMA HeadsUnfold ==
  ASSUME NEW s \in Text, NEW k \in 1 .. Len(s) + 1
  PROVE  AllHeads(s)[k] = HeadsStep(s, k, AllHeads(s))
  <1> DEFINE n == Len(s) + 1
             D == 1 .. n
             Body(g) == [j \in D |-> HeadsStep(s, j, g)]
             v == CHOOSE g : g = Body(g)
             Good(g, m) == \A j \in D : j > m => g[j] = Body(g)[j]
             P == {m \in Nat : m <= n => \E g : Good(g, n - m)}
  <1>1. Len(s) \in Nat /\ n \in Nat
    BY DEF Text
  <1>2. 0 \in P
    <2>1. Good(<<>>, n)
      BY <1>1
    <2> HIDE DEF Good, n
    <2> QED BY <1>1, <2>1
  <1>3. ASSUME NEW i \in Nat, i \in P PROVE i + 1 \in P
    <2> SUFFICES ASSUME i + 1 <= n PROVE \E g : Good(g, n - (i + 1))
      OBVIOUS
    <2> DEFINE m == n - i
    <2>1. m \in D /\ n - (i + 1) = m - 1 /\ i <= n
      BY <1>1
    <2>2. PICK g : Good(g, m)
      BY <1>3, <2>1
    <2> DEFINE h == [j \in D |-> IF j = m THEN HeadsStep(s, m, g) ELSE g[j]]
    <2> HIDE DEF m
    <2>3. \A j \in D : j >= m => Body(h)[j] = Body(g)[j]
      <3> SUFFICES ASSUME NEW j \in D, j >= m PROVE Body(h)[j] = Body(g)[j]
        OBVIOUS
      <3>1. \A q \in j + 1 .. Len(s) + 1 : h[q] = g[q]
        BY <1>1, <2>1
      <3>2. HeadsStep(s, j, h) = HeadsStep(s, j, g)
        <4> HIDE DEF h
        <4> QED BY <3>1, HeadsLocal
      <3> QED BY <3>2
    <2>4. \A j \in D : j > m - 1 => h[j] = Body(h)[j]
      <3> SUFFICES ASSUME NEW j \in D, j > m - 1 PROVE h[j] = Body(h)[j]
        OBVIOUS
      <3>1. Body(h)[j] = Body(g)[j]
        BY <1>1, <2>1, <2>3
      <3>2. CASE j = m
        BY <2>1, <3>1, <3>2
      <3>3. CASE j # m
        <4>1. j > m
          BY <1>1, <2>1, <3>3
        <4>2. g[j] = Body(g)[j]
          BY <2>2, <4>1, Zenon
        <4> QED BY <3>1, <3>3, <4>2, Zenon
      <3> QED BY <3>2, <3>3
    <2>5. Good(h, m - 1)
      BY <2>4, Zenon
    <2> HIDE DEF Good, h
    <2> QED BY <2>1, <2>5
  <1>4. n \in P
    <2> HIDE DEF P
    <2>1. Nat \subseteq P
      BY <1>2, <1>3, Induction
    <2> QED BY <1>1, <2>1
  <1>5. PICK g : \A j \in D : g[j] = Body(g)[j]
    <2>1. PICK g : Good(g, 0)
      BY <1>1, <1>4
    <2> QED BY <1>1, <2>1
  <1> DEFINE f == [j \in D |-> g[j]]
  <1>6. Body(f) = Body(g)
    <2> SUFFICES ASSUME NEW j \in D PROVE Body(f)[j] = Body(g)[j]
      BY Zenon
    <2>1. \A q \in j + 1 .. Len(s) + 1 : f[q] = g[q]
      BY <1>1
    <2>2. HeadsStep(s, j, f) = HeadsStep(s, j, g)
      <3> HIDE DEF f
      <3> QED BY <2>1, HeadsLocal
    <2> QED BY <2>2
  <1>7. f = Body(f)
    <2>1. f = Body(g)
      BY <1>5, Zenon
    <2> QED BY <1>6, <2>1, Zenon
  <1>8. v = Body(v)
    BY <1>7, Zenon
  <1>9. AllHeads(s) = v
    BY DEF AllHeads
  <1> HIDE DEF v
  <1> QED BY <1>8, <1>9

LEMMA AllHeadsFacts ==
  ASSUME NEW s \in Text, NEW k \in 1 .. Len(s) + 1
  PROVE  LET h == Limited(SubSeq(s, k, Len(s)))
             A == AllHeads(s)
         IN  /\ h \in Shape(Len(s) - k + 1)
             /\ h = Incomplete => A[k] = <<>>
             /\ h \in Failure => A[k] = <<h>> /\ h \in Result
             /\ h \in Complete(3 .. Len(s) - k + 1 + 1) =>
                  /\ A[k] = <<Strip(h)>> \o A[k + h.end - 1]
                  /\ Strip(h) \in Result
                  /\ k + h.end - 1 \in k + 1 .. Len(s) + 1
  <1> DEFINE h == Limited(SubSeq(s, k, Len(s)))
             A == AllHeads(s)
             n == Len(s) - k + 1
  <1>1. /\ h \in Shape(n) /\ HeadsStep(s, k, A) = Then(h, k, A)
        /\ h \in Complete(3 .. n + 1) => k + h.end - 1 \in k + 1 .. Len(s) + 1
    BY HeadsStepFacts, Zenon
  <1>2. A[k] = HeadsStep(s, k, A)
    BY HeadsUnfold, Zenon
  <1> HIDE DEF h, A, n
  <1>3. /\ h = Incomplete => A[k] = <<>>
        /\ h \in Failure => A[k] = <<h>> /\ h \in Result
        /\ h \in Complete(3 .. n + 1) =>
             A[k] = <<Strip(h)>> \o A[k + h.end - 1] /\ Strip(h) \in Result
    BY <1>1, <1>2, ThenFacts, Zenon
  <1> QED BY <1>1, <1>3, Zenon DEF h, A, n

LEMMA FailureHeads ==
  ASSUME NEW s \in Text, NEW k \in 1 .. Len(s) + 1, NEW h \in Failure,
         h = Limited(SubSeq(s, k, Len(s)))
  PROVE  AllHeads(s)[k] = <<h>> /\ h \in Result
  BY AllHeadsFacts, Zenon

LEMMA CompleteHeads ==
  ASSUME NEW s \in Text, NEW k \in 1 .. Len(s) + 1, NEW h,
         h \in Complete(3 .. Len(s) - k + 1 + 1),
         h = Limited(SubSeq(s, k, Len(s)))
  PROVE  /\ AllHeads(s)[k] = <<Strip(h)>> \o AllHeads(s)[k + h.end - 1]
         /\ Strip(h) \in Result /\ k + h.end - 1 \in k + 1 .. Len(s) + 1
  BY AllHeadsFacts, Zenon

LEMMA AllHeadsSeq ==
  ASSUME NEW s \in Text, NEW k \in 1 .. Len(s) + 1
  PROVE  AllHeads(s)[k] \in Seq(Result)
  <1> DEFINE n == Len(s) + 1
             A == AllHeads(s)
             P == {m \in Nat : \A j \in 1 .. n : j > n - m => A[j] \in Seq(Result)}
  <1>1. Len(s) \in Nat /\ n \in Nat
    BY DEF Text
  <1>2. 0 \in P
    BY <1>1
  <1>3. ASSUME NEW m \in Nat, m \in P PROVE m + 1 \in P
    <2> SUFFICES ASSUME NEW j \in 1 .. n, j > n - (m + 1) PROVE A[j] \in Seq(Result)
      OBVIOUS
    <2>1. \A i \in j + 1 .. n : A[i] \in Seq(Result)
      BY <1>1, <1>3
    <2> DEFINE h == Limited(SubSeq(s, j, Len(s)))
               l == Len(s) - j + 1
    <2>2. /\ h \in Shape(l)
          /\ h = Incomplete => A[j] = <<>>
          /\ h \in Failure => A[j] = <<h>> /\ h \in Result
          /\ h \in Complete(3 .. l + 1) =>
               /\ A[j] = <<Strip(h)>> \o A[j + h.end - 1]
               /\ Strip(h) \in Result
               /\ j + h.end - 1 \in j + 1 .. Len(s) + 1
      BY AllHeadsFacts, Zenon
    <2> HIDE DEF A, h, l
    <2>3. CASE h = Incomplete
      <3>1. <<>> \in Seq(Result)
        OBVIOUS
      <3> QED BY <2>2, <2>3, <3>1, Zenon
    <2>4. CASE h \in Failure
      <3>1. \A x \in Result : <<x>> \in Seq(Result)
        OBVIOUS
      <3> QED BY <2>2, <2>4, <3>1, Zenon
    <2>5. CASE h \in Complete(3 .. l + 1)
      <3>1. A[j + h.end - 1] \in Seq(Result)
        BY <2>1, <2>2, <2>5
      <3>2. <<Strip(h)>> \in Seq(Result)
        BY <2>2, <2>5
      <3> QED BY <2>2, <2>5, <3>1, <3>2, ConcatProperties, ZenonT(60)
    <2> QED BY <2>2, <2>3, <2>4, <2>5 DEF Shape
  <1>4. n \in P
    <2> HIDE DEF P
    <2>1. Nat \subseteq P
      BY <1>2, <1>3, Induction
    <2> QED BY <1>1, <2>1
  <1> HIDE DEF A
  <1>5. A[k] \in Seq(Result)
    BY <1>1, <1>4
  <1> QED BY <1>5 DEF A

LEMMA HeadsOfIs ==
  ASSUME NEW s PROVE HeadsOf(s) = AllHeads(s)[1]
  BY DEF HeadsOf, AllHeads, HeadsStep

-----------------------------------------------------------------------------
(* What of the reference is still to be found in a state of the parser: the *)
(* window is as much of the rest of the input as fits in the buffer, t the *)
(* saved fields, i the start of the block and j the iterator.  No separator *)
(* has been passed over, and the head the window begins with is what the   *)
(* fields come to with the head from here on.                              *)
LineEnd(w, e, x) ==
  IF e = Len(w) THEN Incomplete ELSE IF w[e + 1] # "lf" THEN Error(400) ELSE x

AtMethod(w, t, i, j) == i = 0 /\ j >= 0 /\ None(w, "sp", 1, j) /\ t.headers = <<>>
AtPath(w, t, i, j) ==
  /\ i >= 0 /\ i <= j /\ None(w, "sp", i + 1, j) /\ t.headers = <<>>
  /\ HeadOf(w) = Pathed(w, Part(w, i + 1, FirstAt(w, "sp", i + 1)), FirstAt(w, "sp", i + 1))
AtVersion(w, t, i, j) ==
  /\ i >= 0 /\ i <= j /\ None(w, "cr", i + 1, j) /\ t.headers = <<>>
  /\ \E a \in 1 .. i :
       /\ Part(w, a, i) \in Text
       /\ t.path = Decoded(Path(Part(w, a, i))) /\ t.query = Decoded(Query(Part(w, a, i)))
       /\ HeadOf(w) = Versioned(w, Part(w, a, i), i, FirstAt(w, "cr", i + 1))
AtVersionLF(w, t, i, j) ==
  /\ i >= 0 /\ i = j
  /\ HeadOf(w) = LineEnd(w, i, Made(t, HeadersFrom(w)[i + 2]))
AtHead(w, t, i, j) ==
  /\ i >= 0 /\ i <= j /\ None(w, "cr", i + 1, j)
  /\ HeadOf(w) = Made(t, HeadersFrom(w)[i + 1])
AtHeadLF(w, t, i, j) ==
  /\ i >= 0
  /\ \/ i = j /\ HeadOf(w) = LineEnd(w, i, Made(t, HeadersFrom(w)[i + 2]))
     \/ j = i + 1 /\ HeadOf(w) = LineEnd(w, j, Made(t, Blank(w, j)))

Progress(w, t, l, i, j) ==
  /\ l = "NEW" => i = Null /\ j = Null /\ t.headers = <<>>
  /\ l = "METHOD" => AtMethod(w, t, i, j)
  /\ l = "PATH" => AtPath(w, t, i, j)
  /\ l = "VERSION" => AtVersion(w, t, i, j)
  /\ l = "VERSION_LF" => AtVersionLF(w, t, i, j)
  /\ l = "HEAD" => AtHead(w, t, i, j)
  /\ l = "HEAD_LF" => AtHeadLF(w, t, i, j)

Labels == {"NEW", "METHOD", "PATH", "VERSION", "VERSION_LF", "HEAD", "HEAD_LF"}

(* The fields of a transaction.                                            *)
TaOK ==
  ta \in [parse_state : Labels, blk : Int, iter : Int, path : Text, query : Text,
          version : {"0", "1"}, headers : Seq(Field), status : Nat]

Base == taken - Len(req_headers)
Rest == SubSeq(input, Base + 1, Len(input))

(* The buffer holds the rest of the input as far as it was read.           *)
BufferOK ==
  /\ req_headers \in Text /\ Base >= 0
  /\ \A k \in 1 .. Len(req_headers) : req_headers[k] = input[Base + k]

Pointer == {Null} \union 0 .. Len(req_headers)

ParseOK ==
  /\ pc = "parse" => Progress(Window(Rest), ta, label, p, r)
  /\ pc = "read" => Progress(Window(Rest), ta, ta.parse_state, p, r)
  /\ pc = "blocked" => /\ Progress(Window(Rest), ta, ta.parse_state, ta.blk, ta.iter)
                       /\ Len(req_headers) < BufSz /\ ta.iter = Len(req_headers)
  /\ pc = "head" => p >= 0

(* The results and what is left are the heads of the input.                *)
FoundOK ==
  /\ results \in Seq(Result)
  /\ pc \in {"read", "parse", "blocked"} =>
       HeadsOf(input) = results \o AllHeads(input)[Base + 1]
  /\ pc = "head" => HeadsOf(input) = results \o AllHeads(input)[Base + p + 1]
  /\ pc = "error" => HeadsOf(input) = results

IInv == TypeOK /\ TaOK /\ BufferOK /\ ParseOK /\ FoundOK

-----------------------------------------------------------------------------
(* What the invariant says of the window.                                  *)
LEMMA InputFacts ==
  ASSUME TypeOK
  PROVE  input \in Text /\ Len(input) \in Nat /\ taken \in 0 .. Len(input)
  BY InputAssumption DEF TypeOK, Text

LEMMA WindowOK ==
  ASSUME TypeOK, BufferOK
  PROVE  /\ Rest \in Text /\ Len(Rest) = Len(input) - Base
         /\ Base \in Nat /\ Base + 1 \in 1 .. Len(input) + 1
         /\ Base + Len(req_headers) = taken
         /\ Len(req_headers) \in Nat
         /\ Window(Rest) \in Text /\ Len(Window(Rest)) \in Nat
         /\ Len(Window(Rest)) = IF Len(Rest) < BufSz THEN Len(Rest) ELSE BufSz
         /\ Len(req_headers) <= Len(Window(Rest))
         /\ \A k \in 1 .. Len(req_headers) : req_headers[k] = Window(Rest)[k]
  <1>1. input \in Text /\ Len(input) \in Nat /\ taken \in 0 .. Len(input)
    BY InputFacts
  <1>2. /\ Len(req_headers) \in Nat /\ Base >= 0 /\ Len(req_headers) <= BufSz
        /\ \A k \in 1 .. Len(req_headers) : req_headers[k] = input[Base + k]
    BY DEF BufferOK, TypeOK, Text
  <1>3. BufSz \in Nat
    BY InputAssumption
  <1>4. Base \in Nat /\ Base + 1 \in 1 .. Len(input) + 1 /\ Base + Len(req_headers) = taken
    BY <1>1, <1>2 DEF Base
  <1> DEFINE b == Base
  <1> HIDE DEF b
  <1>5. b \in Nat /\ b + 1 \in 1 .. Len(input) + 1 /\ b + Len(req_headers) = taken
    BY <1>4 DEF b
  <1>6. Rest = SubSeq(input, b + 1, Len(input))
    BY DEF Rest, b
  <1>7. /\ Rest \in Text
        /\ Len(Rest) = Len(input) - (b + 1) + 1
        /\ \A j \in 1 .. Len(input) - (b + 1) + 1 : Rest[j] = input[b + 1 + j - 1]
    BY <1>1, <1>5, <1>6, RestFacts
  <1>8. Len(Rest) = Len(input) - b /\ \A j \in 1 .. Len(Rest) : Rest[j] = input[b + j]
    <2>1. Len(input) - (b + 1) + 1 = Len(input) - b
          /\ \A j \in 1 .. Len(input) - b : b + 1 + j - 1 = b + j
      BY <1>1, <1>5
    <2> QED BY <1>7, <2>1
  <1>9. /\ Window(Rest) \in Text
        /\ Len(Window(Rest)) = IF Len(Rest) < BufSz THEN Len(Rest) ELSE BufSz
        /\ \A k \in 1 .. Len(Window(Rest)) : Window(Rest)[k] = Rest[k]
    BY <1>7, WindowFacts
  <1>10. Len(Window(Rest)) \in Nat /\ Len(req_headers) <= Len(Window(Rest))
         /\ Len(Window(Rest)) <= Len(Rest)
    BY <1>1, <1>2, <1>3, <1>5, <1>8, <1>9
  <1>11. \A k \in 1 .. Len(req_headers) :
           k \in 1 .. Len(Window(Rest)) /\ k \in 1 .. Len(Rest)
    BY <1>1, <1>2, <1>5, <1>8, <1>10
  <1>12. \A k \in 1 .. Len(req_headers) : req_headers[k] = Window(Rest)[k]
    BY <1>2, <1>8, <1>9, <1>11 DEF b
  <1> QED BY <1>2, <1>4, <1>7, <1>8, <1>9, <1>10, <1>12 DEF b

LEMMA UntilFacts ==
  ASSUME TypeOK, BufferOK, NEW c, NEW from \in 0 .. Len(req_headers)
  PROVE  LET end == Until(c, from)
             w == Window(Rest)
         IN  /\ end \in from .. Len(req_headers)
             /\ end = Len(req_headers) => None(w, c, from + 1, end)
             /\ end # Len(req_headers) => First(w, c, from + 1, end + 1)
  <1> DEFINE n == Len(req_headers)
             w == Window(Rest)
             found == {k \in from .. n - 1 : req_headers[k + 1] = c}
             end == IF found = {} THEN n ELSE CHOOSE k \in found : \A j \in found : k <= j
  <1>1. end = Until(c, from)
    BY DEF Until, Char
  <1>2. n \in Nat /\ Len(w) \in Nat /\ n <= Len(w)
        /\ \A k \in 1 .. n : req_headers[k] = w[k]
    BY WindowOK
  <1> HIDE DEF w, n
  <1>3. found = {k \in from .. n - 1 : w[k + 1] = c}
    <2>1. \A k \in from .. n - 1 : k + 1 \in 1 .. n
      BY <1>2 DEF n
    <2> QED BY <1>2, <2>1
  <1>4. found \subseteq Nat /\ from \in Nat /\ from <= n
    BY <1>2 DEF n
  <1> HIDE DEF found
  <1>5. CASE found = {}
    <2>1. end = n
      BY <1>5
    <2>2. \A k \in from + 1 .. n : k - 1 \in from .. n - 1 /\ (k - 1) + 1 = k
      BY <1>2, <1>4
    <2>3. None(w, c, from + 1, n)
      BY <1>3, <1>5, <2>2 DEF None
    <2> HIDE DEF end
    <2> QED BY <1>1, <1>2, <1>4, <2>1, <2>3 DEF w, n
  <1>6. CASE found # {}
    <2>1. PICK m \in found : \A j \in found : m <= j
      BY <1>4, <1>6, LeastNatural
    <2>2. end = m
      BY <1>4, <1>6, <2>1, LeastOf
    <2> HIDE DEF end
    <2>3. m \in from .. n - 1 /\ w[m + 1] = c
      BY <1>3, <2>1
    <2>4. ASSUME NEW k \in from + 1 .. m, w[k] = c PROVE FALSE
      <3>1. k - 1 \in from .. n - 1 /\ (k - 1) + 1 = k /\ ~ (m <= k - 1)
        BY <1>2, <1>4, <2>3
      <3>2. k - 1 \in found
        BY <1>3, <2>4, <3>1
      <3> QED BY <2>1, <3>1, <3>2
    <2>5. (m + 1) - 1 = m /\ m + 1 \in from + 1 .. Len(w) /\ m # n /\ m \in from .. n
      BY <1>2, <1>4, <2>3
    <2>6. First(w, c, from + 1, m + 1)
      BY <2>3, <2>4, <2>5 DEF First
    <2> QED BY <1>1, <2>2, <2>5, <2>6 DEF w, n
  <1> QED BY <1>5, <1>6

LEMMA PartIs ==
  ASSUME NEW s, NEW i, NEW e \in Int
  PROVE  Part(s, i, e + 1) = SubSeq(s, i, e)
  <1>1. e + 1 - 1 = e
    OBVIOUS
  <1>2. Part(s, i, e + 1) = SubSeq(s, i, (e + 1) - 1)
    BY DEF Part
  <1>3. \A d : d = e => SubSeq(s, i, d) = SubSeq(s, i, e)
    OBVIOUS
  <1> QED BY <1>1, <1>2, <1>3

(* A block that starts at i and was looked through up to j.                *)
LEMMA BlockFacts ==
  ASSUME TypeOK, BufferOK, NEW c, NEW j \in 0 .. Len(req_headers), NEW i \in 0 .. j,
         None(Window(Rest), c, i + 1, j)
  PROVE  LET end == Until(c, j)
             w == Window(Rest)
         IN  /\ end \in j .. Len(req_headers) /\ end \in 0 .. Len(w)
             /\ PastEnd(end) <=> end = Len(req_headers)
             /\ PastEnd(end) => None(w, c, i + 1, end)
             /\ ~ PastEnd(end) =>
                  /\ First(w, c, i + 1, end + 1) /\ FirstAt(w, c, i + 1) = end + 1
                  /\ end + 1 \in 1 .. Len(w) /\ end + 1 \in 0 .. Len(req_headers)
                  /\ Span(i, end) = Part(w, i + 1, end + 1)
                  /\ Span(i, end) \in Text /\ Len(Span(i, end)) = end - i
                  /\ \A k \in 1 .. end - i : Span(i, end)[k] = w[i + k]
  <1> DEFINE end == Until(c, j)
             w == Window(Rest)
             n == Len(req_headers)
  <1>1. /\ end \in j .. n
        /\ end = n => None(w, c, j + 1, end)
        /\ end # n => First(w, c, j + 1, end + 1)
    BY UntilFacts
  <1>2. /\ n \in Nat /\ Len(w) \in Nat /\ n <= Len(w) /\ w \in Text /\ req_headers \in Text
        /\ \A k \in 1 .. n : req_headers[k] = w[k]
    BY WindowOK DEF BufferOK
  <1> HIDE DEF end, w, n
  <1>3. i \in Nat /\ j \in Nat /\ i <= j /\ j <= n
    BY <1>2 DEF n
  <1>4. end \in 0 .. Len(w) /\ end \in 0 .. n /\ i <= end
    BY <1>1, <1>2, <1>3
  <1>5. PastEnd(end) <=> end = n
    BY <1>2, <1>4 DEF PastEnd, Null, n
  <1>6. None(w, c, i + 1, j)
    BY DEF w
  <1>7. ASSUME end = n PROVE None(w, c, i + 1, end)
    <2>1. \A k \in i + 1 .. end : k \in i + 1 .. j \/ k \in j + 1 .. end
      BY <1>3, <1>4
    <2> QED BY <1>1, <1>6, <1>7, <2>1 DEF None
  <1>8. ASSUME end # n
        PROVE  /\ First(w, c, i + 1, end + 1) /\ FirstAt(w, c, i + 1) = end + 1
               /\ end + 1 \in 1 .. Len(w) /\ end + 1 \in 0 .. n
               /\ Span(i, end) = Part(w, i + 1, end + 1)
               /\ Span(i, end) \in Text /\ Len(Span(i, end)) = end - i
               /\ \A k \in 1 .. end - i : Span(i, end)[k] = w[i + k]
    <2>1. \A k \in i + 1 .. (end + 1) - 1 : k \in i + 1 .. j \/ k \in j + 1 .. (end + 1) - 1
      BY <1>3, <1>4
    <2>2. end + 1 \in i + 1 .. Len(w) /\ end + 1 \in 1 .. Len(w) /\ end + 1 \in 0 .. n
      BY <1>1, <1>2, <1>3, <1>8
    <2>3. First(w, c, i + 1, end + 1)
      BY <1>1, <1>6, <1>8, <2>1, <2>2 DEF None, First
    <2>4. FirstAt(w, c, i + 1) = end + 1
      <3>1. i + 1 \in Nat \ {0} /\ end + 1 \in Nat
        BY <1>3, <1>4
      <3> QED BY <1>2, <2>3, <3>1, FirstAtFacts DEF Text
    <2>5. i + 1 \in 1 .. n + 1 /\ end \in 0 .. n /\ i + 1 \in 1 .. Len(w) + 1
          /\ end \in 0 .. Len(w)
      BY <1>2, <1>3, <1>4
    <2>6. /\ SubSeq(req_headers, i + 1, end) \in Text
          /\ Len(SubSeq(req_headers, i + 1, end)) = IF i + 1 <= end THEN end - (i + 1) + 1 ELSE 0
          /\ \A k \in 1 .. end - (i + 1) + 1 :
               SubSeq(req_headers, i + 1, end)[k] = req_headers[i + 1 + k - 1]
      BY <1>2, <2>5, SubSeqFacts DEF n, Text
    <2>7. /\ SubSeq(w, i + 1, end) \in Text
          /\ Len(SubSeq(w, i + 1, end)) = IF i + 1 <= end THEN end - (i + 1) + 1 ELSE 0
          /\ \A k \in 1 .. end - (i + 1) + 1 :
               SubSeq(w, i + 1, end)[k] = w[i + 1 + k - 1]
      BY <1>2, <2>5, SubSeqFacts DEF Text
    <2> DEFINE a == SubSeq(req_headers, i + 1, end)
               b == SubSeq(w, i + 1, end)
    <2> HIDE DEF a, b
    <2>8. /\ a \in Seq(Chars) /\ b \in Seq(Chars) /\ Len(a) = end - i /\ Len(b) = end - i
          /\ \A k \in 1 .. end - i : b[k] = w[i + k] /\ a[k] = req_headers[i + k] /\ i + k \in 1 .. n
      <3>1. /\ (IF i + 1 <= end THEN end - (i + 1) + 1 ELSE 0) = end - i
            /\ end - (i + 1) + 1 = end - i
            /\ \A k \in 1 .. end - i : i + 1 + k - 1 = i + k /\ i + k \in 1 .. n
        BY <1>2, <1>3, <1>4
      <3> QED BY <2>6, <2>7, <3>1 DEF a, b, Text
    <2>9. a = b
      <3>1. \A k \in 1 .. Len(a) : a[k] = b[k]
        BY <1>2, <2>8
      <3> QED BY <2>8, <3>1, SeqEqual
    <2>10. Span(i, end) = a /\ Part(w, i + 1, end + 1) = b
      <3>1. end \in Int
        BY <1>4
      <3>2. Part(w, i + 1, end + 1) = SubSeq(w, i + 1, end)
        BY <3>1, PartIs
      <3> QED BY <3>2, Zenon DEF Span, a, b
    <2> QED BY <2>2, <2>3, <2>4, <2>8, <2>9, <2>10 DEF Text
  <1> QED BY <1>1, <1>4, <1>5, <1>7, <1>8 DEF end, w, n

-----------------------------------------------------------------------------
(* The reference at each state of the parser.                              *)

(* A state that has looked through all of the input there will be finds no *)
(* complete head in it.                                                    *)
LEMMA LineEndFacts ==
  ASSUME NEW w \in Text, NEW e, NEW x
  PROVE  /\ e = Len(w) => LineEnd(w, e, x) = Incomplete
         /\ e # Len(w) /\ w[e + 1] # "lf" => LineEnd(w, e, x) = Error(400)
         /\ e # Len(w) /\ w[e + 1] = "lf" => LineEnd(w, e, x) = x
  BY DEF LineEnd

LEMMA AtEndIncomplete ==
  ASSUME NEW w \in Text, NEW t, NEW l \in Labels, NEW i \in Int, NEW j \in Nat,
         Progress(w, t, l, i, j), j = Len(w)
  PROVE  HeadOf(w) = Incomplete
  <1>1. CASE l = "NEW"
    BY <1>1 DEF Progress, Null
  <1>2. CASE l = "METHOD"
    <2>1. None(w, "sp", 1, Len(w))
      BY <1>2 DEF Progress, AtMethod
    <2>2. FirstAt(w, "sp", 1) = 0
      BY <2>1, FirstAtFacts DEF Text
    <2> QED BY <2>2 DEF HeadOf, From, Methoded
  <1>3. CASE l = "PATH"
    <2>1. /\ i + 1 \in Nat \ {0} /\ None(w, "sp", i + 1, Len(w))
          /\ HeadOf(w) = Pathed(w, Part(w, i + 1, FirstAt(w, "sp", i + 1)), FirstAt(w, "sp", i + 1))
      BY <1>3 DEF Progress, AtPath
    <2>2. FirstAt(w, "sp", i + 1) = 0
      BY <2>1, FirstAtFacts DEF Text
    <2> QED BY <2>1, <2>2 DEF Pathed
  <1>4. CASE l = "VERSION"
    <2>1. /\ i + 1 \in Nat \ {0} /\ None(w, "cr", i + 1, Len(w))
          /\ \E a : HeadOf(w) = Versioned(w, Part(w, a, i), i, FirstAt(w, "cr", i + 1))
      BY <1>4 DEF Progress, AtVersion
    <2>2. FirstAt(w, "cr", i + 1) = 0
      BY <2>1, FirstAtFacts DEF Text
    <2> QED BY <2>1, <2>2 DEF Versioned, StartLine
  <1>5. CASE l = "VERSION_LF"
    BY <1>5, LineEndFacts DEF Progress, AtVersionLF
  <1>6. CASE l = "HEAD"
    <2>1. /\ i + 1 \in Nat \ {0} /\ None(w, "cr", i + 1, Len(w)) /\ i <= Len(w)
          /\ HeadOf(w) = Made(t, HeadersFrom(w)[i + 1])
      BY <1>6 DEF Progress, AtHead
    <2>2. FirstAt(w, "cr", i + 1) = 0
      BY <2>1, FirstAtFacts DEF Text
    <2>3. i + 1 \in 1 .. Len(w) + 3
      BY <2>1 DEF Text
    <2>4. HeadersFrom(w)[i + 1] = Incomplete
      BY <2>2, <2>3, HeadersUnfold DEF Ended, HeaderLine, Text
    <2> QED BY <2>1, <2>4, MadeFailed
  <1>7. CASE l = "HEAD_LF"
    BY <1>7, LineEndFacts DEF Progress, AtHeadLF
  <1> QED BY <1>1, <1>2, <1>3, <1>4, <1>5, <1>6, <1>7 DEF Labels

(* The method.                                                             *)
LEMMA MethodRead ==
  ASSUME NEW w \in Text, NEW t, t.headers = <<>>, NEW e \in Nat, FirstAt(w, "sp", 1) = e + 1
  PROVE  /\ Part(w, 1, e + 1) # <<"g">> => HeadOf(w) = Error(501)
         /\ Part(w, 1, e + 1) = <<"g">> => AtPath(w, t, e + 1, e + 1)
  <1> DEFINE a == e + 1
  <1>1. a # 0 /\ a \in Nat /\ FirstAt(w, "sp", 1) = a
    OBVIOUS
  <1> HIDE DEF a
  <1>2. HeadOf(w) = Methoded(w, a, FirstAt(w, "sp", a + 1))
    BY <1>1 DEF HeadOf, From
  <1>3. Part(w, 1, a) # <<"g">> => HeadOf(w) = Error(501)
    BY <1>1, <1>2 DEF Methoded
  <1>4. Part(w, 1, a) = <<"g">> =>
          HeadOf(w) = Pathed(w, Part(w, a + 1, FirstAt(w, "sp", a + 1)), FirstAt(w, "sp", a + 1))
    BY <1>1, <1>2 DEF Methoded
  <1>5. None(w, "sp", a + 1, a) /\ a >= 0 /\ a <= a
    BY <1>1 DEF None
  <1> QED BY <1>3, <1>4, <1>5, Zenon DEF AtPath, a

(* The path.                                                               *)
LEMMA PathRead ==
  ASSUME NEW w \in Text, NEW t, NEW u, NEW i \in Nat, NEW j, NEW e \in Nat, AtPath(w, t, i, j),
         FirstAt(w, "sp", i + 1) = e + 1, Part(w, i + 1, e + 1) \in Text, i <= e,
         u.headers = t.headers
  PROVE  LET s == Part(w, i + 1, e + 1)
         IN  /\ BadPath(s) => HeadOf(w) = Error(400)
             /\ ~ BadPath(s) /\ u.path = Decode(Path(s)) /\ u.query = Decode(Query(s)) =>
                  AtVersion(w, u, e + 1, e + 1)
  <1> DEFINE b == e + 1
             a == i + 1
             s == Part(w, a, b)
  <1>1. b # 0 /\ b \in Nat /\ a \in 1 .. b /\ FirstAt(w, "sp", a) = b /\ s \in Text
    OBVIOUS
  <1>2. HeadOf(w) = Pathed(w, s, b) /\ u.headers = <<>>
    BY <1>1 DEF AtPath
  <1>3. BadPath(s) => HeadOf(w) = Error(400)
    BY <1>1, <1>2 DEF Pathed
  <1>4. ~ BadPath(s) => HeadOf(w) = Versioned(w, s, b, FirstAt(w, "cr", b + 1))
    BY <1>1, <1>2 DEF Pathed
  <1>5. None(w, "cr", b + 1, b) /\ b >= 0 /\ b <= b
    BY <1>1 DEF None
  <1>6. Decode(Path(s)) = Decoded(Path(s)) /\ Decode(Query(s)) = Decoded(Query(s))
    BY <1>1, PathFacts, DecodeFacts
  <1> HIDE DEF a, b
  <1>7. ASSUME ~ BadPath(s), u.path = Decode(Path(s)), u.query = Decode(Query(s))
        PROVE  AtVersion(w, u, b, b)
    BY <1>1, <1>2, <1>4, <1>5, <1>6, <1>7, Zenon DEF AtVersion
  <1> QED BY <1>3, <1>7, Zenon DEF a, b

(* The version.                                                            *)
LEMMA VersionRead ==
  ASSUME NEW w \in Text, NEW t, NEW u, NEW i \in Nat, NEW j, NEW e \in Nat, AtVersion(w, t, i, j),
         FirstAt(w, "cr", i + 1) = e + 1, i <= e, e + 1 <= Len(w), Part(w, i + 1, e + 1) \in Text,
         u.headers = t.headers, u.path = t.path, u.query = t.query
  PROVE  LET s == Part(w, i + 1, e + 1)
         IN  /\ s = <<>> \/ s[1] # "h" => HeadOf(w) = Error(400)
             /\ ~ (s = <<>> \/ s[1] # "h") /\ s \notin {<<"h", "1">>, <<"h", "0">>} =>
                  HeadOf(w) = Error(505)
             /\ s \in {<<"h", "1">>, <<"h", "0">>} /\ u.version = s[2] =>
                  AtVersionLF(w, u, e + 1, e + 1)
  <1> DEFINE c == e + 1
             s == Part(w, i + 1, c)
             H == HeadersFrom(w)
  <1>1. c # 0 /\ c \in Nat /\ c >= 0 /\ FirstAt(w, "cr", i + 1) = c /\ c \in 1 .. Len(w)
        /\ u.headers = <<>> /\ Len(w) \in Nat
    BY DEF AtVersion, Text
  <1>2. PICK a \in 1 .. i :
           /\ Part(w, a, i) \in Text
           /\ u.path = Decoded(Path(Part(w, a, i))) /\ u.query = Decoded(Query(Part(w, a, i)))
           /\ HeadOf(w) = Versioned(w, Part(w, a, i), i, c)
    BY <1>1 DEF AtVersion
  <1> DEFINE path == Part(w, a, i)
  <1>3. HeadOf(w) = StartLine(w, path, s, c)
    BY <1>2 DEF Versioned
  <1> HIDE DEF path, s, c
  <1>4. s = <<>> \/ s[1] # "h" => HeadOf(w) = Error(400)
    BY <1>1, <1>3 DEF StartLine
  <1>5. ~ (s = <<>> \/ s[1] # "h") /\ s \notin {<<"h", "1">>, <<"h", "0">>} =>
          HeadOf(w) = Error(505)
    BY <1>1, <1>3, ZenonT(60) DEF StartLine
  <1>6. ASSUME s \in {<<"h", "1">>, <<"h", "0">>}, u.version = s[2]
        PROVE  AtVersionLF(w, u, c, c)
    <2>1. ~ (s = <<>> \/ s[1] # "h")
      BY <1>6
    <2>2. HeadOf(w) = IF c = Len(w) THEN Incomplete
                      ELSE IF w[c + 1] # "lf" THEN Error(400)
                      ELSE Whole(path, s, H[c + 2])
      BY <1>1, <1>3, <1>6, <2>1, ZenonT(60) DEF StartLine
    <2>3. c + 2 \in 1 .. Len(w) + 3
      BY <1>1
    <2>4. H[c + 2] \in {Incomplete, Error(400)} \union Ending({n \in 1 .. Len(w) + 1 : n >= c + 2 + 2})
      BY <2>3, HeadersShape, ZenonT(60) DEF Headers
    <2>5. Whole(path, s, H[c + 2]) = Made(u, H[c + 2])
      <3> DEFINE h == H[c + 2]
      <3> HIDE DEF h
      <3>1. CASE h.status # 0
        BY <3>1 DEF Whole, Made, h
      <3>2. CASE h.status = 0
        <4>1. h \in Ending({n \in 1 .. Len(w) + 1 : n >= c + 2 + 2})
          BY <2>4, <3>2 DEF h, Incomplete, Error
        <4>2. h.headers \in Seq(Field)
          BY <4>1 DEF Ending
        <4>3. u.headers \o h.headers = h.headers
          BY <1>1, <4>2, ConcatEmptySeq
        <4> QED BY <1>2, <1>6, <3>2, <4>3, Zenon DEF Whole, Made, h, path
      <3> QED BY <3>1, <3>2
    <2>6. HeadOf(w) = LineEnd(w, c, Made(u, H[c + 2]))
      BY <2>2, <2>5, Zenon DEF LineEnd
    <2> QED BY <1>1, <2>6, Zenon DEF AtVersionLF
  <1> QED BY <1>4, <1>5, <1>6, ZenonT(60) DEF s, c

(* The end of a line, and the header lines.                                *)
Associated(a, b, c) == (a \o b) \o c = a \o (b \o c)

LEMMA ConcatThree ==
  ASSUME NEW S, NEW a \in Seq(S), NEW b \in Seq(S), NEW c \in Seq(S)
  PROVE  Associated(a, b, c)
  BY ConcatAssociative, SMTT(60) DEF Associated

LEMMA MadeLineEnd ==
  ASSUME NEW w, NEW t, NEW e, NEW x
  PROVE  Made(t, LineEnd(w, e, x)) = LineEnd(w, e, Made(t, x))
  <1>1. Made(t, Incomplete) = Incomplete /\ Made(t, Error(400)) = Error(400)
    BY MadeFailed
  <1> QED BY <1>1, ZenonT(60) DEF LineEnd

LEMMA MadeCons ==
  ASSUME NEW t, NEW u, NEW line, NEW w, NEW e, NEW h, h \in Headers(w, e),
         t.headers \in Seq(Field), <<Name(line), Value(line)>> \in Field,
         u.headers = Append(t.headers, <<Name(line), Value(line)>>),
         u.path = t.path, u.query = t.query, u.version = t.version
  PROVE  Made(t, Cons(line, h)) = Made(u, h)
  <1>1. CASE h \in {Incomplete, Error(400)}
    <2>1. Made(t, h) = h /\ Made(u, h) = h /\ Cons(line, h) = h
      BY <1>1, MadeFailed, SMTT(60)
    <2> QED BY <2>1
  <1> DEFINE n == {k \in 1 .. Len(w) + 1 : k >= e + 2}
  <1>0. h \in {Incomplete, Error(400)} \union Ending(n)
    BY DEF Headers
  <1> HIDE DEF n
  <1>2. CASE h \in Ending(n)
    <2> DEFINE x == <<Name(line), Value(line)>>
               k == Cons(line, h)
    <2>1. /\ k.status = 0 /\ k.end = h.end /\ k.headers = <<x>> \o h.headers
          /\ h.status = 0 /\ h.headers \in Seq(Field)
      <3>1. h \in Ending(n)
        BY <1>2
      <3>2. k.status = 0 /\ k.end = h.end /\ k.headers = <<x>> \o h.headers
        BY <3>1, ConsFacts, Zenon
      <3>3. h.status = 0 /\ h.headers \in Seq(Field)
        BY <3>1 DEF Ending
      <3> QED BY <3>2, <3>3
    <2> HIDE DEF x, k
    <2>2. x \in Field /\ <<x>> \in Seq(Field)
      <3>1. x \in Field
        BY DEF x
      <3> QED BY <3>1
    <2>3. u.headers = t.headers \o <<x>>
      BY <2>2, AppendIsConcat DEF x
    <2>4. t.headers \o k.headers = u.headers \o h.headers
      <3>1. (t.headers \o <<x>>) \o h.headers = t.headers \o (<<x>> \o h.headers)
        <4> DEFINE a == t.headers
                   b == h.headers
                   y == <<x>>
        <4>1. a \in Seq(Field) /\ y \in Seq(Field) /\ b \in Seq(Field)
          BY <2>1, <2>2
        <4> HIDE DEF a, b, y
        <4>2. Associated(a, y, b)
          BY <4>1, ConcatThree
        <4> QED BY <4>2, Zenon DEF a, b, y, Associated
      <3> QED BY <2>1, <2>3, <3>1, Zenon
    <2> QED BY <2>1, <2>4, Zenon DEF Made, k
  <1> QED BY <1>0, <1>1, <1>2

LEMMA VersionLFRead ==
  ASSUME NEW w \in Text, NEW t, NEW i \in Nat, AtVersionLF(w, t, i, i), i < Len(w)
  PROVE  /\ w[i + 1] # "lf" => HeadOf(w) = Error(400)
         /\ w[i + 1] = "lf" => AtHead(w, t, i + 1, i + 1)
  <1>1. i # Len(w) /\ i + 1 \in Nat /\ i + 2 = (i + 1) + 1
        /\ HeadOf(w) = LineEnd(w, i, Made(t, HeadersFrom(w)[i + 2]))
    BY DEF AtVersionLF, Text
  <1>2. w[i + 1] # "lf" => HeadOf(w) = Error(400)
    BY <1>1, LineEndFacts
  <1>3. w[i + 1] = "lf" => HeadOf(w) = Made(t, HeadersFrom(w)[(i + 1) + 1])
    BY <1>1, LineEndFacts
  <1>4. i + 1 >= 0 /\ i + 1 <= i + 1 /\ None(w, "cr", (i + 1) + 1, i + 1)
    BY <1>1 DEF None
  <1> QED BY <1>2, <1>3, <1>4, Zenon DEF AtHead

LEMMA HeadRead ==
  ASSUME NEW w \in Text, NEW t, NEW u, NEW i \in Nat, NEW j, NEW e \in Nat, AtHead(w, t, i, j),
         t.headers \in Seq(Field),
         FirstAt(w, "cr", i + 1) = e + 1, i <= e, e + 1 <= Len(w), Part(w, i + 1, e + 1) \in Text,
         u.path = t.path, u.query = t.query, u.version = t.version
  PROVE  LET s == Part(w, i + 1, e + 1)
         IN  /\ e = i => AtHeadLF(w, t, i, e + 1)
             /\ e # i /\ BadHeader(s) => HeadOf(w) = Error(400)
             /\ e # i /\ ~ BadHeader(s) /\ u.headers = Append(t.headers, <<Name(s), Value(s)>>) =>
                  AtHeadLF(w, u, e + 1, e + 1)
  <1> DEFINE c == e + 1
             k == i + 1
             s == Part(w, k, c)
             H == HeadersFrom(w)
  <1>1. /\ c # 0 /\ c \in Nat /\ c >= 0 /\ k \in 1 .. Len(w) + 3 /\ FirstAt(w, "cr", k) = c
        /\ c \in 1 .. Len(w) /\ (c = k <=> e = i) /\ Len(w) \in Nat
    BY DEF Text
  <1>2. H[k] = HeaderLine(w, k, c, s, H)
    BY <1>1, HeadersUnfold DEF Ended, Text
  <1>3. HeadOf(w) = Made(t, H[k]) /\ i >= 0
    BY DEF AtHead
  <1>4. s \in Text
    OBVIOUS
  <1> HIDE DEF c, k, s, H
  <1>5. ASSUME e = i PROVE AtHeadLF(w, t, i, c)
    <2>1. H[k] = LineEnd(w, c, Blank(w, c))
      BY <1>1, <1>2, <1>5, ZenonT(60) DEF HeaderLine, LineEnd
    <2>2. c = i + 1
      BY <1>5 DEF c
    <2>3. Made(t, LineEnd(w, c, Blank(w, c))) = LineEnd(w, c, Made(t, Blank(w, c)))
      BY MadeLineEnd
    <2>4. HeadOf(w) = LineEnd(w, c, Made(t, Blank(w, c)))
      BY <1>3, <2>1, <2>3, Zenon
    <2> QED BY <1>3, <2>2, <2>4, Zenon DEF AtHeadLF
  <1>6. ASSUME e # i, BadHeader(s) PROVE HeadOf(w) = Error(400)
    <2>1. H[k] = Error(400)
      BY <1>1, <1>2, <1>6, Zenon DEF HeaderLine
    <2> QED BY <1>3, <2>1, MadeFailed
  <1>7. ASSUME e # i, ~ BadHeader(s), u.headers = Append(t.headers, <<Name(s), Value(s)>>)
        PROVE  AtHeadLF(w, u, c, c)
    <2>1. H[k] = LineEnd(w, c, Cons(s, H[c + 2]))
      BY <1>1, <1>2, <1>7, ZenonT(60) DEF HeaderLine, LineEnd
    <2>2. H[c + 2] \in Headers(w, c + 2)
      <3>1. c + 2 \in 1 .. Len(w) + 3
        BY <1>1
      <3> QED BY <3>1, HeadersShape DEF H
    <2>3. <<Name(s), Value(s)>> \in Field
      BY <1>4, <1>7, LineFacts
    <2>4. Made(t, Cons(s, H[c + 2])) = Made(u, H[c + 2])
      <3> DEFINE h == H[c + 2]
                 d == c + 2
      <3>1. h \in Headers(w, d)
        BY <2>2
      <3>2. /\ t.headers \in Seq(Field) /\ u.headers = Append(t.headers, <<Name(s), Value(s)>>)
            /\ u.path = t.path /\ u.query = t.query /\ u.version = t.version
        BY <1>7
      <3> HIDE DEF h, d
      <3>3. Made(t, Cons(s, h)) = Made(u, h)
        BY <2>3, <3>1, <3>2, MadeCons, SMTT(60)
      <3> QED BY <3>3 DEF h
    <2>6. Made(t, LineEnd(w, c, Cons(s, H[c + 2]))) = LineEnd(w, c, Made(t, Cons(s, H[c + 2])))
      BY MadeLineEnd
    <2>5. HeadOf(w) = LineEnd(w, c, Made(u, H[c + 2]))
      BY <1>3, <2>1, <2>4, <2>6, Zenon
    <2> QED BY <1>1, <2>5, Zenon DEF AtHeadLF, H
  <1> QED BY <1>5, <1>6, <1>7, ZenonT(60) DEF c, k, s

LEMMA HeadLFRead ==
  ASSUME NEW w \in Text, NEW t, NEW i \in Int, NEW j \in Nat, AtHeadLF(w, t, i, j), j < Len(w),
         t.headers \in Seq(Field)
  PROVE  /\ w[j + 1] # "lf" => HeadOf(w) = Error(400)
         /\ w[j + 1] = "lf" /\ j = i => AtHead(w, t, j + 1, j + 1)
         /\ w[j + 1] = "lf" /\ j # i =>
              HeadOf(w) = [status |-> 0, path |-> t.path, query |-> t.query,
                           version |-> t.version, headers |-> t.headers, end |-> j + 2]
  <1>1. j # Len(w) /\ j + 1 \in Nat /\ j + 2 = (j + 1) + 1
    BY DEF Text
  <1>2. \/ i = j /\ HeadOf(w) = LineEnd(w, j, Made(t, HeadersFrom(w)[j + 2]))
        \/ i # j /\ HeadOf(w) = LineEnd(w, j, Made(t, Blank(w, j)))
    BY DEF AtHeadLF
  <1>3. w[j + 1] # "lf" => HeadOf(w) = Error(400)
    BY <1>1, <1>2, LineEndFacts
  <1>4. ASSUME w[j + 1] = "lf", j = i PROVE AtHead(w, t, j + 1, j + 1)
    <2>1. HeadOf(w) = Made(t, HeadersFrom(w)[(j + 1) + 1])
      BY <1>1, <1>2, <1>4, LineEndFacts
    <2>2. j + 1 >= 0 /\ j + 1 <= j + 1 /\ None(w, "cr", (j + 1) + 1, j + 1)
      BY <1>1 DEF None
    <2> QED BY <2>1, <2>2, Zenon DEF AtHead
  <1>5. ASSUME w[j + 1] = "lf", j # i
        PROVE  HeadOf(w) = [status |-> 0, path |-> t.path, query |-> t.query,
                            version |-> t.version, headers |-> t.headers, end |-> j + 2]
    <2>1. HeadOf(w) = Made(t, Blank(w, j))
      BY <1>1, <1>2, <1>5, LineEndFacts
    <2>2. Blank(w, j).status = 0 /\ Blank(w, j).headers = <<>> /\ Blank(w, j).end = j + 2
      BY DEF Blank
    <2>3. t.headers \o <<>> = t.headers
      BY ConcatEmptySeq
    <2> QED BY <2>1, <2>2, <2>3 DEF Made
  <1> QED BY <1>3, <1>4, <1>5

-----------------------------------------------------------------------------
(* The invariant holds at first, and what the steps have in common.        *)
LEMMA InitIInv == Init => IInv
  <1> SUFFICES ASSUME Init PROVE IInv
    OBVIOUS
  <1>1. /\ input \in Text /\ Len(input) \in Nat /\ taken = 0 /\ req_headers = <<>>
        /\ Len(req_headers) = 0 /\ BufSz \in Nat
    BY InputAssumption DEF Init, Text
  <1>2. ta = ZeroTa /\ pc = "read" /\ label = "NEW" /\ p = Null /\ r = Null /\ results = <<>>
    BY DEF Init
  <1>3. TypeOK
    BY <1>1, <1>2 DEF TypeOK, Init, ZeroTa, Null
  <1>4. TaOK
    BY <1>2 DEF TaOK, ZeroTa, Null, Labels, Text
  <1>5. Base = 0
    <2>1. taken = 0 /\ Len(req_headers) = 0
      BY <1>1
    <2>2. Base = 0 - 0
      BY <2>1, Zenon DEF Base
    <2> QED BY <2>2
  <1>6. BufferOK
    BY <1>1, <1>5 DEF BufferOK, Text
  <1>7. ParseOK
    BY <1>2 DEF ParseOK, Progress, ZeroTa
  <1>8. FoundOK
    <2>1. AllHeads(input)[1] \in Seq(Result)
      BY <1>1, AllHeadsSeq
    <2>2. results \in Seq(Result)
      BY <1>2
    <2>3. HeadsOf(input) = results \o AllHeads(input)[1]
      BY <1>2, <2>1, HeadsOfIs, ConcatEmptySeq
    <2>4. Base + 1 = 1
      BY <1>5
    <2> QED BY <1>2, <2>2, <2>3, <2>4 DEF FoundOK
  <1> QED BY <1>3, <1>4, <1>6, <1>7, <1>8 DEF IInv

LEMMA SameFields ==
  ASSUME NEW w, NEW t, NEW u, NEW l, NEW i, NEW j, Progress(w, t, l, i, j),
         u.path = t.path, u.query = t.query, u.version = t.version, u.headers = t.headers
  PROVE  Progress(w, u, l, i, j)
  <1>1. \A h : Made(u, h) = Made(t, h)
    BY DEF Made
  <1>2. AtMethod(w, t, i, j) => AtMethod(w, u, i, j)
    BY DEF AtMethod
  <1>3. AtPath(w, t, i, j) => AtPath(w, u, i, j)
    BY Zenon DEF AtPath
  <1>4. AtVersion(w, t, i, j) => AtVersion(w, u, i, j)
    BY Zenon DEF AtVersion
  <1>5. AtVersionLF(w, t, i, j) => AtVersionLF(w, u, i, j)
    BY <1>1, Zenon DEF AtVersionLF
  <1>6. AtHead(w, t, i, j) => AtHead(w, u, i, j)
    BY <1>1, Zenon DEF AtHead
  <1>7. AtHeadLF(w, t, i, j) => AtHeadLF(w, u, i, j)
    BY <1>1, Zenon DEF AtHeadLF
  <1> QED BY <1>2, <1>3, <1>4, <1>5, <1>6, <1>7, Zenon DEF Progress

(* What was read so far stays where it is.                                 *)
LEMMA SameBuffer ==
  ASSUME IInv, UNCHANGED <<input, taken, req_headers>>
  PROVE  /\ BufferOK' /\ Base' = Base /\ Rest' = Rest
         /\ Window(Rest)' = Window(Rest) /\ Pointer' = Pointer
  BY Zenon DEF IInv, BufferOK, Base, Rest, Window, Pointer

LEMMA FailStep ==
  ASSUME IInv, pc \in {"read", "parse"}, NEW status \in {400, 431, 501, 505}, Fail(status),
         UNCHANGED <<input, taken, req_headers, label, p, r>>, Limited(Rest) = Error(status)
  PROVE  IInv'
  <1>1. BufferOK' /\ Base' = Base
    BY SameBuffer
  <1>2. TypeOK /\ TaOK /\ BufferOK /\ FoundOK
    BY DEF IInv
  <1>3. ta' = [ta EXCEPT !.status = status] /\ pc' = "error"
        /\ results' = Append(results, Error(status))
    BY DEF Fail, Error
  <1>4. TaOK' /\ ta'.parse_state = ta.parse_state /\ ta'.blk = ta.blk /\ ta'.iter = ta.iter
    BY <1>2, <1>3, SMTT(60) DEF TaOK
  <1>5. TypeOK'
    BY <1>2, <1>3, <1>4 DEF TypeOK
  <1>6. ParseOK'
    BY <1>3 DEF ParseOK
  <1>7. FoundOK'
    <2>1. AllHeads(input)[Base + 1] = <<Error(status)>> /\ Error(status) \in Result
      <3>1. input \in Text /\ Base + 1 \in 1 .. Len(input) + 1
        BY <1>2, WindowOK, InputFacts
      <3>2. Limited(SubSeq(input, Base + 1, Len(input))) = Error(status)
        BY DEF Rest
      <3>3. Error(status) \in Failure
        BY DEF Failure
      <3>4. Error(status) \in Result
        BY <3>3 DEF Result
      <3> DEFINE k == Base + 1
                 h == Limited(SubSeq(input, k, Len(input)))
      <3> HIDE DEF k
      <3>5. h \in Failure => AllHeads(input)[k] = <<h>>
        <4>1. input \in Text /\ k \in 1 .. Len(input) + 1
          BY <3>1 DEF k
        <4> QED BY <4>1, FailureHeads
      <3>6. h = Error(status)
        BY <3>2 DEF k
      <3> HIDE DEF h
      <3>7. AllHeads(input)[k] = <<Error(status)>>
        BY <3>3, <3>5, <3>6, ZenonT(60)
      <3> QED BY <3>4, <3>7 DEF k
    <2>2. results \in Seq(Result) /\ HeadsOf(input) = results \o AllHeads(input)[Base + 1]
      BY <1>2 DEF FoundOK
    <2>3. results' \in Seq(Result) /\ results' = results \o <<Error(status)>>
      BY <1>3, <2>1, <2>2, AppendProperties, AppendIsConcat
    <2>4. HeadsOf(input)' = HeadsOf(input)
      OBVIOUS
    <2>5. HeadsOf(input)' = results'
      BY <2>1, <2>2, <2>3, <2>4
    <2> QED BY <1>3, <2>3, <2>5 DEF FoundOK
  <1> QED BY <1>1, <1>4, <1>5, <1>6, <1>7 DEF IInv

LEMMA FailParse ==
  ASSUME IInv, pc = "parse", NEW status \in {400, 501, 505}, Fail(status),
         UNCHANGED <<input, taken, req_headers, label, p, r>>,
         HeadOf(Window(Rest)) = Error(status)
  PROVE  IInv'
  <1>1. Rest \in Text
    BY WindowOK DEF IInv
  <1>2. Error(status) # Incomplete
    <2>1. Error(status).status = status /\ Incomplete.status = -1
      BY DEF Error, Incomplete
    <2> QED BY <2>1
  <1>3. Limited(Rest) = Error(status)
    BY <1>1, <1>2, LimitedFacts
  <1>4. status \in {400, 431, 501, 505} /\ pc \in {"read", "parse"}
    OBVIOUS
  <1> QED BY <1>3, <1>4, FailStep

(* A step of the parser that goes on, in the buffer or to read_more.       *)
Onward(t, l, i, j) ==
  /\ l \in Labels /\ i \in Pointer /\ j \in Pointer /\ i <= j
  /\ Progress(Window(Rest), t, l, i, j)

LEMMA OnwardStep ==
  ASSUME IInv, pc = "parse", UNCHANGED <<input, taken, req_headers, results>>,
         pc' \in {"read", "parse"}, TaOK', ta'.blk = ta.blk, ta'.iter = ta.iter, label' \in Labels,
         Onward(ta', IF pc' = "read" THEN ta'.parse_state ELSE label', p', r')
  PROVE  IInv'
  <1>1. BufferOK' /\ Base' = Base /\ Rest' = Rest /\ Window(Rest)' = Window(Rest)
    BY SameBuffer
  <1>2. TypeOK /\ FoundOK
    BY DEF IInv
  <1>3. ta'.parse_state \in Labels
    BY DEF TaOK
  <1>4. TypeOK'
    BY <1>2, <1>3 DEF TypeOK, Labels, Onward, Pointer
  <1>5. ParseOK'
    <2> DEFINE w == Window(Rest)
    <2>1. (pc' = "read" => Progress(w, ta', ta'.parse_state, p', r'))
          /\ (pc' = "parse" => Progress(w, ta', label', p', r'))
      BY DEF Onward
    <2>2. w' = w
      BY <1>1
    <2>3. (pc' = "read" => Progress(w', ta', ta'.parse_state, p', r'))
          /\ (pc' = "parse" => Progress(w', ta', label', p', r'))
      BY <2>1, <2>2
    <2>4. pc' # "blocked" /\ pc' # "head"
      OBVIOUS
    <2> QED BY <2>3, <2>4 DEF ParseOK
  <1>6. FoundOK'
    BY <1>1, <1>2 DEF FoundOK
  <1> QED BY <1>1, <1>4, <1>5, <1>6 DEF IInv

LEMMA NeedMoreStep ==
  ASSUME IInv, pc = "parse", NEW state \in Labels, NEW end, NeedMore(state, end),
         UNCHANGED <<input, taken, req_headers>>, Onward(ta, state, p, end)
  PROVE  IInv'
  <1>1. TaOK /\ TypeOK
    BY DEF IInv
  <1>2. ta' = [ta EXCEPT !.parse_state = state] /\ r' = end /\ pc' = "read"
        /\ UNCHANGED <<label, p, results>>
    BY DEF NeedMore
  <1>3. /\ TaOK' /\ ta'.parse_state = state /\ ta'.blk = ta.blk /\ ta'.iter = ta.iter
        /\ ta'.path = ta.path /\ ta'.query = ta.query /\ ta'.version = ta.version
        /\ ta'.headers = ta.headers
    BY <1>1, <1>2 DEF TaOK
  <1>4. Onward(ta', state, p, end)
    BY <1>3, SameFields, Zenon DEF Onward
  <1>5. label' \in Labels
    BY <1>1, <1>2 DEF TypeOK, Labels
  <1>6. Onward(ta', IF pc' = "read" THEN ta'.parse_state ELSE label', p', r')
    BY <1>2, <1>3, <1>4, Zenon
  <1> QED BY <1>2, <1>3, <1>5, <1>6, OnwardStep

-----------------------------------------------------------------------------
(* Each action preserves the invariant.  First the states of the parser.   *)
LEMMA ParseFacts ==
  ASSUME IInv, pc = "parse"
  PROVE  /\ TypeOK /\ BufferOK /\ TaOK
         /\ Window(Rest) \in Text /\ Len(Window(Rest)) \in Nat /\ Len(req_headers) \in Nat
         /\ Len(req_headers) <= Len(Window(Rest))
         /\ \A k \in 1 .. Len(req_headers) : req_headers[k] = Window(Rest)[k]
         /\ Progress(Window(Rest), ta, label, p, r)
         /\ p \in Pointer /\ r \in Pointer /\ p <= r /\ p \in Int /\ r \in Int
         /\ ta.headers \in Seq(Field)
         /\ label # "NEW" => r \in 0 .. Len(req_headers) /\ p \in 0 .. r
  <1>1. TypeOK /\ BufferOK /\ TaOK /\ Progress(Window(Rest), ta, label, p, r)
    BY DEF IInv, ParseOK
  <1>2. /\ Window(Rest) \in Text /\ Len(Window(Rest)) \in Nat /\ Len(req_headers) \in Nat
        /\ Len(req_headers) <= Len(Window(Rest))
        /\ \A k \in 1 .. Len(req_headers) : req_headers[k] = Window(Rest)[k]
    BY <1>1, WindowOK
  <1>3. p \in Pointer /\ r \in Pointer /\ p <= r /\ label \in Labels
    BY <1>1 DEF TypeOK, Pointer, Labels
  <1>4. p \in Int /\ r \in Int /\ ta.headers \in Seq(Field)
    BY <1>1, <1>2, <1>3 DEF Pointer, Null, TaOK
  <1>5. label # "NEW" => p >= 0 /\ r >= 0
    BY <1>1, <1>3, <1>4
       DEF Labels, Progress, AtMethod, AtPath, AtVersion, AtVersionLF, AtHead, AtHeadLF
  <1>6. label # "NEW" => r \in 0 .. Len(req_headers) /\ p \in 0 .. r
    BY <1>2, <1>3, <1>4, <1>5 DEF Pointer, Null
  <1> QED BY <1>1, <1>2, <1>3, <1>4, <1>6

(* The parser goes on to the next state, behind the separator at end.      *)
LEMMA GoOnStep ==
  ASSUME IInv, pc = "parse", NEW state \in Labels, NEW end \in Nat, GoOn(state, end),
         end + 1 <= Len(req_headers), UNCHANGED <<input, taken, req_headers, pc, results>>,
         TaOK', ta'.blk = ta.blk, ta'.iter = ta.iter,
         Progress(Window(Rest), ta', state, end + 1, end + 1)
  PROVE  IInv'
  <1>1. label' = state /\ p' = end + 1 /\ r' = end + 1
    BY DEF GoOn
  <1>2. end + 1 \in Pointer /\ end + 1 <= end + 1
    BY ParseFacts DEF Pointer
  <1>3. Onward(ta', state, end + 1, end + 1)
    BY <1>2 DEF Onward
  <1>4. pc' = "parse" /\ pc' # "read"
    OBVIOUS
  <1>5. Onward(ta', IF pc' = "read" THEN ta'.parse_state ELSE label', p', r')
    BY <1>1, <1>3, <1>4, Zenon
  <1> QED BY <1>1, <1>4, <1>5, OnwardStep

LEMMA ParseNewStep ==
  ASSUME IInv, ParseNew PROVE IInv'
  <1>1. /\ pc = "parse" /\ label = "NEW" /\ label' = "METHOD" /\ p' = 0 /\ r' = 0
        /\ UNCHANGED <<input, taken, req_headers, ta, pc, results>>
    BY DEF ParseNew
  <1>2. TaOK /\ Progress(Window(Rest), ta, "NEW", p, r) /\ Len(req_headers) \in Nat
    BY <1>1, ParseFacts
  <1>3. AtMethod(Window(Rest), ta, 0, 0)
    BY <1>2 DEF Progress, AtMethod, None
  <1>4. Progress(Window(Rest), ta', "METHOD", 0, 0)
    BY <1>1, <1>3 DEF Progress
  <1>5. Onward(ta', "METHOD", 0, 0)
    BY <1>2, <1>4 DEF Onward, Labels, Pointer
  <1>6. TaOK'
    BY <1>1, <1>2 DEF TaOK
  <1>7. Onward(ta', IF pc' = "read" THEN ta'.parse_state ELSE label', p', r')
    BY <1>1, <1>5
  <1> QED BY <1>1, <1>6, <1>7, OnwardStep DEF Labels

LEMMA ParseMethodStep ==
  ASSUME IInv, ParseMethod PROVE IInv'
  <1> DEFINE end == Until("sp", r)
             w == Window(Rest)
             s == Span(p, end)
  <1>1. /\ pc = "parse" /\ label = "METHOD" /\ UNCHANGED <<input, taken, req_headers>>
        /\ CASE PastEnd(end) -> NeedMore("METHOD", end)
             [] ~ PastEnd(end) /\ s = <<"g">> -> GoOn("PATH", end) /\ UNCHANGED <<ta, pc, results>>
             [] OTHER -> Fail(501) /\ UNCHANGED <<label, p, r>>
    BY DEF ParseMethod
  <1>2. TypeOK /\ BufferOK /\ TaOK /\ w \in Text /\ AtMethod(w, ta, p, r)
        /\ r \in 0 .. Len(req_headers) /\ Len(req_headers) \in Nat
    BY <1>1, ParseFacts DEF Progress
  <1>3. p = 0 /\ None(w, "sp", p + 1, r) /\ ta.headers = <<>> /\ p \in 0 .. r
    BY <1>2 DEF AtMethod
  <1>4. /\ end \in r .. Len(req_headers) /\ end \in 0 .. Len(w)
        /\ PastEnd(end) => None(w, "sp", p + 1, end)
        /\ ~ PastEnd(end) => /\ FirstAt(w, "sp", p + 1) = end + 1
                             /\ end + 1 \in 0 .. Len(req_headers)
                             /\ s = Part(w, p + 1, end + 1)
    BY <1>2, <1>3, BlockFacts
  <1> HIDE DEF end, w, s
  <1>5. end \in Nat /\ end \in Pointer /\ p + 1 = 1
    BY <1>2, <1>3, <1>4 DEF Pointer
  <1>6. CASE PastEnd(end)
    <2>1. NeedMore("METHOD", end)
      BY <1>1, <1>6, Zenon
    <2>2. AtMethod(w, ta, p, end)
      BY <1>3, <1>4, <1>5, <1>6 DEF AtMethod
    <2>3. Onward(ta, "METHOD", p, end)
      BY <1>2, <1>3, <1>4, <1>5, <2>2 DEF Onward, Progress, Labels, w, Pointer
    <2> QED BY <1>1, <2>1, <2>3, NeedMoreStep DEF Labels
  <1>7. CASE ~ PastEnd(end) /\ s = <<"g">>
    <2>1. GoOn("PATH", end) /\ UNCHANGED <<ta, pc, results>>
      BY <1>1, <1>7, Zenon
    <2>2. AtPath(w, ta, end + 1, end + 1)
      BY <1>2, <1>3, <1>4, <1>5, <1>7, MethodRead
    <2>3. Progress(Window(Rest), ta', "PATH", end + 1, end + 1)
      BY <2>1, <2>2 DEF Progress, w
    <2>4. TaOK'
      BY <1>2, <2>1 DEF TaOK
    <2>5. "PATH" \in Labels /\ end + 1 <= Len(req_headers)
      BY <1>2, <1>4, <1>5, <1>7 DEF Labels
    <2> QED BY <1>1, <1>5, <2>1, <2>3, <2>4, <2>5, GoOnStep
  <1>8. CASE ~ PastEnd(end) /\ s # <<"g">>
    <2>1. Fail(501) /\ UNCHANGED <<label, p, r>>
      BY <1>1, <1>8, Zenon
    <2>2. HeadOf(w) = Error(501)
      BY <1>2, <1>3, <1>4, <1>5, <1>8, MethodRead
    <2> QED BY <1>1, <2>1, <2>2, FailParse DEF w
  <1> QED BY <1>6, <1>7, <1>8

LEMMA ParsePathStep ==
  ASSUME IInv, ParsePath PROVE IInv'
  <1> DEFINE end == Until("sp", r)
             w == Window(Rest)
             s == Span(p, end)
             new == [ta EXCEPT !.path = Decode(Path(s)), !.query = Decode(Query(s))]
  <1>1. /\ pc = "parse" /\ label = "PATH" /\ UNCHANGED <<input, taken, req_headers>>
        /\ CASE PastEnd(end) -> NeedMore("PATH", end)
             [] ~ PastEnd(end) /\ ~ BadPath(s) ->
                  ta' = new /\ GoOn("VERSION", end) /\ UNCHANGED <<pc, results>>
             [] OTHER -> Fail(400) /\ UNCHANGED <<label, p, r>>
    BY DEF ParsePath
  <1>2. TypeOK /\ BufferOK /\ TaOK /\ w \in Text /\ AtPath(w, ta, p, r)
        /\ r \in 0 .. Len(req_headers) /\ p \in 0 .. r /\ Len(req_headers) \in Nat
    BY <1>1, ParseFacts DEF Progress
  <1>3. None(w, "sp", p + 1, r) /\ ta.headers = <<>>
    BY <1>2 DEF AtPath
  <1>4. /\ end \in r .. Len(req_headers) /\ end \in 0 .. Len(w)
        /\ PastEnd(end) => None(w, "sp", p + 1, end)
        /\ ~ PastEnd(end) => /\ FirstAt(w, "sp", p + 1) = end + 1
                             /\ end + 1 \in 0 .. Len(req_headers)
                             /\ s = Part(w, p + 1, end + 1) /\ s \in Text
    BY <1>2, <1>3, BlockFacts
  <1> HIDE DEF end, w, s
  <1>5. end \in Nat /\ end \in Pointer /\ p \in Nat /\ p <= end
    BY <1>2, <1>4 DEF Pointer
  <1>6. CASE PastEnd(end)
    <2>1. NeedMore("PATH", end)
      BY <1>1, <1>6, Zenon
    <2>2. AtPath(w, ta, p, end)
      BY <1>2, <1>3, <1>4, <1>5, <1>6 DEF AtPath
    <2>3. Onward(ta, "PATH", p, end)
      BY <1>2, <1>4, <1>5, <2>2 DEF Onward, Progress, Labels, w, Pointer
    <2> QED BY <1>1, <2>1, <2>3, NeedMoreStep DEF Labels
  <1>7. CASE ~ PastEnd(end) /\ ~ BadPath(s)
    <2>1. ta' = new /\ GoOn("VERSION", end) /\ UNCHANGED <<pc, results>>
      BY <1>1, <1>7, Zenon
    <2>2. Decode(Path(s)) \in Text /\ Decode(Query(s)) \in Text
      BY <1>4, <1>7, PathFacts, DecodeFacts
    <2>3. /\ TaOK' /\ ta'.blk = ta.blk /\ ta'.iter = ta.iter /\ ta'.headers = ta.headers
          /\ ta'.path = Decode(Path(s)) /\ ta'.query = Decode(Query(s))
      BY <1>2, <2>1, <2>2 DEF TaOK
    <2>4. AtVersion(w, ta', end + 1, end + 1)
      BY <1>2, <1>4, <1>5, <1>7, <2>3, PathRead
    <2>5. Progress(Window(Rest), ta', "VERSION", end + 1, end + 1)
      BY <2>4 DEF Progress, w
    <2>6. "VERSION" \in Labels /\ end + 1 <= Len(req_headers)
      BY <1>2, <1>4, <1>5, <1>7 DEF Labels
    <2> QED BY <1>1, <1>5, <2>1, <2>3, <2>5, <2>6, GoOnStep
  <1>8. CASE ~ PastEnd(end) /\ BadPath(s)
    <2>1. Fail(400) /\ UNCHANGED <<label, p, r>>
      BY <1>1, <1>8, Zenon
    <2>2. HeadOf(w) = Error(400)
      BY <1>2, <1>4, <1>5, <1>8, PathRead, SMTT(60)
    <2> QED BY <1>1, <2>1, <2>2, FailParse DEF w
  <1> QED BY <1>6, <1>7, <1>8

LEMMA ParseVersionStep ==
  ASSUME IInv, ParseVersion PROVE IInv'
  <1> DEFINE end == Until("cr", r)
             w == Window(Rest)
             s == Span(p, end)
             new == [ta EXCEPT !.version = s[2]]
             good == s \in {<<"h", "1">>, <<"h", "0">>}
             alien == s = <<>> \/ s[1] # "h"
  <1>1. /\ pc = "parse" /\ label = "VERSION" /\ UNCHANGED <<input, taken, req_headers>>
        /\ CASE PastEnd(end) -> NeedMore("VERSION", end)
             [] ~ PastEnd(end) /\ good ->
                  ta' = new /\ GoOn("VERSION_LF", end) /\ UNCHANGED <<pc, results>>
             [] ~ PastEnd(end) /\ alien -> Fail(400) /\ UNCHANGED <<label, p, r>>
             [] OTHER -> Fail(505) /\ UNCHANGED <<label, p, r>>
    BY DEF ParseVersion
  <1>2. TypeOK /\ BufferOK /\ TaOK /\ w \in Text /\ AtVersion(w, ta, p, r)
        /\ r \in 0 .. Len(req_headers) /\ p \in 0 .. r /\ Len(req_headers) \in Nat
        /\ Len(w) \in Nat
    BY <1>1, ParseFacts DEF Progress
  <1>3. None(w, "cr", p + 1, r) /\ ta.headers = <<>>
    BY <1>2 DEF AtVersion
  <1>4. /\ end \in r .. Len(req_headers) /\ end \in 0 .. Len(w)
        /\ PastEnd(end) => None(w, "cr", p + 1, end)
        /\ ~ PastEnd(end) => /\ FirstAt(w, "cr", p + 1) = end + 1
                             /\ end + 1 \in 1 .. Len(w) /\ end + 1 \in 0 .. Len(req_headers)
                             /\ s = Part(w, p + 1, end + 1) /\ s \in Text
    BY <1>2, <1>3, BlockFacts
  <1>5. good => ~ alien /\ s[2] \in {"0", "1"}
    OBVIOUS
  <1> HIDE DEF end, w, s, good, alien
  <1>6. end \in Nat /\ end \in Pointer /\ p \in Nat /\ p <= end
    BY <1>2, <1>4 DEF Pointer
  <1>7. ASSUME ~ PastEnd(end), NEW u, u.headers = ta.headers, u.path = ta.path, u.query = ta.query
        PROVE  /\ alien => HeadOf(w) = Error(400)
               /\ ~ alien /\ ~ good => HeadOf(w) = Error(505)
               /\ good /\ u.version = s[2] => AtVersionLF(w, u, end + 1, end + 1)
    <2>1. /\ FirstAt(w, "cr", p + 1) = end + 1 /\ end + 1 <= Len(w)
          /\ Part(w, p + 1, end + 1) \in Text /\ s = Part(w, p + 1, end + 1)
      BY <1>2, <1>4, <1>6, <1>7
    <2> QED BY <1>2, <1>6, <1>7, <2>1, VersionRead DEF good, alien
  <1>8. CASE PastEnd(end)
    <2>1. NeedMore("VERSION", end)
      BY <1>1, <1>8, Zenon
    <2>2. AtVersion(w, ta, p, end)
      BY <1>2, <1>4, <1>6, <1>8, Zenon DEF AtVersion
    <2>3. Onward(ta, "VERSION", p, end)
      BY <1>2, <1>4, <1>6, <2>2 DEF Onward, Progress, Labels, w, Pointer
    <2> QED BY <1>1, <2>1, <2>3, NeedMoreStep DEF Labels
  <1>9. CASE ~ PastEnd(end) /\ good
    <2>1. ta' = new /\ GoOn("VERSION_LF", end) /\ UNCHANGED <<pc, results>>
      BY <1>1, <1>5, <1>9, Zenon
    <2>2. /\ TaOK' /\ ta'.blk = ta.blk /\ ta'.iter = ta.iter /\ ta'.headers = ta.headers
          /\ ta'.path = ta.path /\ ta'.query = ta.query /\ ta'.version = s[2]
      BY <1>2, <1>5, <1>9, <2>1 DEF TaOK
    <2>3. AtVersionLF(w, ta', end + 1, end + 1)
      BY <1>7, <1>9, <2>2
    <2>4. Progress(Window(Rest), ta', "VERSION_LF", end + 1, end + 1)
      BY <2>3 DEF Progress, w
    <2>5. "VERSION_LF" \in Labels /\ end + 1 <= Len(req_headers)
      BY <1>2, <1>4, <1>6, <1>9 DEF Labels
    <2> QED BY <1>1, <1>6, <2>1, <2>2, <2>4, <2>5, GoOnStep
  <1>10. CASE ~ PastEnd(end) /\ alien
    <2>1. Fail(400) /\ UNCHANGED <<label, p, r>>
      BY <1>1, <1>5, <1>10, Zenon
    <2>2. HeadOf(w) = Error(400)
      BY <1>7, <1>10
    <2> QED BY <1>1, <2>1, <2>2, FailParse DEF w
  <1>11. CASE ~ PastEnd(end) /\ ~ good /\ ~ alien
    <2>1. Fail(505) /\ UNCHANGED <<label, p, r>>
      BY <1>1, <1>11, Zenon
    <2>2. HeadOf(w) = Error(505)
      BY <1>7, <1>11
    <2> QED BY <1>1, <2>1, <2>2, FailParse DEF w
  <1> QED BY <1>8, <1>9, <1>10, <1>11

LEMMA ParseVersionLFStep ==
  ASSUME IInv, ParseVersionLF PROVE IInv'
  <1> DEFINE w == Window(Rest)
             c == Char(r)
  <1>1. /\ pc = "parse" /\ label = "VERSION_LF" /\ UNCHANGED <<input, taken, req_headers>>
        /\ CASE PastEnd(r) -> NeedMore("VERSION_LF", r)
             [] ~ PastEnd(r) /\ c = "lf" -> GoOn("HEAD", r) /\ UNCHANGED <<ta, pc, results>>
             [] OTHER -> Fail(400) /\ UNCHANGED <<label, p, r>>
    BY DEF ParseVersionLF
  <1>2. TaOK /\ w \in Text /\ AtVersionLF(w, ta, p, r) /\ Len(w) \in Nat
        /\ r \in 0 .. Len(req_headers) /\ p \in 0 .. r /\ Len(req_headers) \in Nat
        /\ Len(req_headers) <= Len(w)
        /\ \A k \in 1 .. Len(req_headers) : req_headers[k] = w[k]
    BY <1>1, ParseFacts DEF Progress
  <1>3. p = r /\ r \in Nat /\ r \in Pointer
    BY <1>2 DEF AtVersionLF, Pointer
  <1>4. ~ PastEnd(r) => r + 1 \in 1 .. Len(req_headers) /\ c = w[r + 1] /\ r < Len(w)
    BY <1>2, <1>3 DEF PastEnd, Char, Null
  <1> HIDE DEF w, c
  <1>5. ~ PastEnd(r) => /\ c # "lf" => HeadOf(w) = Error(400)
                        /\ c = "lf" => AtHead(w, ta, r + 1, r + 1)
    BY <1>2, <1>3, <1>4, VersionLFRead
  <1>6. CASE PastEnd(r)
    <2>1. NeedMore("VERSION_LF", r)
      BY <1>1, <1>6, Zenon
    <2>2. Onward(ta, "VERSION_LF", p, r)
      BY <1>2, <1>3 DEF Onward, Progress, Labels, w
    <2> QED BY <1>1, <2>1, <2>2, NeedMoreStep DEF Labels
  <1>7. CASE ~ PastEnd(r) /\ c = "lf"
    <2>1. GoOn("HEAD", r) /\ UNCHANGED <<ta, pc, results>>
      BY <1>1, <1>7, Zenon
    <2>2. Progress(Window(Rest), ta', "HEAD", r + 1, r + 1)
      BY <1>5, <1>7, <2>1 DEF Progress, w
    <2>3. TaOK'
      BY <1>2, <2>1 DEF TaOK
    <2>4. "HEAD" \in Labels /\ r + 1 <= Len(req_headers)
      BY <1>2, <1>3, <1>4, <1>7 DEF Labels
    <2> QED BY <1>1, <1>3, <2>1, <2>2, <2>3, <2>4, GoOnStep
  <1>8. CASE ~ PastEnd(r) /\ c # "lf"
    <2>1. Fail(400) /\ UNCHANGED <<label, p, r>>
      BY <1>1, <1>8, Zenon
    <2>2. HeadOf(w) = Error(400)
      BY <1>5, <1>8
    <2> QED BY <1>1, <2>1, <2>2, FailParse DEF w
  <1> QED BY <1>6, <1>7, <1>8

LEMMA ParseHeadStep ==
  ASSUME IInv, ParseHead PROVE IInv'
  <1> DEFINE end == Until("cr", r)
             w == Window(Rest)
             s == Span(p, end)
             x == <<Name(s), Value(s)>>
             new == [ta EXCEPT !.headers = Append(@, x)]
  <1>1. /\ pc = "parse" /\ label = "HEAD" /\ UNCHANGED <<input, taken, req_headers>>
        /\ CASE PastEnd(end) -> NeedMore("HEAD", end)
             [] ~ PastEnd(end) /\ end = p ->
                  label' = "HEAD_LF" /\ r' = end + 1 /\ UNCHANGED <<ta, pc, p, results>>
             [] ~ PastEnd(end) /\ end # p /\ ~ BadHeader(s) ->
                  ta' = new /\ GoOn("HEAD_LF", end) /\ UNCHANGED <<pc, results>>
             [] OTHER -> Fail(400) /\ UNCHANGED <<label, p, r>>
    BY DEF ParseHead
  <1>2. TypeOK /\ BufferOK /\ TaOK /\ w \in Text /\ AtHead(w, ta, p, r)
        /\ r \in 0 .. Len(req_headers) /\ p \in 0 .. r /\ Len(req_headers) \in Nat
        /\ Len(w) \in Nat /\ ta.headers \in Seq(Field)
    BY <1>1, ParseFacts DEF Progress
  <1>3. None(w, "cr", p + 1, r)
    BY <1>2 DEF AtHead
  <1>4. /\ end \in r .. Len(req_headers) /\ end \in 0 .. Len(w)
        /\ PastEnd(end) => None(w, "cr", p + 1, end)
        /\ ~ PastEnd(end) => /\ FirstAt(w, "cr", p + 1) = end + 1
                             /\ end + 1 \in 1 .. Len(w) /\ end + 1 \in 0 .. Len(req_headers)
                             /\ s = Part(w, p + 1, end + 1) /\ s \in Text
    BY <1>2, <1>3, BlockFacts
  <1>5. s \in Text /\ ~ BadHeader(s) => x \in Field
    BY LineFacts
  <1> HIDE DEF end, w, s
  <1>6. end \in Nat /\ end \in Pointer /\ p \in Nat /\ p <= end /\ p \in Pointer
    BY <1>2, <1>4 DEF Pointer
  <1>7. ASSUME ~ PastEnd(end), NEW u, u.version = ta.version, u.path = ta.path, u.query = ta.query
        PROVE  /\ end = p => AtHeadLF(w, ta, p, end + 1)
               /\ end # p /\ BadHeader(s) => HeadOf(w) = Error(400)
               /\ end # p /\ ~ BadHeader(s) /\ u.headers = Append(ta.headers, x) =>
                    AtHeadLF(w, u, end + 1, end + 1)
    <2>1. /\ FirstAt(w, "cr", p + 1) = end + 1 /\ end + 1 <= Len(w)
          /\ Part(w, p + 1, end + 1) \in Text /\ s = Part(w, p + 1, end + 1)
      BY <1>2, <1>4, <1>6, <1>7
    <2> QED BY <1>2, <1>6, <1>7, <2>1, HeadRead, SMTT(60)
  <1> HIDE DEF x
  <1>8. CASE PastEnd(end)
    <2>1. NeedMore("HEAD", end)
      BY <1>1, <1>8, Zenon
    <2>2. AtHead(w, ta, p, end)
      BY <1>2, <1>4, <1>6, <1>8 DEF AtHead
    <2>3. Onward(ta, "HEAD", p, end)
      BY <1>2, <1>4, <1>6, <2>2 DEF Onward, Progress, Labels, w, Pointer
    <2> QED BY <1>1, <2>1, <2>3, NeedMoreStep DEF Labels
  <1>9. CASE ~ PastEnd(end) /\ end = p
    <2>1. label' = "HEAD_LF" /\ r' = end + 1 /\ UNCHANGED <<ta, pc, p, results>>
      BY <1>1, <1>9, Zenon
    <2>2. AtHeadLF(w, ta, p, end + 1)
      BY <1>7, <1>9
    <2>3. end + 1 \in Pointer /\ p <= end + 1
      BY <1>2, <1>4, <1>6, <1>9 DEF Pointer
    <2>4. Onward(ta, "HEAD_LF", p, end + 1)
      BY <1>6, <2>2, <2>3 DEF Onward, Progress, Labels, w
    <2>5. TaOK'
      BY <1>2, <2>1 DEF TaOK
    <2>6. pc' = "parse" /\ pc' # "read"
      BY <1>1, <2>1
    <2>7. Onward(ta', IF pc' = "read" THEN ta'.parse_state ELSE label', p', r')
      BY <2>1, <2>4, <2>6, Zenon
    <2>8. ta'.blk = ta.blk /\ ta'.iter = ta.iter /\ label' \in Labels
      BY <2>1 DEF Labels
    <2> QED BY <1>1, <2>1, <2>5, <2>6, <2>7, <2>8, OnwardStep
  <1>10. CASE ~ PastEnd(end) /\ end # p /\ ~ BadHeader(s)
    <2>1. ta' = new /\ GoOn("HEAD_LF", end) /\ UNCHANGED <<pc, results>>
      BY <1>1, <1>10, Zenon
    <2>2. x \in Field
      BY <1>4, <1>5, <1>10
    <2>3. Append(ta.headers, x) \in Seq(Field)
      BY <1>2, <2>2, AppendProperties
    <2>4. /\ TaOK' /\ ta'.blk = ta.blk /\ ta'.iter = ta.iter /\ ta'.version = ta.version
          /\ ta'.path = ta.path /\ ta'.query = ta.query /\ ta'.headers = Append(ta.headers, x)
      BY <1>2, <2>1, <2>3 DEF TaOK
    <2>5. AtHeadLF(w, ta', end + 1, end + 1)
      BY <1>7, <1>10, <2>4
    <2>6. Progress(Window(Rest), ta', "HEAD_LF", end + 1, end + 1)
      BY <2>5 DEF Progress, w
    <2>7. "HEAD_LF" \in Labels /\ end + 1 <= Len(req_headers)
      BY <1>2, <1>4, <1>6, <1>10 DEF Labels
    <2> QED BY <1>1, <1>6, <2>1, <2>4, <2>6, <2>7, GoOnStep
  <1>11. CASE ~ PastEnd(end) /\ end # p /\ BadHeader(s)
    <2>1. Fail(400) /\ UNCHANGED <<label, p, r>>
      BY <1>1, <1>11, Zenon
    <2>2. HeadOf(w) = Error(400)
      BY <1>7, <1>11
    <2> QED BY <1>1, <2>1, <2>2, FailParse DEF w
  <1> QED BY <1>8, <1>9, <1>10, <1>11

(* The head the window begins with is complete: it is the next result.     *)
LEMMA FoundHead ==
  ASSUME IInv, NEW h, h = HeadOf(Window(Rest)), h.status = 0, NEW n \in Nat, h.end = n + 1
  PROVE  /\ AllHeads(input)[Base + 1] = <<Strip(h)>> \o AllHeads(input)[Base + n + 1]
         /\ Strip(h) \in Result /\ Base + n + 1 \in 1 .. Len(input) + 1
  <1>1. /\ Rest \in Text /\ Len(Rest) = Len(input) - Base
        /\ Base \in Nat /\ Base + 1 \in 1 .. Len(input) + 1
        /\ input \in Text /\ Len(input) \in Nat
    BY WindowOK, InputFacts DEF IInv
  <1>2. h # Incomplete /\ h \notin Failure
    <2>1. Incomplete.status = -1 /\ \A f \in Failure : f.status # 0
      BY DEF Incomplete, Failure, Error
    <2> QED BY <2>1
  <1>3. Limited(Rest) = h /\ h \in Shape(Len(Rest))
    BY <1>1, <1>2, LimitedFacts
  <1> DEFINE b == Base
             k == b + 1
  <1>4. h \in Complete(3 .. Len(Rest) + 1)
    BY <1>2, <1>3 DEF Shape
  <1>5. Len(input) - k + 1 + 1 = Len(Rest) + 1
    BY <1>1
  <1>6. h \in Complete(3 .. Len(input) - k + 1 + 1)
    BY <1>4, <1>5, Zenon
  <1>7. h = Limited(SubSeq(input, k, Len(input))) /\ k \in 1 .. Len(input) + 1
    BY <1>1, <1>3 DEF Rest
  <1> HIDE DEF k
  <1>8. /\ AllHeads(input)[k] = <<Strip(h)>> \o AllHeads(input)[k + h.end - 1]
        /\ Strip(h) \in Result /\ k + h.end - 1 \in k + 1 .. Len(input) + 1
    BY <1>1, <1>6, <1>7, CompleteHeads
  <1> HIDE DEF b
  <1>9. k + h.end - 1 = b + n + 1 /\ k = b + 1 /\ b \in Nat
    BY <1>1 DEF k, b
  <1>10. b + n + 1 \in k + 1 .. Len(input) + 1
    BY <1>8, <1>9
  <1>11. b + n + 1 \in 1 .. Len(input) + 1
    BY <1>1, <1>9, <1>10
  <1> QED BY <1>8, <1>9, <1>11, Zenon DEF b

LEMMA HeadDone ==
  ASSUME IInv, pc = "parse", NEW n \in 0 .. Len(req_headers), NEW t, t = ta,
         UNCHANGED <<input, taken, req_headers, label, ta>>,
         pc' = "head", p' = n, r' = n, results' = Append(results, Parsed(t)),
         HeadOf(Window(Rest)) =
           [status |-> 0, path |-> t.path, query |-> t.query,
            version |-> t.version, headers |-> t.headers, end |-> n + 1]
  PROVE  IInv'
  <1> DEFINE h == HeadOf(Window(Rest))
             b == Base
  <1>1. TypeOK /\ TaOK /\ BufferOK /\ FoundOK /\ BufferOK' /\ Base' = Base
    BY SameBuffer DEF IInv
  <1>2. Len(req_headers) \in Nat /\ n \in Nat /\ b \in Nat /\ input \in Text
    BY <1>1, WindowOK, InputFacts
  <1>3. h.status = 0 /\ h.end = n + 1 /\ Strip(h) = Parsed(t)
    BY DEF Strip, Parsed
  <1> HIDE DEF h, b
  <1>4. /\ AllHeads(input)[b + 1] = <<Strip(h)>> \o AllHeads(input)[b + n + 1]
        /\ Strip(h) \in Result /\ b + n + 1 \in 1 .. Len(input) + 1
    BY <1>2, <1>3, FoundHead DEF h, b
  <1>5. AllHeads(input)[b + n + 1] \in Seq(Result)
    BY <1>2, <1>4, AllHeadsSeq
  <1>6. results \in Seq(Result) /\ HeadsOf(input) = results \o AllHeads(input)[b + 1]
    BY <1>1 DEF FoundOK, b
  <1>7. results' \in Seq(Result) /\ results' = results \o <<Strip(h)>>
    BY <1>3, <1>4, <1>6, AppendProperties, AppendIsConcat, SMTT(60)
  <1>8. HeadsOf(input) = results' \o AllHeads(input)[b + n + 1]
    <2> DEFINE x == <<Strip(h)>>
               y == AllHeads(input)[b + n + 1]
    <2>1. x \in Seq(Result)
      BY <1>4
    <2>2. y \in Seq(Result)
      BY <1>5
    <2> HIDE DEF x, y
    <2>3. results \o (x \o y) = (results \o x) \o y
      <3>1. Associated(results, x, y)
        BY <1>6, <2>1, <2>2, ConcatThree
      <3> QED BY <3>1, Zenon DEF Associated
    <2> QED BY <1>4, <1>6, <1>7, <2>3, Zenon DEF x, y
  <1>9. FoundOK'
    <2>1. Base' + p' + 1 = b + n + 1
      BY <1>1 DEF b
    <2>2. HeadsOf(input)' = HeadsOf(input) /\ AllHeads(input)' = AllHeads(input)
      OBVIOUS
    <2>3. HeadsOf(input)' = results' \o AllHeads(input)'[Base' + p' + 1]
      BY <1>8, <2>1, <2>2
    <2> QED BY <1>7, <2>3 DEF FoundOK
  <1>10. TaOK'
    BY <1>1 DEF TaOK
  <1>11. ParseOK'
    BY <1>2 DEF ParseOK
  <1>12. TypeOK'
    BY <1>1, <1>2 DEF TypeOK
  <1> QED BY <1>1, <1>9, <1>10, <1>11, <1>12 DEF IInv

LEMMA ParseHeadLFStep ==
  ASSUME IInv, ParseHeadLF PROVE IInv'
  <1> DEFINE w == Window(Rest)
             c == Char(r)
  <1>1. /\ pc = "parse" /\ label = "HEAD_LF" /\ UNCHANGED <<input, taken, req_headers>>
        /\ CASE PastEnd(r) -> NeedMore("HEAD_LF", r)
             [] ~ PastEnd(r) /\ c # "lf" -> Fail(400) /\ UNCHANGED <<label, p, r>>
             [] ~ PastEnd(r) /\ c = "lf" /\ r = p ->
                  GoOn("HEAD", r) /\ UNCHANGED <<ta, pc, results>>
             [] OTHER -> /\ pc' = "head" /\ p' = r + 1 /\ r' = r + 1
                         /\ results' = Append(results, Parsed(ta))
                         /\ UNCHANGED <<ta, label>>
    BY DEF ParseHeadLF
  <1>2. TaOK /\ w \in Text /\ AtHeadLF(w, ta, p, r) /\ Len(w) \in Nat
        /\ r \in 0 .. Len(req_headers) /\ p \in 0 .. r /\ Len(req_headers) \in Nat
        /\ Len(req_headers) <= Len(w) /\ ta.headers \in Seq(Field)
        /\ \A k \in 1 .. Len(req_headers) : req_headers[k] = w[k]
    BY <1>1, ParseFacts DEF Progress
  <1>3. r \in Nat /\ r \in Pointer /\ p \in Int /\ p \in Pointer
    BY <1>2 DEF Pointer
  <1>4. ~ PastEnd(r) => r + 1 \in 1 .. Len(req_headers) /\ c = w[r + 1] /\ r < Len(w)
    BY <1>2, <1>3 DEF PastEnd, Char, Null
  <1> HIDE DEF w, c
  <1>5. ~ PastEnd(r) =>
          /\ c # "lf" => HeadOf(w) = Error(400)
          /\ c = "lf" /\ r = p => AtHead(w, ta, r + 1, r + 1)
          /\ c = "lf" /\ r # p =>
               HeadOf(w) = [status |-> 0, path |-> ta.path, query |-> ta.query,
                            version |-> ta.version, headers |-> ta.headers, end |-> r + 2]
    BY <1>2, <1>3, <1>4, HeadLFRead
  <1>6. CASE PastEnd(r)
    <2>1. NeedMore("HEAD_LF", r)
      BY <1>1, <1>6, Zenon
    <2>2. Onward(ta, "HEAD_LF", p, r)
      BY <1>2, <1>3 DEF Onward, Progress, Labels, w
    <2> QED BY <1>1, <2>1, <2>2, NeedMoreStep DEF Labels
  <1>7. CASE ~ PastEnd(r) /\ c # "lf"
    <2>1. Fail(400) /\ UNCHANGED <<label, p, r>>
      BY <1>1, <1>7, Zenon
    <2>2. HeadOf(w) = Error(400)
      BY <1>5, <1>7
    <2> QED BY <1>1, <2>1, <2>2, FailParse DEF w
  <1>8. CASE ~ PastEnd(r) /\ c = "lf" /\ r = p
    <2>1. GoOn("HEAD", r) /\ UNCHANGED <<ta, pc, results>>
      BY <1>1, <1>8, Zenon
    <2>2. Progress(Window(Rest), ta', "HEAD", r + 1, r + 1)
      BY <1>5, <1>8, <2>1 DEF Progress, w
    <2>3. TaOK'
      BY <1>2, <2>1 DEF TaOK
    <2>4. "HEAD" \in Labels /\ r + 1 <= Len(req_headers)
      BY <1>2, <1>3, <1>4, <1>8 DEF Labels
    <2> QED BY <1>1, <1>3, <2>1, <2>2, <2>3, <2>4, GoOnStep
  <1>9. CASE ~ PastEnd(r) /\ c = "lf" /\ r # p
    <2>1. /\ pc' = "head" /\ p' = r + 1 /\ r' = r + 1
          /\ results' = Append(results, Parsed(ta)) /\ UNCHANGED <<ta, label>>
      BY <1>1, <1>9, Zenon
    <2>2. r + 1 \in 0 .. Len(req_headers) /\ r + 2 = (r + 1) + 1
      BY <1>2, <1>3, <1>4, <1>9
    <2>3. HeadOf(w) = [status |-> 0, path |-> ta.path, query |-> ta.query,
                       version |-> ta.version, headers |-> ta.headers, end |-> (r + 1) + 1]
      BY <1>5, <1>9, <2>2
    <2> QED BY <1>1, <2>1, <2>2, <2>3, HeadDone DEF w
  <1> QED BY <1>6, <1>7, <1>8, <1>9

-----------------------------------------------------------------------------
(* The steps of read_more.                                                 *)
LEMMA ReadFacts ==
  ASSUME IInv, pc = "read"
  PROVE  /\ TypeOK /\ BufferOK /\ TaOK /\ FoundOK
         /\ Window(Rest) \in Text /\ Len(Window(Rest)) \in Nat /\ Len(req_headers) \in Nat
         /\ Len(req_headers) <= Len(Window(Rest)) /\ Len(req_headers) <= BufSz /\ BufSz \in Nat
         /\ Progress(Window(Rest), ta, ta.parse_state, p, r)
         /\ p \in Pointer /\ r \in Pointer /\ p <= r /\ p \in Int /\ r \in Int
         /\ ta.parse_state \in Labels
  <1>1. TypeOK /\ BufferOK /\ TaOK /\ FoundOK /\ Progress(Window(Rest), ta, ta.parse_state, p, r)
    BY DEF IInv, ParseOK
  <1>2. /\ Window(Rest) \in Text /\ Len(Window(Rest)) \in Nat /\ Len(req_headers) \in Nat
        /\ Len(req_headers) <= Len(Window(Rest))
    BY <1>1, WindowOK
  <1>3. p \in Pointer /\ r \in Pointer /\ p <= r /\ ta.parse_state \in Labels
        /\ Len(req_headers) <= BufSz
    BY <1>1 DEF TypeOK, Pointer, Labels
  <1>4. p \in Int /\ r \in Int
    BY <1>2, <1>3 DEF Pointer, Null
  <1> QED BY <1>1, <1>2, <1>3, <1>4, InputAssumption

(* The parser is entered where it was left; no character is lost.          *)
LEMMA EnterStep ==
  ASSUME IInv, pc = "read", EnterParser, UNCHANGED <<input, ta, p, r, results>>,
         TypeOK', BufferOK', Base' = Base
  PROVE  IInv'
  <1>1. /\ pc' = "parse" /\ label' = ta.parse_state /\ TaOK /\ FoundOK
        /\ Progress(Window(Rest), ta, ta.parse_state, p, r)
    BY ReadFacts DEF EnterParser
  <1>2. Rest' = Rest
    BY Zenon DEF Rest
  <1>3. Window(Rest)' = Window(Rest)
    BY <1>2, Zenon DEF Window
  <1>4. Progress(Window(Rest)', ta', label', p', r')
    BY <1>1, <1>3, Zenon
  <1>5. ParseOK'
    BY <1>1, <1>4 DEF ParseOK
  <1>6. TaOK'
    BY <1>1 DEF TaOK
  <1>7. FoundOK'
    BY <1>1 DEF FoundOK
  <1> QED BY <1>5, <1>6, <1>7 DEF IInv

LEMMA ReadDataStep ==
  ASSUME IInv, ReadData PROVE IInv'
  <1>1. PICK n \in 1 .. Space :
          /\ taken + n <= Len(input)
          /\ req_headers' = req_headers \o SubSeq(input, taken + 1, taken + n)
          /\ taken' = taken + n
    BY Zenon DEF ReadData
  <1>2. pc = "read" /\ EnterParser /\ UNCHANGED <<input, ta, p, r, results>>
    BY Zenon DEF ReadData
  <1> DEFINE t == taken
             m == Len(req_headers)
             new == SubSeq(input, t + 1, t + n)
  <1>3. /\ TypeOK /\ BufferOK /\ TaOK /\ m \in Nat /\ input \in Text /\ Len(input) \in Nat
        /\ t \in Nat /\ BufSz \in Nat /\ req_headers \in Text /\ Base \in Nat
        /\ Base = t - m
    BY <1>2, ReadFacts, InputFacts, WindowOK DEF BufferOK, Base
  <1>4. n \in Nat /\ n >= 1 /\ m + n <= BufSz /\ t + n <= Len(input) /\ t + n \in Nat
    BY <1>1, <1>3 DEF Space
  <1>5. /\ new \in Text /\ Len(new) = n
        /\ \A k \in 1 .. n : new[k] = input[t + k]
    <2>1. t + 1 \in 1 .. Len(input) + 1 /\ t + n \in 0 .. Len(input)
      BY <1>3, <1>4
    <2>2. /\ new \in Text
          /\ Len(new) = IF t + 1 <= t + n THEN t + n - (t + 1) + 1 ELSE 0
          /\ \A k \in 1 .. t + n - (t + 1) + 1 : new[k] = input[t + 1 + k - 1]
      BY <1>3, <2>1, SubSeqFacts DEF Text
    <2>3. t + 1 <= t + n /\ t + n - (t + 1) + 1 = n /\ \A k \in 1 .. n : t + 1 + k - 1 = t + k
      BY <1>3, <1>4
    <2> QED BY <2>2, <2>3
  <1>6. req_headers' = req_headers \o new /\ taken' = t + n
    BY <1>1
  <1> HIDE DEF new
  <1>7. /\ req_headers' \in Text /\ Len(req_headers') = m + n
        /\ \A k \in 1 .. m : req_headers'[k] = req_headers[k]
        /\ \A k \in m + 1 .. m + n : req_headers'[k] = new[k - m]
    <2> DEFINE old == req_headers
    <2>1. old \in Seq(Chars) /\ new \in Seq(Chars) /\ Len(old) = m
      BY <1>3, <1>5 DEF Text
    <2> HIDE DEF old, m
    <2>2. /\ old \o new \in Seq(Chars) /\ Len(old \o new) = Len(old) + Len(new)
          /\ \A k \in 1 .. Len(old) + Len(new) :
               (old \o new)[k] = IF k <= Len(old) THEN old[k] ELSE new[k - Len(old)]
      BY <2>1, ConcatProperties
    <2>3. /\ \A k \in 1 .. m : k \in 1 .. m + n /\ k <= m
          /\ \A k \in m + 1 .. m + n : k \in 1 .. m + n /\ ~ (k <= m)
      BY <1>3, <1>4
    <2>4. req_headers' = old \o new
      BY <1>6 DEF old
    <2>5. /\ Len(old \o new) = m + n
          /\ \A k \in 1 .. m : (old \o new)[k] = old[k]
          /\ \A k \in m + 1 .. m + n : (old \o new)[k] = new[k - m]
      BY <1>5, <2>1, <2>2, <2>3
    <2> QED BY <2>2, <2>4, <2>5 DEF old, Text
  <1>8. Base' = Base
    <2>1. Base' = (t + n) - (m + n)
      BY <1>6, <1>7 DEF Base
    <2> QED BY <1>3, <1>4, <2>1
  <1>9. BufferOK'
    <2>1. \A k \in 1 .. m : req_headers[k] = input[Base + k]
      BY <1>3 DEF BufferOK
    <2>2. \A k \in m + 1 .. m + n : k - m \in 1 .. n /\ t + (k - m) = Base + k
      BY <1>3, <1>4
    <2>3. \A k \in 1 .. m + n : k \in 1 .. m \/ k \in m + 1 .. m + n
      BY <1>3, <1>4
    <2>4. \A k \in 1 .. m + n : req_headers'[k] = input[Base + k]
      BY <1>5, <1>7, <2>1, <2>2, <2>3
    <2> QED BY <1>2, <1>3, <1>7, <1>8, <2>4 DEF BufferOK
  <1>10. TypeOK'
    <2>1. Pointer \subseteq Pointer'
      BY <1>3, <1>4, <1>7 DEF Pointer
    <2>2. {p, r, ta.blk, ta.iter} \subseteq Pointer /\ p <= r /\ input \in Inputs
          /\ ta.parse_state \in Labels
      BY <1>3 DEF TypeOK, Pointer, Labels
    <2>3. {p, r, ta.blk, ta.iter} \subseteq Pointer'
      BY <2>1, <2>2
    <2>4. taken' \in 0 .. Len(input) /\ Len(req_headers') <= BufSz
      BY <1>3, <1>4, <1>6, <1>7
    <2> QED BY <1>2, <2>2, <2>3, <2>4 DEF TypeOK, EnterParser, Labels, Pointer
  <1> QED BY <1>2, <1>8, <1>9, <1>10, EnterStep

LEMMA EnterSameStep ==
  ASSUME IInv, pc = "read", EnterParser,
         UNCHANGED <<input, taken, req_headers, ta, p, r, results>>
  PROVE  IInv'
  <1>1. TypeOK /\ ta.parse_state \in Labels
    BY ReadFacts
  <1>2. TypeOK'
    BY <1>1 DEF TypeOK, EnterParser, Labels
  <1>3. BufferOK' /\ Base' = Base
    BY SameBuffer
  <1> QED BY <1>2, <1>3, EnterStep

LEMMA ReadBlockStep ==
  ASSUME IInv, ReadBlock PROVE IInv'
  <1>1. pc = "read" /\ Space > 0 /\ UNCHANGED <<input, taken, req_headers, p, r, results>>
    BY DEF ReadBlock
  <1>2. CASE PastEnd(r)
    <2> DEFINE w == Window(Rest)
    <2>1. ta' = [ta EXCEPT !.blk = p, !.iter = r] /\ pc' = "blocked" /\ UNCHANGED label
      BY <1>2 DEF ReadBlock
    <2>2. /\ TypeOK /\ TaOK /\ FoundOK /\ BufferOK' /\ Base' = Base
          /\ Len(req_headers) \in Nat /\ BufSz \in Nat
          /\ Progress(w, ta, ta.parse_state, p, r)
          /\ p \in Pointer /\ r \in Pointer /\ p \in Int /\ r \in Int
      BY <1>1, ReadFacts, SameBuffer
    <2>3. r = Len(req_headers) /\ Len(req_headers) < BufSz
      BY <1>1, <1>2, <2>2 DEF PastEnd, Pointer, Space
    <2>4. /\ TaOK' /\ ta'.parse_state = ta.parse_state /\ ta'.blk = p /\ ta'.iter = r
          /\ ta'.path = ta.path /\ ta'.query = ta.query /\ ta'.version = ta.version
          /\ ta'.headers = ta.headers
      BY <2>1, <2>2 DEF TaOK
    <2>5. Progress(w, ta', ta'.parse_state, ta'.blk, ta'.iter)
      BY <2>2, <2>4, SameFields, Zenon
    <2>6. w' = w
      BY <1>1, SameBuffer
    <2> HIDE DEF w
    <2>7. Progress(w', ta', ta'.parse_state, ta'.blk, ta'.iter)
      BY <2>5, <2>6
    <2>8. ParseOK'
      BY <1>1, <2>1, <2>3, <2>4, <2>7 DEF ParseOK, w
    <2>9. TypeOK'
      BY <1>1, <2>1, <2>2, <2>4 DEF TypeOK, Pointer
    <2>10. FoundOK'
      BY <1>1, <2>1, <2>2 DEF FoundOK
    <2> QED BY <2>2, <2>4, <2>8, <2>9, <2>10 DEF IInv
  <1>3. CASE ~ PastEnd(r)
    <2>1. EnterParser /\ UNCHANGED ta
      BY <1>3 DEF ReadBlock
    <2> QED BY <1>1, <2>1, EnterSameStep
  <1> QED BY <1>2, <1>3

LEMMA ReadFullStep ==
  ASSUME IInv, ReadFull PROVE IInv'
  <1>1. pc = "read" /\ Space = 0 /\ UNCHANGED <<input, taken, req_headers, p, r>>
    BY DEF ReadFull
  <1>2. CASE PastEnd(r)
    <2> DEFINE w == Window(Rest)
    <2>1. Fail(431) /\ UNCHANGED label
      BY <1>2 DEF ReadFull
    <2>2. /\ TypeOK /\ BufferOK /\ w \in Text /\ Len(w) \in Nat /\ Len(req_headers) <= Len(w)
          /\ Len(req_headers) \in Nat /\ BufSz \in Nat
          /\ Progress(w, ta, ta.parse_state, p, r) /\ ta.parse_state \in Labels
          /\ r \in Pointer /\ p \in Int /\ r \in Int
      BY <1>1, ReadFacts
    <2>3. r = Len(req_headers) /\ Len(req_headers) = BufSz
      BY <1>1, <1>2, <2>2 DEF PastEnd, Pointer, Space
    <2>4. /\ Len(w) = IF Len(Rest) < BufSz THEN Len(Rest) ELSE BufSz
          /\ Rest \in Text /\ Len(Rest) \in Nat
      BY <2>2, WindowOK DEF Text
    <2>5. r = Len(w) /\ Len(Rest) >= BufSz
      BY <2>2, <2>3, <2>4
    <2> HIDE DEF w
    <2>6. HeadOf(w) = Incomplete
      <3>1. r \in Nat
        BY <2>2, <2>3
      <3> QED BY <2>2, <2>5, <3>1, AtEndIncomplete
    <2>7. Limited(Rest) = Error(431)
      BY <2>4, <2>5, <2>6, LimitedFacts DEF w
    <2>8. 431 \in {400, 431, 501, 505} /\ pc \in {"read", "parse"}
      BY <1>1
    <2> QED BY <1>1, <2>1, <2>7, <2>8, FailStep
  <1>3. CASE ~ PastEnd(r)
    <2>1. EnterParser /\ UNCHANGED <<ta, results>>
      BY <1>3 DEF ReadFull
    <2> QED BY <1>1, <2>1, EnterSameStep
  <1> QED BY <1>2, <1>3

LEMMA BlockedFacts ==
  ASSUME IInv, pc = "blocked"
  PROVE  /\ TypeOK /\ TaOK /\ BufferOK /\ FoundOK
         /\ Window(Rest) \in Text /\ Len(Window(Rest)) \in Nat /\ Len(req_headers) \in Nat
         /\ Progress(Window(Rest), ta, ta.parse_state, ta.blk, ta.iter)
         /\ Len(req_headers) < BufSz /\ ta.iter = Len(req_headers)
         /\ ta.blk \in 0 .. ta.iter /\ ta.parse_state \in Labels
  <1>1. /\ TypeOK /\ TaOK /\ BufferOK /\ FoundOK
        /\ Progress(Window(Rest), ta, ta.parse_state, ta.blk, ta.iter)
        /\ Len(req_headers) < BufSz /\ ta.iter = Len(req_headers)
    BY DEF IInv, ParseOK
  <1>2. /\ Window(Rest) \in Text /\ Len(Window(Rest)) \in Nat /\ Len(req_headers) \in Nat
    BY <1>1, WindowOK
  <1>3. ta.parse_state \in Labels /\ ta.blk \in Int /\ ta.iter \in Nat
    BY <1>1, <1>2 DEF TaOK
  <1>4. ta.blk \in 0 .. ta.iter
    BY <1>1, <1>3
       DEF Labels, Progress, AtMethod, AtPath, AtVersion, AtVersionLF, AtHead, AtHeadLF, Null
  <1> QED BY <1>1, <1>2, <1>3, <1>4

LEMMA ResumeStep ==
  ASSUME IInv, Resume PROVE IInv'
  <1> DEFINE w == Window(Rest)
  <1>1. /\ pc = "blocked" /\ p' = ta.blk /\ r' = ta.iter /\ pc' = "read"
        /\ UNCHANGED <<input, taken, req_headers, ta, label, results>>
    BY DEF Resume
  <1>2. /\ TypeOK /\ TaOK /\ BufferOK' /\ FoundOK /\ Base' = Base
        /\ Progress(w, ta, ta.parse_state, ta.blk, ta.iter)
        /\ ta.iter = Len(req_headers) /\ ta.blk \in 0 .. ta.iter /\ Len(req_headers) \in Nat
    BY <1>1, BlockedFacts, SameBuffer
  <1>3. w' = w
    BY <1>1, SameBuffer
  <1> HIDE DEF w
  <1>4. Progress(w', ta', ta'.parse_state, p', r')
    BY <1>1, <1>2, <1>3, Zenon
  <1>5. ParseOK'
    BY <1>1, <1>4 DEF ParseOK, w
  <1>6. TypeOK'
    BY <1>1, <1>2 DEF TypeOK
  <1>7. TaOK'
    BY <1>1, <1>2 DEF TaOK
  <1>8. FoundOK'
    BY <1>1, <1>2 DEF FoundOK
  <1> QED BY <1>2, <1>5, <1>6, <1>7, <1>8 DEF IInv

(* Behind a complete head the next one begins.                             *)
LEMMA FinalizeStep ==
  ASSUME IInv, Finalize PROVE IInv'
  <1> DEFINE m == Len(req_headers)
             b == Base
  <1>1. /\ pc = "head" /\ req_headers' = SubSeq(req_headers, p + 1, m)
        /\ ta' = ZeroTa /\ pc' = "read" /\ p' = Null /\ r' = Null
        /\ UNCHANGED <<input, taken, label, results>>
    BY DEF Finalize
  <1>2. TypeOK /\ BufferOK /\ FoundOK /\ p >= 0
    BY <1>1 DEF IInv, ParseOK
  <1>3. m \in Nat /\ b \in Nat /\ b = taken - m /\ input \in Text /\ taken \in Nat
        /\ Len(input) \in Nat
    BY <1>2, WindowOK, InputFacts DEF Base
  <1>4. p \in 0 .. m
    BY <1>2, <1>3 DEF TypeOK, Null
  <1>5. /\ req_headers' \in Text /\ Len(req_headers') = m - p
        /\ \A k \in 1 .. m - p : req_headers'[k] = req_headers[p + k]
    <2>1. p + 1 \in 1 .. m + 1 /\ m \in 0 .. m
      BY <1>3, <1>4
    <2>2. /\ SubSeq(req_headers, p + 1, m) \in Text
          /\ Len(SubSeq(req_headers, p + 1, m)) = IF p + 1 <= m THEN m - (p + 1) + 1 ELSE 0
          /\ \A k \in 1 .. m - (p + 1) + 1 :
               SubSeq(req_headers, p + 1, m)[k] = req_headers[p + 1 + k - 1]
      BY <1>2, <2>1, SubSeqFacts, SMTT(60) DEF Text, BufferOK
    <2>3. m - (p + 1) + 1 = m - p /\ \A k \in 1 .. m - p : p + 1 + k - 1 = p + k
      BY <1>3, <1>4
    <2>4. (IF p + 1 <= m THEN m - (p + 1) + 1 ELSE 0) = m - p
      BY <1>3, <1>4
    <2> QED BY <1>1, <2>2, <2>3, <2>4
  <1> HIDE DEF m
  <1>6. Base' = b + p
    <2>1. Base' = taken - (m - p)
      BY <1>1, <1>5 DEF Base
    <2> QED BY <1>3, <1>4, <2>1
  <1>7. BufferOK'
    <2>1. \A k \in 1 .. m : req_headers[k] = input[b + k]
      BY <1>2 DEF BufferOK, m
    <2>2. \A k \in 1 .. m - p : p + k \in 1 .. m /\ b + (p + k) = (b + p) + k
      BY <1>3, <1>4
    <2>3. \A k \in 1 .. m - p : req_headers'[k] = input[(b + p) + k]
      BY <1>5, <2>1, <2>2
    <2>4. Base' >= 0
      BY <1>3, <1>4, <1>6
    <2>5. \A k \in 1 .. Len(req_headers') : req_headers'[k] = input'[Base' + k]
      BY <1>1, <1>5, <1>6, <2>3
    <2> QED BY <1>5, <2>4, <2>5, Zenon DEF BufferOK
  <1>8. TypeOK'
    <2>1. /\ input \in Inputs /\ taken \in 0 .. Len(input) /\ m <= BufSz
          /\ label \in Labels
      BY <1>2 DEF TypeOK, Labels, m
    <2>2. Len(req_headers') <= BufSz
      BY <1>3, <1>4, <1>5, <2>1, InputAssumption
    <2>3. /\ ta'.parse_state = "NEW" /\ ta'.blk = Null /\ ta'.iter = Null
          /\ p' = Null /\ r' = Null /\ pc' = "read"
      BY <1>1 DEF ZeroTa
    <2>4. p' <= r'
      BY <2>3 DEF Null
    <2>5. {label', ta'.parse_state} \subseteq Labels
      BY <1>1, <2>1, <2>3 DEF Labels
    <2>6. {p', r', ta'.blk, ta'.iter} \subseteq {Null} \union 0 .. Len(req_headers')
      BY <2>3
    <2>7. input' \in Inputs /\ taken' \in 0 .. Len(input')
      BY <1>1, <2>1
    <2> QED BY <2>2, <2>3, <2>4, <2>5, <2>6, <2>7, Zenon DEF TypeOK, Labels
  <1>9. TaOK'
    BY <1>1 DEF TaOK, ZeroTa, Null, Labels, Text
  <1>10. ParseOK'
    BY <1>1 DEF ParseOK, Progress, ZeroTa
  <1>11. FoundOK'
    <2>1. results \in Seq(Result) /\ HeadsOf(input) = results \o AllHeads(input)[b + p + 1]
      BY <1>1, <1>2 DEF FoundOK
    <2>2. HeadsOf(input)' = results' \o AllHeads(input)'[Base' + 1]
      BY <1>1, <1>6, <2>1
    <2> QED BY <1>1, <2>1, <2>2 DEF FoundOK
  <1> QED BY <1>7, <1>8, <1>9, <1>10, <1>11 DEF IInv

LEMMA NextIInv == IInv /\ [Next]_vars => IInv'
  <1> SUFFICES ASSUME IInv, [Next]_vars PROVE IInv'
    OBVIOUS
  <1>1. CASE Read
    <2>1. CASE ReadData
      BY <2>1, ReadDataStep
    <2>2. CASE ReadBlock
      BY <2>2, ReadBlockStep
    <2>3. CASE ReadFull
      BY <2>3, ReadFullStep
    <2>4. CASE Resume
      BY <2>4, ResumeStep
    <2> QED BY <1>1, <2>1, <2>2, <2>3, <2>4 DEF Read
  <1>2. CASE Parse
    <2>1. CASE ParseNew
      BY <2>1, ParseNewStep
    <2>2. CASE ParseMethod
      BY <2>2, ParseMethodStep
    <2>3. CASE ParsePath
      BY <2>3, ParsePathStep
    <2>4. CASE ParseVersion
      BY <2>4, ParseVersionStep
    <2>5. CASE ParseVersionLF
      BY <2>5, ParseVersionLFStep
    <2>6. CASE ParseHead
      BY <2>6, ParseHeadStep
    <2>7. CASE ParseHeadLF
      BY <2>7, ParseHeadLFStep
    <2> QED BY <1>2, <2>1, <2>2, <2>3, <2>4, <2>5, <2>6, <2>7 DEF Parse
  <1>3. CASE Finalize
    BY <1>3, FinalizeStep
  <1>4. CASE UNCHANGED vars
    <2>1. UNCHANGED <<input, taken, req_headers, ta, pc, label, p, r, results>>
      BY <1>4 DEF vars
    <2>2. /\ BufferOK' /\ Base' = Base /\ Window(Rest)' = Window(Rest)
          /\ TypeOK /\ TaOK /\ ParseOK /\ FoundOK
      BY <2>1, SameBuffer DEF IInv
    <2>3. TypeOK' /\ TaOK'
      BY <2>1, <2>2 DEF TypeOK, TaOK
    <2>4. ParseOK'
      BY <2>1, <2>2, Zenon DEF ParseOK
    <2>5. FoundOK'
      BY <2>1, <2>2 DEF FoundOK
    <2> QED BY <2>2, <2>3, <2>4, <2>5 DEF IInv
  <1> QED BY <1>1, <1>2, <1>3, <1>4 DEF Next

-----------------------------------------------------------------------------
(* The invariant of the parser, for every input and every buffer size: what *)
(* kitserv_http_recv_request saved in the transaction and the characters   *)
(* still to come determine the same heads as the whole input.              *)
THEOREM ParserInvariant == Spec => []IInv
  BY InitIInv, NextIInv, PTL DEF Spec

(* The header buffer is never overfilled, and the block start and iterator *)
(* kitserv_http_recv_request saves stay inside it.                         *)
THEOREM TypeCorrect == Spec => []TypeOK
  <1>1. IInv => TypeOK
    BY DEF IInv
  <1> QED BY <1>1, ParserInvariant, PTL

LEMMA PrefixFacts ==
  ASSUME NEW S, NEW a \in Seq(S), NEW b \in Seq(S)
  PROVE  Len(a) <= Len(a \o b) /\ a = SubSeq(a \o b, 1, Len(a))
  <1> DEFINE n == Len(a)
             c == a \o b
             d == SubSeq(c, 1, n)
  <1>1. /\ c \in Seq(S) /\ Len(c) = n + Len(b) /\ n \in Nat /\ Len(b) \in Nat
        /\ \A k \in 1 .. n : c[k] = a[k]
    BY ConcatProperties
  <1> HIDE DEF c, n
  <1>2. n <= Len(c) /\ n \in 0 .. Len(c) /\ 1 \in 1 .. Len(c) + 1
    BY <1>1
  <1>3. /\ d \in Seq(S) /\ Len(d) = IF 1 <= n THEN n - 1 + 1 ELSE 0
        /\ \A k \in 1 .. n - 1 + 1 : d[k] = c[1 + k - 1]
    BY <1>1, <1>2, SubSeqFacts
  <1> HIDE DEF d
  <1>4. Len(d) = n /\ \A k \in 1 .. n : d[k] = c[k]
    <2>1. n - 1 + 1 = n /\ \A k \in 1 .. n : 1 + k - 1 = k
      BY <1>1
    <2> QED BY <1>1, <1>3, <2>1
  <1>5. \A k \in 1 .. n : d[k] = a[k]
    BY <1>1, <1>4
  <1>6. a = d
    BY <1>3, <1>4, <1>5, SeqEqual DEF n
  <1> QED BY <1>2, <1>6 DEF c, d, n

LEMMA ExpectedIs ==
  ASSUME IInv
  PROVE  /\ Expected[input] = HeadsOf(input) /\ results \in Seq(Result)
         /\ \E rest \in Seq(Result) : HeadsOf(input) = results \o rest
  <1>1. TypeOK /\ FoundOK /\ BufferOK /\ input \in Text /\ results \in Seq(Result)
    BY InputFacts DEF IInv, FoundOK
  <1>2. Expected[input] = HeadsOf(input)
    BY <1>1 DEF Expected, TypeOK
  <1>3. CASE pc \in {"read", "parse", "blocked"}
    <2> DEFINE k == Base + 1
    <2>1. k \in 1 .. Len(input) + 1
      BY <1>1, WindowOK
    <2>2. HeadsOf(input) = results \o AllHeads(input)[k]
      BY <1>1, <1>3 DEF FoundOK
    <2> HIDE DEF k
    <2>3. AllHeads(input)[k] \in Seq(Result)
      BY <1>1, <2>1, AllHeadsSeq
    <2> QED BY <1>1, <1>2, <2>2, <2>3
  <1>4. CASE pc = "head"
    <2> DEFINE k == Base + p + 1
    <2>1. HeadsOf(input) = results \o AllHeads(input)[k]
      BY <1>1, <1>4 DEF FoundOK
    <2>2. k \in 1 .. Len(input) + 1
      <3>1. p >= 0 /\ p \in Pointer
        BY <1>1, <1>4 DEF IInv, ParseOK, TypeOK, Pointer
      <3>2. Len(req_headers) \in Nat /\ Base \in Nat /\ Base + Len(req_headers) = taken
            /\ taken \in 0 .. Len(input) /\ Len(input) \in Nat
        BY <1>1, WindowOK, InputFacts
      <3> QED BY <3>1, <3>2 DEF Pointer, Null
    <2> HIDE DEF k
    <2>3. AllHeads(input)[k] \in Seq(Result)
      BY <1>1, <2>2, AllHeadsSeq
    <2> QED BY <1>1, <1>2, <2>1, <2>3
  <1>5. CASE pc = "error"
    <2>1. <<>> \in Seq(Result) /\ results \o <<>> = results
      BY <1>1, ConcatEmptySeq
    <2>2. HeadsOf(input) = results \o <<>>
      BY <1>1, <1>5, <2>1 DEF FoundOK
    <2> QED BY <1>1, <1>2, <2>1, <2>2
  <1> QED BY <1>1, <1>3, <1>4, <1>5 DEF TypeOK

(* However the input is split into reads, and wherever                     *)
(* kitserv_http_recv_request is interrupted and resumed, the requests and  *)
(* the errors it delivers are those of the whole input, in order.          *)
THEOREM ResultsCorrect == Spec => []ResultsRight
  <1>1. IInv => ResultsRight
    <2> SUFFICES ASSUME IInv PROVE ResultsRight
      OBVIOUS
    <2>1. PICK rest \in Seq(Result) : HeadsOf(input) = results \o rest
      BY ExpectedIs
    <2>2. results \in Seq(Result) /\ Expected[input] = results \o rest
      BY <2>1, ExpectedIs
    <2> QED BY <2>2, PrefixFacts DEF ResultsRight
  <1> QED BY <1>1, ParserInvariant, PTL

(* A parser that waits in kitserv_http_recv_request with all the input     *)
(* read has delivered every head that is complete: no request is left in   *)
(* the header buffer, where no event would bring it to light.              *)
THEOREM NothingIsMissed == Spec => []NothingMissed
  <1>1. IInv => NothingMissed
    <2> SUFFICES ASSUME IInv, pc = "blocked", taken = Len(input)
                 PROVE  results = Expected[input]
      BY DEF NothingMissed
    <2> DEFINE w == Window(Rest)
               k == Base + 1
    <2>1. /\ TypeOK /\ BufferOK /\ FoundOK /\ w \in Text /\ Len(w) \in Nat
          /\ Progress(w, ta, ta.parse_state, ta.blk, ta.iter)
          /\ Len(req_headers) < BufSz /\ ta.iter = Len(req_headers) /\ Len(req_headers) \in Nat
          /\ ta.blk \in Int /\ ta.parse_state \in Labels
      BY BlockedFacts
    <2>2. /\ Rest \in Text /\ Len(Rest) = Len(input) - Base /\ Base + Len(req_headers) = taken
          /\ Len(w) = IF Len(Rest) < BufSz THEN Len(Rest) ELSE BufSz
          /\ k \in 1 .. Len(input) + 1 /\ Base \in Nat
          /\ input \in Text /\ Len(input) \in Nat
      BY <2>1, WindowOK, InputFacts
    <2>3. Len(Rest) < BufSz /\ ta.iter = Len(w)
      BY <2>1, <2>2
    <2> HIDE DEF w
    <2>4. HeadOf(w) = Incomplete
      BY <2>1, <2>3, AtEndIncomplete
    <2>5. Limited(Rest) = Incomplete
      <3>1. ~ (Len(Rest) >= BufSz)
        BY <2>2, <2>3, InputAssumption
      <3> QED BY <2>2, <2>4, <3>1, LimitedFacts DEF w
    <2>6. Limited(SubSeq(input, k, Len(input))) = Incomplete
      BY <2>5 DEF Rest
    <2>7. HeadsOf(input) = results \o AllHeads(input)[k]
      BY <2>1 DEF FoundOK
    <2> HIDE DEF k
    <2>8. AllHeads(input)[k] = <<>>
      BY <2>2, <2>6, AllHeadsFacts, Zenon
    <2>9. results \in Seq(Result) /\ Expected[input] = HeadsOf(input)
      BY ExpectedIs
    <2> QED BY <2>7, <2>8, <2>9, ConcatEmptySeq
  <1> QED BY <1>1, ParserInvariant, PTL
=============================================================================
