------------------------- MODULE TransactionProofs -------------------------
(***************************************************************************)
(* Transaction's safety for every tree, every file system, every header    *)
(* buffer and every sequence of requests: which file a static request is   *)
(* answered with, what its descriptor and the announced length are, what   *)
(* an error response keeps, that nothing of a request reaches the next,    *)
(* where a path is routed and which range and cookies an endpoint is told. *)
(* The invariant is Base; what the pure operators of RequestFields,        *)
(* StaticPath and Response do is proved first, what ParseCookies does      *)
(* before the theorem on cookies.                                          *)
(***************************************************************************)
EXTENDS Transaction, ResponseProofs

-----------------------------------------------------------------------------
(* The text of a range.                                                    *)
LEMMA MinFacts ==
  ASSUME NEW S, S \subseteq Nat, S # {}
  PROVE  Min(S) \in S /\ \A y \in S : Min(S) <= y
  BY LeastNatural DEF Min

(* What a digit stands for.                                                *)
LEMMA DigitFacts ==
  ASSUME NEW c \in Range(Digits)
  PROVE  Digit(c) \in 0 .. 9
  <1>1. PICK j \in DOMAIN Digits : Digits[j] = c
    BY DEF Range
  <1>2. j \in 1 .. 10
    BY DEF Digits
  <1>3. j - 1 \in 0 .. 9 /\ Digits[(j - 1) + 1] = c
    BY <1>1, <1>2, SMTT(60)
  <1> QED BY <1>3, Zenon DEF Digit

(* The number that is read up to each of the digits.                       *)
Reads(s, v) ==
  /\ v \in [0 .. Len(s) -> Nat] /\ v[0] = 0
  /\ \A k \in 1 .. Len(s) : v[k] = 10 * v[k - 1] + Digit(s[k])

(* strtonum reads digits as a number.                                      *)
LEMMA StrtonumReads ==
  ASSUME NEW s \in Seq(STRING), \A i \in 1 .. Len(s) : s[i] \in Range(Digits)
  PROVE  \E v : Reads(s, v) /\ Strtonum(s) = IF s = <<>> THEN -1 ELSE v[Len(s)]
  <1> DEFINE D == 0 .. Len(s)
             Body(g) == [k \in D |-> IF k = 0 THEN 0 ELSE 10 * g[k - 1] + Digit(s[k])]
             v == CHOOSE g : g = Body(g)
             Upto(n) == {g \in [0 .. n -> Nat] :
                           /\ g[0] = 0
                           /\ \A k \in 1 .. n : g[k] = 10 * g[k - 1] + Digit(s[k])}
             P == {n \in Nat : n <= Len(s) => Upto(n) # {}}
  <1>1. Len(s) \in Nat /\ \A k \in 1 .. Len(s) : Digit(s[k]) \in Nat
    <2> SUFFICES ASSUME NEW k \in 1 .. Len(s) PROVE Digit(s[k]) \in Nat
      OBVIOUS
    <2>1. Digit(s[k]) \in 0 .. 9
      BY DigitFacts
    <2> QED BY <2>1
  <1>2. 0 \in P
    <2> DEFINE g == [k \in 0 .. 0 |-> 0]
    <2>1. g \in [0 .. 0 -> Nat] /\ g[0] = 0 /\ \A k \in 1 .. 0 : FALSE
      OBVIOUS
    <2>2. g \in Upto(0)
      BY <2>1, Zenon
    <2> QED BY <2>2
  <1>3. ASSUME NEW n \in Nat, n \in P PROVE n + 1 \in P
    <2> SUFFICES ASSUME n + 1 <= Len(s) PROVE Upto(n + 1) # {}
      <3> HIDE DEF Upto
      <3> QED OBVIOUS
    <2>1. PICK g \in Upto(n) : TRUE
      <3>1. n <= Len(s)
        BY <1>1
      <3> HIDE DEF Upto
      <3> QED BY <1>3, <3>1
    <2> DEFINE h == [k \in 0 .. n + 1 |-> IF k = n + 1 THEN 10 * g[n] + Digit(s[n + 1]) ELSE g[k]]
    <2>2. h \in [0 .. n + 1 -> Nat]
      BY <1>1, <2>1, SMTT(60)
    <2>3. h[0] = 0 /\ \A k \in 1 .. n + 1 : h[k] = 10 * h[k - 1] + Digit(s[k])
      BY <1>1, <2>1, SMTT(60)
    <2>4. h \in Upto(n + 1)
      BY <2>2, <2>3
    <2> QED BY <2>4
  <1>4. Len(s) \in P
    BY <1>1, <1>2, <1>3, Induction
  <1>5. PICK g \in Upto(Len(s)) : TRUE
    BY <1>1, <1>4
  <1>6. g = Body(g)
    <2>1. \A k \in D : g[k] = Body(g)[k]
      BY <1>1, <1>5
    <2> QED BY <1>1, <1>5, <2>1
  <1>7. v = Body(v)
    BY <1>6, Zenon
  <1>8. Strtonum(s) = IF s = <<>> THEN -1 ELSE v[Len(s)]
    BY DEF Strtonum
  <1>9. \A k \in 0 .. Len(s) : v[k] = g[k]
    <2> HIDE DEF v
    <2> DEFINE Q == {n \in Nat : n <= Len(s) => v[n] = g[n]}
    <2>1. 0 \in Q
      BY <1>1, <1>5, <1>7
    <2>2. ASSUME NEW n \in Nat, n \in Q PROVE n + 1 \in Q
      <3> SUFFICES ASSUME n + 1 <= Len(s) PROVE v[n + 1] = g[n + 1]
        OBVIOUS
      <3>1. v[n] = g[n] /\ n + 1 \in D /\ n + 1 \in 1 .. Len(s)
        BY <1>1, <2>2
      <3>2. v[n + 1] = 10 * v[n] + Digit(s[n + 1])
        BY <1>7, <3>1
      <3>3. g[n + 1] = 10 * g[n] + Digit(s[n + 1])
        BY <1>5, <3>1
      <3> QED BY <3>1, <3>2, <3>3
    <2> HIDE DEF Q
    <2>3. Nat \subseteq Q
      BY <2>1, <2>2, Induction
    <2> QED BY <1>1, <2>3 DEF Q
  <1>10. Reads(s, g)
    BY <1>5 DEF Reads
  <1>11. Strtonum(s) = IF s = <<>> THEN -1 ELSE g[Len(s)]
    BY <1>1, <1>8, <1>9
  <1> QED BY <1>10, <1>11

LEMMA StrtonumFacts ==
  ASSUME NEW s \in Seq(STRING), \A i \in 1 .. Len(s) : s[i] \in Range(Digits)
  PROVE  Strtonum(s) \in Nat \union {-1}
  <1>1. PICK v : Reads(s, v) /\ Strtonum(s) = IF s = <<>> THEN -1 ELSE v[Len(s)]
    BY StrtonumReads
  <1>2. Len(s) \in 0 .. Len(s)
    OBVIOUS
  <1> QED BY <1>1, <1>2 DEF Reads

(* What is left of a number that is divided by ten again and again.        *)
LEMMA QuotientsFacts ==
  ASSUME NEW n \in Int, NEW m \in Nat
  PROVE  LET q == Quotients(n, m)
         IN  /\ q[0] = n /\ \A k \in 0 .. m : q[k] \in Int
             /\ \A k \in 1 .. m : q[k] = q[k - 1] \div 10
  <1> DEFINE D == 0 .. m
             Body(g) == [k \in D |-> IF k = 0 THEN n ELSE g[k - 1] \div 10]
             v == CHOOSE g : g = Body(g)
             Upto(l) == {g \in [0 .. l -> Int] :
                           /\ g[0] = n
                           /\ \A k \in 1 .. l : g[k] = g[k - 1] \div 10}
             P == {l \in Nat : Upto(l) # {}}
  <1>1. 0 \in P
    <2> DEFINE g == [k \in 0 .. 0 |-> n]
    <2>1. g \in [0 .. 0 -> Int] /\ g[0] = n /\ \A k \in 1 .. 0 : FALSE
      OBVIOUS
    <2>2. g \in Upto(0)
      BY <2>1, Zenon
    <2> QED BY <2>2
  <1>2. ASSUME NEW l \in Nat, l \in P PROVE l + 1 \in P
    <2>1. PICK g \in Upto(l) : TRUE
      BY <1>2
    <2> DEFINE h == [k \in 0 .. l + 1 |-> IF k = l + 1 THEN g[l] \div 10 ELSE g[k]]
    <2>2. h \in [0 .. l + 1 -> Int]
      BY <2>1, SMTT(60)
    <2>3. h[0] = n /\ \A k \in 1 .. l + 1 : h[k] = h[k - 1] \div 10
      BY <2>1, SMTT(60)
    <2>4. h \in Upto(l + 1)
      BY <2>2, <2>3
    <2> HIDE DEF Upto
    <2> QED BY <2>4
  <1>3. m \in P
    <2> HIDE DEF P
    <2> QED BY <1>1, <1>2, Induction
  <1>4. PICK g \in Upto(m) : TRUE
    BY <1>3
  <1>5. g = Body(g)
    <2>1. \A k \in D : g[k] = Body(g)[k]
      BY <1>4
    <2> QED BY <1>4, <2>1
  <1>6. v = Body(v)
    BY <1>5, Zenon
  <1>7. Quotients(n, m) = v
    BY DEF Quotients
  <1> HIDE DEF v
  <1>8. v[0] = n /\ \A k \in 1 .. m : v[k] = v[k - 1] \div 10
    BY <1>6
  <1> DEFINE Q == {l \in Nat : l <= m => v[l] \in Int}
  <1>9. Nat \subseteq Q
    <2>1. 0 \in Q
      BY <1>8
    <2>2. ASSUME NEW l \in Nat, l \in Q PROVE l + 1 \in Q
      <3> SUFFICES ASSUME l + 1 <= m PROVE v[l + 1] \in Int
        OBVIOUS
      <3>1. v[l] \in Int /\ l + 1 \in 1 .. m
        BY <2>2
      <3>2. v[l + 1] = v[l] \div 10
        BY <1>8, <3>1
      <3> QED BY <3>1, <3>2
    <2> HIDE DEF Q
    <2> QED BY <2>1, <2>2, Induction
  <1> QED BY <1>7, <1>8, <1>9

(* A digit more.                                                           *)
LEMMA DigitMore ==
  ASSUME NEW a \in Nat, NEW d \in 0 .. 9
  PROVE  (10 * a + d) \div 10 = a /\ (10 * a + d) % 10 = d
  OBVIOUS

LEMMA DigitLess ==
  ASSUME NEW a \in Int
  PROVE  a = 10 * (a \div 10) + (a % 10)
  OBVIOUS

(* strtonum's number is the one that the digits spell, and no other.       *)
LEMMA SpelledFacts ==
  ASSUME NEW s \in Seq(STRING), s # <<>>, \A i \in 1 .. Len(s) : s[i] \in Range(Digits),
         NEW n \in Int
  PROVE  Spelled(n, s) <=> n = Strtonum(s)
  <1> DEFINE L == Len(s)
             q == Quotients(n, L)
  <1>1. L \in Nat /\ L # 0
    OBVIOUS
  <1>2. PICK v : Reads(s, v) /\ Strtonum(s) = v[L]
    BY StrtonumReads
  <1>3. /\ v[0] = 0 /\ \A k \in 0 .. L : v[k] \in Nat
        /\ \A k \in 1 .. L : v[k] = 10 * v[k - 1] + Digit(s[k])
    BY <1>2 DEF Reads
  <1>4. /\ q[0] = n /\ \A k \in 0 .. L : q[k] \in Int
        /\ \A k \in 1 .. L : q[k] = q[k - 1] \div 10
    BY <1>1, QuotientsFacts
  <1>5. \A k \in 1 .. L : Digit(s[k]) \in 0 .. 9
    BY DigitFacts
  <1>6. Spelled(n, s) <=> q[L] = 0 /\ \A i \in 1 .. L : Digit(s[i]) = q[L - i] % 10
    BY DEF Spelled
  <1> HIDE DEF L, q
  <1>7. ASSUME n = v[L]
        PROVE  q[L] = 0 /\ \A i \in 1 .. L : Digit(s[i]) = q[L - i] % 10
    <2> DEFINE P == {k \in Nat : k <= L => q[k] = v[L - k]}
    <2>1. 0 \in P
      BY <1>1, <1>4, <1>7
    <2>2. ASSUME NEW k \in Nat, k \in P PROVE k + 1 \in P
      <3> SUFFICES ASSUME k + 1 <= L PROVE q[k + 1] = v[L - (k + 1)]
        OBVIOUS
      <3>1. q[k] = v[L - k] /\ k + 1 \in 1 .. L /\ L - k \in 1 .. L
            /\ (L - k) - 1 = L - (k + 1) /\ L - (k + 1) \in 0 .. L /\ (k + 1) - 1 = k
        BY <1>1, <2>2
      <3>2. q[k + 1] = q[k] \div 10
        BY <1>4, <3>1
      <3>3. v[L - k] = 10 * v[L - (k + 1)] + Digit(s[L - k])
        BY <1>3, <3>1
      <3>4. v[L - (k + 1)] \in Nat /\ Digit(s[L - k]) \in 0 .. 9
        BY <1>3, <1>5, <3>1
      <3>5. v[L - k] \div 10 = v[L - (k + 1)]
        BY <3>3, <3>4, DigitMore, Zenon
      <3> QED BY <3>1, <3>2, <3>5, Zenon
    <2>3. Nat \subseteq P
      <3> HIDE DEF P
      <3> QED BY <2>1, <2>2, Induction
    <2>4. \A k \in 0 .. L : q[k] = v[L - k]
      BY <1>1, <2>3
    <2>5. q[L] = 0
      BY <1>1, <1>3, <2>4
    <2>6. ASSUME NEW i \in 1 .. L PROVE Digit(s[i]) = q[L - i] % 10
      <3>1. L - i \in 0 .. L /\ L - (L - i) = i /\ i - 1 \in 0 .. L
        BY <1>1
      <3>2. q[L - i] = v[i] /\ v[i] = 10 * v[i - 1] + Digit(s[i])
        BY <1>3, <2>4, <3>1
      <3>3. v[i - 1] \in Nat /\ Digit(s[i]) \in 0 .. 9
        BY <1>3, <1>5, <3>1
      <3>4. v[i] % 10 = Digit(s[i])
        BY <3>2, <3>3, DigitMore, ZenonT(60)
      <3> QED BY <3>2, <3>4, Zenon
    <2> QED BY <2>5, <2>6
  <1>8. ASSUME q[L] = 0, \A i \in 1 .. L : Digit(s[i]) = q[L - i] % 10
        PROVE  n = v[L]
    <2> DEFINE P == {k \in Nat : k <= L => q[L - k] = v[k]}
    <2>1. 0 \in P
      BY <1>1, <1>3, <1>8, SMTT(60)
    <2>2. ASSUME NEW k \in Nat, k \in P PROVE k + 1 \in P
      <3> SUFFICES ASSUME k + 1 <= L PROVE q[L - (k + 1)] = v[k + 1]
        OBVIOUS
      <3>1. q[L - k] = v[k] /\ k + 1 \in 1 .. L /\ L - k \in 1 .. L
            /\ (L - k) - 1 = L - (k + 1) /\ L - (k + 1) \in 0 .. L /\ (k + 1) - 1 = k
        BY <1>1, <2>2
      <3>2. q[L - k] = q[L - (k + 1)] \div 10
        BY <1>4, <3>1
      <3>3. v[k + 1] = 10 * v[k] + Digit(s[k + 1])
        BY <1>3, <3>1
      <3>4. Digit(s[k + 1]) = q[L - (k + 1)] % 10
        BY <1>8, <3>1
      <3>5. q[L - (k + 1)] \in Int
        BY <1>4, <3>1
      <3>6. q[L - (k + 1)] = 10 * (q[L - (k + 1)] \div 10) + (q[L - (k + 1)] % 10)
        BY <3>5, DigitLess, Zenon
      <3> QED BY <3>1, <3>2, <3>3, <3>4, <3>6, Zenon
    <2>3. Nat \subseteq P
      <3> HIDE DEF P
      <3> QED BY <2>1, <2>2, Induction
    <2>4. q[L - L] = v[L]
      BY <1>1, <2>3
    <2> QED BY <1>1, <1>4, <2>4
  <1> QED BY <1>2, <1>6, <1>7, <1>8

(* A C string ends at the first NUL.                                       *)
LEMMA CStringFacts ==
  ASSUME NEW text \in Seq(STRING)
  PROVE  /\ CString(text) \in Seq(STRING)
         /\ Len(CString(text)) <= Len(text)
         /\ \A i \in 1 .. Len(CString(text)) : CString(text)[i] = text[i]
  <1> DEFINE nuls == { j \in 1 .. Len(text) : text[j] = "NUL" }
             e == Strchr(text, "NUL", 1)
  <1>1. e = IF nuls = {} THEN Len(text) + 1 ELSE Min(nuls)
    BY DEF Strchr
  <1>2. nuls # {} => Min(nuls) \in nuls
    <2>1. nuls \subseteq Nat
      OBVIOUS
    <2> HIDE DEF nuls
    <2> QED BY <2>1, MinFacts
  <1>3. e \in Nat /\ e >= 1 /\ e - 1 <= Len(text)
    BY <1>1, <1>2
  <1>4. CString(text) = SubSeq(text, 1, e - 1)
    BY DEF CString
  <1> HIDE DEF e
  <1> QED BY <1>3, <1>4

(* Asking for the range leaves the header as it came.                      *)
RangeRecord ==
  [kind : {"none", "bad", "bytes"}, from : -1 .. MaxOff, to : -1 .. MaxOff,
   numbers : BOOLEAN, text : Seq(STRING)]

(* A range that selects nothing.                                           *)
LEMMA NoSpanFacts ==
  ASSUME NEW kind \in {"none", "bad", "bytes"}, NEW numbers \in BOOLEAN, NEW text \in Seq(STRING)
  PROVE  LET r == NoSpan(kind, numbers, text)
         IN  r \in RangeRecord /\ r.text = text /\ r.kind = kind
  <1>1. -1 \in -1 .. MaxOff
    BY FieldsAssumption
  <1> QED BY <1>1 DEF NoSpan, RangeRecord

(* A part of a text between two places.                                    *)
LEMMA PartFacts ==
  ASSUME NEW s \in Seq(STRING), NEW D, NEW i \in 1 .. Len(s) + 1, NEW j \in 0 .. Len(s),
         \A k \in i .. j : s[k] \in D
  PROVE  /\ SubSeq(s, i, j) \in Seq(STRING)
         /\ \A k \in 1 .. Len(SubSeq(s, i, j)) : SubSeq(s, i, j)[k] \in D
  <1> DEFINE part == SubSeq(s, i, j)
  <1>1. Len(s) \in Nat
    OBVIOUS
  <1>2. /\ part \in Seq(STRING)
        /\ Len(part) = IF i <= j THEN j - i + 1 ELSE 0
        /\ \A k \in 1 .. j - i + 1 : part[k] = s[i + k - 1]
    <2>1. \A k \in i .. j : s[k] \in STRING
      BY <1>1, SMTT(30)
    <2> QED BY <1>1, <2>1, SMTT(30)
  <1> HIDE DEF part
  <1> SUFFICES ASSUME NEW k \in 1 .. Len(part) PROVE part[k] \in D
    BY <1>2, Zenon DEF part
  <1>3. k \in 1 .. j - i + 1 /\ i + k - 1 \in i .. j
    BY <1>1, <1>2, SMTT(30)
  <1> QED BY <1>2, <1>3, Zenon

(* The two numbers of a range.                                             *)
LEMMA HalvesFacts ==
  ASSUME NEW s \in Seq(STRING), NEW h \in 1 .. Len(s),
         \A i \in 2 .. Len(s) : i = h \/ s[i] \in Range(Digits)
  PROVE  LET left  == SubSeq(s, 2, h - 1)
             right == SubSeq(s, h + 1, Len(s))
         IN  /\ left \in Seq(STRING) /\ \A i \in 1 .. Len(left) : left[i] \in Range(Digits)
             /\ right \in Seq(STRING) /\ \A i \in 1 .. Len(right) : right[i] \in Range(Digits)
  <1>1. Len(s) \in Nat
    OBVIOUS
  <1>2. 2 \in 1 .. Len(s) + 1 /\ h - 1 \in 0 .. Len(s)
        /\ \A k \in 2 .. h - 1 : k \in 2 .. Len(s) /\ k # h
    BY <1>1
  <1>3. \A k \in 2 .. h - 1 : s[k] \in Range(Digits)
    BY <1>2, Zenon
  <1>4. h + 1 \in 1 .. Len(s) + 1 /\ Len(s) \in 0 .. Len(s)
        /\ \A k \in h + 1 .. Len(s) : k \in 2 .. Len(s) /\ k # h
    BY <1>1
  <1>5. \A k \in h + 1 .. Len(s) : s[k] \in Range(Digits)
    BY <1>4, Zenon
  <1> QED BY <1>2, <1>3, <1>4, <1>5, PartFacts, ZenonT(60)

(* Digits have one reading, and nothing is read as a missing number.       *)
LEMMA EndsFacts ==
  ASSUME NEW left \in Seq(STRING), \A i \in 1 .. Len(left) : left[i] \in Range(Digits),
         NEW right \in Seq(STRING), \A i \in 1 .. Len(right) : right[i] \in Range(Digits),
         NEW from \in Int, NEW to \in Int
  PROVE  Ends(left, right, from, to) <=>
           /\ from = Strtonum(left) /\ to = Strtonum(right) /\ left \o right # <<>>
           /\ from >= 0 /\ to >= 0 => from <= to
  <1>1. (IF left = <<>> THEN from = -1 ELSE Spelled(from, left)) <=> from = Strtonum(left)
    <2>1. CASE left = <<>>
      BY <2>1 DEF Strtonum
    <2>2. CASE left # <<>>
      BY <2>2, SpelledFacts
    <2> QED BY <2>1, <2>2
  <1>2. (IF right = <<>> THEN to = -1 ELSE Spelled(to, right)) <=> to = Strtonum(right)
    <2>1. CASE right = <<>>
      BY <2>1 DEF Strtonum
    <2>2. CASE right # <<>>
      BY <2>2, SpelledFacts
    <2> QED BY <2>1, <2>2
  <1> QED BY <1>1, <1>2, Zenon DEF Ends

(* What a range with one hyphen is made of, and when it is refused.        *)
Unserved(left, right) ==
  \/ left \o right = <<>>
  \/ Strtonum(left) > MaxOff \/ Strtonum(right) > MaxOff
  \/ 0 <= Strtonum(right) /\ Strtonum(right) < Strtonum(left)

LEMMA RangeOfKinds ==
  ASSUME NEW text, NEW s \in Seq(STRING), NEW h \in 1 .. Len(s),
         \A i \in 2 .. Len(s) : i = h \/ s[i] \in Range(Digits)
  PROVE  LET left  == SubSeq(s, 2, h - 1)
             right == SubSeq(s, h + 1, Len(s))
             r     == RangeOf(text, s, h)
         IN  IF Unserved(left, right) THEN r.kind = "bad"
             ELSE r.kind = "bytes" /\ r.from = Strtonum(left) /\ r.to = Strtonum(right)
  <1> DEFINE left  == SubSeq(s, 2, h - 1)
             right == SubSeq(s, h + 1, Len(s))
             from  == Strtonum(left)
             to    == Strtonum(right)
             back  == Restore(IF left = <<>> THEN text ELSE [text EXCEPT ![h] = "NUL"], h)
             r     == RangeOf(text, s, h)
  <1>1. left \in Seq(STRING) /\ right \in Seq(STRING)
    BY HalvesFacts
  <1>2. r = CASE left \o right = <<>>         -> NoSpan("bad", FALSE, back)
              [] from > MaxOff \/ to > MaxOff -> NoSpan("bad", TRUE, back)
              [] 0 <= to /\ to < from         -> NoSpan("bad", TRUE, back)
              [] OTHER -> [NoSpan("bytes", TRUE, back) EXCEPT !.from = from, !.to = to]
    BY DEF RangeOf
  <1>3. left \o right = <<>> => ~ (from > MaxOff \/ to > MaxOff) /\ ~ (0 <= to /\ to < from)
    <2> SUFFICES ASSUME left \o right = <<>>
                 PROVE  ~ (from > MaxOff \/ to > MaxOff) /\ ~ (0 <= to /\ to < from)
      OBVIOUS
    <2>1. left = <<>> /\ right = <<>>
      <3> HIDE DEF left, right
      <3> QED BY <1>1
    <2>2. from = -1 /\ to = -1
      BY <2>1 DEF Strtonum
    <2> HIDE DEF from, to
    <2> QED BY <2>2, FieldsAssumption
  <1>4. Unserved(left, right) <=> \/ left \o right = <<>> \/ from > MaxOff \/ to > MaxOff
                                  \/ 0 <= to /\ to < from
    BY DEF Unserved
  <1>5. \A kind, b : NoSpan(kind, b, back).kind = kind
    BY DEF NoSpan
  <1>6. LET n == [NoSpan("bytes", TRUE, back) EXCEPT !.from = from, !.to = to]
        IN  n.kind = "bytes" /\ n.from = from /\ n.to = to
    <2> HIDE DEF back, from, to
    <2> QED BY DEF NoSpan
  <1> HIDE DEF back, from, to, left, right, r
  <1>7. ASSUME left \o right = <<>> PROVE r.kind = "bad"
    BY <1>2, <1>3, <1>5, <1>7
  <1>8. ASSUME ~ (left \o right = <<>>), from > MaxOff \/ to > MaxOff
        PROVE  r.kind = "bad"
    BY <1>2, <1>5, <1>8
  <1>9. ASSUME ~ (left \o right = <<>>), ~ (from > MaxOff \/ to > MaxOff), 0 <= to /\ to < from
        PROVE  r.kind = "bad"
    BY <1>2, <1>5, <1>9
  <1>10. CASE ~ Unserved(left, right)
    <2>1. r = [NoSpan("bytes", TRUE, back) EXCEPT !.from = from, !.to = to]
      BY <1>2, <1>4, <1>10
    <2> QED BY <1>6, <1>10, <2>1 DEF r, left, right, from, to
  <1>11. CASE Unserved(left, right)
    <2>1. r.kind = "bad"
      BY <1>4, <1>7, <1>8, <1>9, <1>11
    <2> QED BY <1>11, <2>1 DEF r, left, right
  <1> QED BY <1>10, <1>11

(* A range with one hyphen.                                                *)
LEMMA RangeOfFacts ==
  ASSUME NEW text \in Seq(STRING), NEW s \in Seq(STRING), NEW h \in 1 .. Len(s),
         Len(s) <= Len(text), text[h] = "-",
         \A i \in 2 .. Len(s) : i = h \/ s[i] \in Range(Digits)
  PROVE  RangeOf(text, s, h) \in RangeRecord /\ RangeOf(text, s, h).text = text
  <1> DEFINE left  == SubSeq(s, 2, h - 1)
             right == SubSeq(s, h + 1, Len(s))
             from  == Strtonum(left)
             to    == Strtonum(right)
             back  == Restore(IF left = <<>> THEN text ELSE [text EXCEPT ![h] = "NUL"], h)
             r     == RangeOf(text, s, h)
  <1>1. Len(s) \in Nat /\ Len(text) \in Nat /\ h \in DOMAIN text
    OBVIOUS
  <1>2. back = text
    <2>1. \A u \in {text, [text EXCEPT ![h] = "NUL"]} : [u EXCEPT ![h] = "-"] = text
      BY <1>1
    <2> QED BY <2>1 DEF Restore
  <1>3. from \in Nat \union {-1} /\ to \in Nat \union {-1}
    <2>1. /\ left \in Seq(STRING) /\ \A i \in 1 .. Len(left) : left[i] \in Range(Digits)
          /\ right \in Seq(STRING) /\ \A i \in 1 .. Len(right) : right[i] \in Range(Digits)
      BY HalvesFacts
    <2> HIDE DEF left, right
    <2> QED BY <2>1, StrtonumFacts
  <1>5. \/ r = NoSpan("bad", FALSE, back) \/ r = NoSpan("bad", TRUE, back)
        \/ /\ ~ (from > MaxOff \/ to > MaxOff)
           /\ r = [NoSpan("bytes", TRUE, back) EXCEPT !.from = from, !.to = to]
    <2>1. r = CASE left \o right = <<>>         -> NoSpan("bad", FALSE, back)
                [] from > MaxOff \/ to > MaxOff -> NoSpan("bad", TRUE, back)
                [] 0 <= to /\ to < from         -> NoSpan("bad", TRUE, back)
                [] OTHER -> [NoSpan("bytes", TRUE, back) EXCEPT !.from = from, !.to = to]
      BY DEF RangeOf
    <2>0. left \o right = <<>> => ~ (from > MaxOff \/ to > MaxOff) /\ ~ (0 <= to /\ to < from)
      <3> SUFFICES ASSUME left \o right = <<>>
                   PROVE  ~ (from > MaxOff \/ to > MaxOff) /\ ~ (0 <= to /\ to < from)
        OBVIOUS
      <3>1. left \in Seq(STRING) /\ right \in Seq(STRING)
        BY <1>1, SMTT(30)
      <3>2. left = <<>> /\ right = <<>>
        <4> HIDE DEF left, right
        <4> QED BY <3>1
      <3>3. from = -1 /\ to = -1
        BY <3>2 DEF Strtonum
      <3> HIDE DEF from, to
      <3> QED BY <3>3, FieldsAssumption
    <2> HIDE DEF back, from, to, left, right, r
    <2>2. CASE left \o right = <<>> \/ from > MaxOff \/ to > MaxOff \/ (0 <= to /\ to < from)
      <3>1. CASE left \o right = <<>>
        BY <2>0, <2>1, <3>1
      <3>2. CASE ~ (left \o right = <<>>) /\ (from > MaxOff \/ to > MaxOff)
        BY <2>1, <3>2
      <3>3. CASE ~ (left \o right = <<>>) /\ ~ (from > MaxOff \/ to > MaxOff) /\ (0 <= to /\ to < from)
        BY <2>1, <3>3
      <3> QED BY <2>2, <3>1, <3>2, <3>3
    <2>3. CASE ~ (left \o right = <<>>) /\ ~ (from > MaxOff \/ to > MaxOff)
               /\ ~ (0 <= to /\ to < from)
      BY <2>1, <2>3
    <2> QED BY <2>2, <2>3
  <1> HIDE DEF back, from, to, r
  <1>6. CASE r = NoSpan("bad", FALSE, back) \/ r = NoSpan("bad", TRUE, back)
    <2>1. \A b \in BOOLEAN : NoSpan("bad", b, text) \in RangeRecord /\ NoSpan("bad", b, text).text = text
      BY NoSpanFacts
    <2> QED BY <1>2, <1>6, <2>1 DEF r
  <1>7. CASE /\ ~ (from > MaxOff \/ to > MaxOff)
             /\ r = [NoSpan("bytes", TRUE, back) EXCEPT !.from = from, !.to = to]
    <2>1. from \in -1 .. MaxOff /\ to \in -1 .. MaxOff
      BY <1>3, <1>7, FieldsAssumption, SMTT(60)
    <2> DEFINE n == NoSpan("bytes", TRUE, back)
    <2>2. n \in RangeRecord /\ n.text = text
      BY <1>2, NoSpanFacts
    <2> HIDE DEF n
    <2>3. r = [n EXCEPT !.from = from, !.to = to]
      BY <1>7 DEF n
    <2> QED BY <2>1, <2>2, <2>3, ZenonT(60) DEF RangeRecord, r
  <1> QED BY <1>5, <1>6, <1>7

(* kitserv_http_parse_range gives a range and the text as it was.          *)
LEMMA ParseRangeFacts ==
  ASSUME NEW text \in Seq(STRING)
  PROVE  ParseRange(text) \in RangeRecord /\ ParseRange(text).text = text
  <1> DEFINE s == CString(text)
             hyphens == { i \in DOMAIN s : s[i] = "-" }
             r == ParseRange(text)
  <1>1. \/ r = NoSpan("none", FALSE, text) \/ r = NoSpan("bad", FALSE, text)
        \/ /\ Cardinality(hyphens) = 1
           /\ \A i \in 2 .. Len(s) : i \in hyphens \/ s[i] \in Range(Digits)
           /\ r = RangeOf(text, s, Min(hyphens))
    BY Zenon DEF ParseRange
  <1>2. CASE r = NoSpan("none", FALSE, text) \/ r = NoSpan("bad", FALSE, text)
    <2>1. \A k \in {"none", "bad"}, b \in BOOLEAN :
            NoSpan(k, b, text) \in RangeRecord /\ NoSpan(k, b, text).text = text
      BY NoSpanFacts
    <2> QED BY <1>2, <2>1
  <1>3. CASE /\ Cardinality(hyphens) = 1
             /\ \A i \in 2 .. Len(s) : i \in hyphens \/ s[i] \in Range(Digits)
             /\ r = RangeOf(text, s, Min(hyphens))
    <2>1. /\ s \in Seq(STRING) /\ Len(s) <= Len(text) /\ Len(s) \in Nat
          /\ \A i \in 1 .. Len(s) : s[i] = text[i]
      BY CStringFacts
    <2> HIDE DEF s
    <2>2. hyphens \subseteq 1 .. Len(s) /\ IsFiniteSet(hyphens)
      <3>1. hyphens \subseteq 1 .. Len(s)
        BY <2>1
      <3>2. IsFiniteSet(1 .. Len(s))
        BY <2>1, FS_Interval
      <3> HIDE DEF hyphens
      <3> QED BY <3>1, <3>2, FS_Subset
    <2>3. PICK h : hyphens = {h}
      BY <1>3, <2>2, FS_Singleton
    <2> HIDE DEF hyphens
    <2>4. h \in 1 .. Len(s) /\ Min(hyphens) = h
      BY <2>2, <2>3, MinFacts, SMTT(60)
    <2>5. s[h] = "-" /\ text[h] = "-"
      BY <2>1, <2>3, <2>4 DEF hyphens
    <2> QED BY <1>3, <2>1, <2>3, <2>4, <2>5, RangeOfFacts, SMTT(60)
  <1> QED BY <1>1, <1>2, <1>3

(* What a header must look like to select a range, with the hyphen at h.   *)
Shaped(text, h) ==
  /\ h \in 2 .. Len(text) /\ text[1] = "bytes=" /\ text[h] = "-"
  /\ \A i \in 2 .. Len(text) : i = h \/ text[i] \in Range(Digits)

(* A header that has no NUL is all of its C string.                        *)
LEMMA CStringWhole ==
  ASSUME NEW text \in Seq(STRING), "NUL" \notin Range(text)
  PROVE  CString(text) = text
  <1>1. Len(text) \in Nat
    OBVIOUS
  <1>2. { j \in 1 .. Len(text) : text[j] = "NUL" } = {}
    BY DEF Range
  <1>3. Strchr(text, "NUL", 1) = Len(text) + 1
    BY <1>2 DEF Strchr
  <1>4. CString(text) = SubSeq(text, 1, Len(text))
    BY <1>1, <1>3 DEF CString
  <1> QED BY <1>4

(* Such a header is taken apart at its only hyphen.                        *)
LEMMA ShapedFacts ==
  ASSUME NEW text \in Seq(STRING), "NUL" \notin Range(text), NEW h, Shaped(text, h)
  PROVE  /\ ParseRange(text) = RangeOf(text, text, h)
         /\ \A i \in 2 .. Len(text) : text[i] = "-" => i = h
  <1> DEFINE hyphens == { i \in DOMAIN text : text[i] = "-" }
  <1>1. Len(text) \in Nat /\ DOMAIN text = 1 .. Len(text) /\ h \in 1 .. Len(text) /\ text # <<>>
    BY DEF Shaped
  <1>2. "-" \notin Range(Digits)
    BY DEF Range, Digits
  <1>3. \A i \in 2 .. Len(text) : text[i] = "-" => i = h
    BY <1>2 DEF Shaped
  <1>4. hyphens = {h}
    <2>1. \A i \in 1 .. Len(text) : i = 1 \/ i \in 2 .. Len(text)
      BY <1>1
    <2>2. text[1] # "-" /\ text[h] = "-"
      BY DEF Shaped
    <2> QED BY <1>1, <1>3, <2>1, <2>2
  <1>5. Cardinality(hyphens) = 1 /\ Min(hyphens) = h
    <2>1. Cardinality({h}) = 1
      BY FS_Singleton
    <2>2. {h} \subseteq Nat
      BY <1>1
    <2>3. Min({h}) \in {h}
      BY <2>2, MinFacts
    <2> QED BY <1>4, <2>1, <2>3
  <1>6. \A i \in 2 .. Len(text) : i \in hyphens \/ text[i] \in Range(Digits)
    BY <1>4 DEF Shaped
  <1> HIDE DEF hyphens
  <1>7. ParseRange(text) =
          CASE text = <<>> -> NoSpan("none", FALSE, text)
            [] text # <<>> /\ text # <<>> /\ text[1] = "bytes=" /\ Cardinality(hyphens) = 1
                 /\ (\A i \in 2 .. Len(text) : i \in hyphens \/ text[i] \in Range(Digits)) ->
                 RangeOf(text, text, Min(hyphens))
            [] OTHER -> NoSpan("bad", FALSE, text)
    BY CStringWhole, Zenon DEF ParseRange, hyphens
  <1>8. ParseRange(text) = RangeOf(text, text, h)
    BY <1>1, <1>5, <1>6, <1>7, Zenon DEF Shaped
  <1> QED BY <1>3, <1>8

(* Whatever selects a range has this shape, and so has whatever is parsed  *)
(* as one.                                                                 *)
LEMMA SelectsShaped ==
  ASSUME NEW text \in Seq(STRING), NEW from, NEW to, Selects(text, from, to)
  PROVE  \E h : /\ Shaped(text, h)
                /\ Ends(SubSeq(text, 2, h - 1), SubSeq(text, h + 1, Len(text)), from, to)
  <1>1. PICK h \in 2 .. Len(text) :
          /\ text[1] = "bytes=" /\ text[h] = "-"
          /\ Ends(SubSeq(text, 2, h - 1), SubSeq(text, h + 1, Len(text)), from, to)
    BY Zenon DEF Selects
  <1> DEFINE left  == SubSeq(text, 2, h - 1)
             right == SubSeq(text, h + 1, Len(text))
  <1>2. Len(text) \in Nat
    OBVIOUS
  <1>3. /\ Len(left) = h - 2 /\ \A i \in 1 .. h - 2 : left[i] = text[i + 1]
        /\ Len(right) = Len(text) - h /\ \A i \in 1 .. Len(text) - h : right[i] = text[i + h]
    BY <1>2, SMTT(60)
  <1>4. /\ \A i \in 1 .. Len(left) : left[i] \in Range(Digits)
        /\ \A i \in 1 .. Len(right) : right[i] \in Range(Digits)
    <2>1. left = <<>> \/ Spelled(from, left)
      BY <1>1, Zenon DEF Ends
    <2>2. right = <<>> \/ Spelled(to, right)
      BY <1>1, Zenon DEF Ends
    <2> HIDE DEF left, right
    <2>3. \A i \in 1 .. Len(left) : left[i] \in Range(Digits)
      BY <2>1 DEF Spelled
    <2>4. \A i \in 1 .. Len(right) : right[i] \in Range(Digits)
      BY <2>2 DEF Spelled
    <2> QED BY <2>3, <2>4
  <1> HIDE DEF left, right
  <1>5. ASSUME NEW i \in 2 .. Len(text), i # h PROVE text[i] \in Range(Digits)
    <2>1. CASE i < h
      <3>1. i - 1 \in 1 .. h - 2 /\ (i - 1) + 1 = i
        BY <1>2, <2>1
      <3> QED BY <1>3, <1>4, <3>1
    <2>2. CASE i > h
      <3>1. i - h \in 1 .. Len(text) - h /\ (i - h) + h = i
        BY <1>2, <2>2
      <3> QED BY <1>3, <1>4, <3>1
    <2> QED BY <1>2, <1>5, <2>1, <2>2
  <1>6. Shaped(text, h)
    BY <1>1, <1>5 DEF Shaped
  <1> QED BY <1>1, <1>6

LEMMA BytesShaped ==
  ASSUME NEW text \in Seq(STRING), "NUL" \notin Range(text), ParseRange(text).kind = "bytes"
  PROVE  \E h : Shaped(text, h)
  <1> DEFINE hyphens == { i \in DOMAIN text : text[i] = "-" }
  <1>1. CString(text) = text
    BY CStringWhole
  <1>2. NoSpan("none", FALSE, text).kind # "bytes" /\ NoSpan("bad", FALSE, text).kind # "bytes"
    BY DEF NoSpan
  <1>3. /\ text[1] = "bytes=" /\ Cardinality(hyphens) = 1
        /\ \A i \in 2 .. Len(text) : i \in hyphens \/ text[i] \in Range(Digits)
    <2> DEFINE fits == /\ text[1] = "bytes=" /\ Cardinality(hyphens) = 1
                       /\ \A i \in 2 .. Len(text) : i \in hyphens \/ text[i] \in Range(Digits)
    <2>1. \/ ParseRange(text) = NoSpan("none", FALSE, text)
          \/ ParseRange(text) = NoSpan("bad", FALSE, text)
          \/ fits
      BY <1>1, Zenon DEF ParseRange
    <2> HIDE DEF fits
    <2>2. fits
      BY <1>2, <2>1
    <2> QED BY <2>2 DEF fits
  <1>4. hyphens \subseteq 1 .. Len(text) /\ IsFiniteSet(hyphens)
    <2>1. hyphens \subseteq 1 .. Len(text) /\ Len(text) \in Nat
      OBVIOUS
    <2>2. IsFiniteSet(1 .. Len(text))
      BY <2>1, FS_Interval
    <2> HIDE DEF hyphens
    <2> QED BY <2>1, <2>2, FS_Subset
  <1>5. PICK h : hyphens = {h}
    <2> HIDE DEF hyphens
    <2> QED BY <1>3, <1>4, FS_Singleton
  <1>6. h \in 1 .. Len(text) /\ text[h] = "-" /\ h # 1
    BY <1>3, <1>5
  <1>7. h \in 2 .. Len(text)
    BY <1>6
  <1>8. \A i \in 2 .. Len(text) : i = h \/ text[i] \in Range(Digits)
    <2> HIDE DEF hyphens
    <2> QED BY <1>3, <1>5
  <1> QED BY <1>3, <1>6, <1>7, <1>8, Zenon DEF Shaped

(* kitserv_http_parse_range finds the range that the header selects, and   *)
(* refuses a header that selects none it can count to.                     *)
LEMMA RangeSelects ==
  ASSUME NEW text \in Seq(STRING), "NUL" \notin Range(text)
  PROVE  LET r == ParseRange(text)
         IN  IF r.kind = "bytes" THEN Selects(text, r.from, r.to)
             ELSE \A from, to \in -1 .. MaxOff : ~ Selects(text, from, to)
  <1> DEFINE r == ParseRange(text)
  <1>1. CASE \E h : Shaped(text, h)
    <2>1. PICK h : Shaped(text, h)
      BY <1>1
    <2> DEFINE left  == SubSeq(text, 2, h - 1)
               right == SubSeq(text, h + 1, Len(text))
    <2>2. h \in 1 .. Len(text) /\ h \in 2 .. Len(text)
          /\ \A i \in 2 .. Len(text) : i = h \/ text[i] \in Range(Digits)
      BY <2>1 DEF Shaped
    <2>3. /\ left \in Seq(STRING) /\ \A i \in 1 .. Len(left) : left[i] \in Range(Digits)
          /\ right \in Seq(STRING) /\ \A i \in 1 .. Len(right) : right[i] \in Range(Digits)
      BY <2>2, HalvesFacts
    <2>4. r = RangeOf(text, text, h) /\ \A i \in 2 .. Len(text) : text[i] = "-" => i = h
      BY <2>1, ShapedFacts
    <2>5. IF Unserved(left, right) THEN r.kind = "bad"
          ELSE r.kind = "bytes" /\ r.from = Strtonum(left) /\ r.to = Strtonum(right)
      BY <2>2, <2>4, RangeOfKinds
    <2>6. \A from, to : Selects(text, from, to) <=> Ends(left, right, from, to)
      <3> SUFFICES ASSUME NEW from, NEW to
                   PROVE  Selects(text, from, to) <=> Ends(left, right, from, to)
        OBVIOUS
      <3>1. ASSUME Ends(left, right, from, to) PROVE Selects(text, from, to)
        BY <2>1, <2>2, <3>1, Zenon DEF Selects, Shaped
      <3>2. ASSUME Selects(text, from, to) PROVE Ends(left, right, from, to)
        <4>1. PICK g \in 2 .. Len(text) :
                /\ text[g] = "-"
                /\ Ends(SubSeq(text, 2, g - 1), SubSeq(text, g + 1, Len(text)), from, to)
          BY <3>2, Zenon DEF Selects
        <4>2. g = h
          BY <2>4, <4>1
        <4> QED BY <4>1, <4>2
      <3> QED BY <3>1, <3>2
    <2> HIDE DEF left, right, r
    <2>7. Strtonum(left) \in Int /\ Strtonum(right) \in Int
      BY <2>3, StrtonumFacts
    <2>8. CASE ~ Unserved(left, right)
      <3>1. Ends(left, right, Strtonum(left), Strtonum(right))
        <4>1. left \o right # <<>>
              /\ (Strtonum(left) >= 0 /\ Strtonum(right) >= 0 => Strtonum(left) <= Strtonum(right))
          BY <2>7, <2>8 DEF Unserved
        <4> QED BY <2>3, <2>7, <4>1, EndsFacts
      <3> QED BY <2>5, <2>6, <2>8, <3>1 DEF r
    <2>9. CASE Unserved(left, right)
      <3>1. ASSUME NEW from \in -1 .. MaxOff, NEW to \in -1 .. MaxOff, Ends(left, right, from, to)
            PROVE  FALSE
        <4>1. from \in Int /\ to \in Int /\ from <= MaxOff /\ to <= MaxOff
          BY FieldsAssumption
        <4>2. /\ from = Strtonum(left) /\ to = Strtonum(right) /\ left \o right # <<>>
              /\ from >= 0 /\ to >= 0 => from <= to
          BY <2>3, <3>1, <4>1, EndsFacts
        <4> QED BY <2>9, <4>1, <4>2, FieldsAssumption DEF Unserved
      <3> QED BY <2>5, <2>6, <2>9, <3>1 DEF r
    <2> QED BY <2>8, <2>9
  <1>2. CASE ~ \E h : Shaped(text, h)
    <2>1. r.kind # "bytes"
      BY <1>2, BytesShaped
    <2>2. \A from, to : ~ Selects(text, from, to)
      BY <1>2, SelectsShaped
    <2> QED BY <2>1, <2>2
  <1> QED BY <1>1, <1>2

-----------------------------------------------------------------------------
(* The search for the file.                                                *)
Errnos == {"EACCES", "other"}
Untried(e) == [errno |-> e, status |-> UNSET, name |-> "none"]
Tried(in, was, x) ==
  IF was.status # UNSET \/ was.name # "none" THEN was
  ELSE [errno |-> StatErrno(in.names[x], was.errno),
        status |-> VerifyStatus(in.names[x], was.errno),
        name |-> IF Found(in.names[x]) THEN x ELSE "none"]

(* The first candidate that is no directory and not missing ends it.       *)
Settled(in, s, x) ==
  /\ in.names[x] = "denied" => s.status = 403
  /\ in.names[x] = "long" => s.status = 414
  /\ Found(in.names[x]) => s.status = UNSET /\ s.name = x

Searching(s) == s.errno \in Errnos /\ s.status = UNSET /\ s.name = "none"
Outcome(in, s) ==
  /\ s.errno \in Errnos /\ s.status \in {UNSET, 403, 414}
  /\ s.name # "none" => s.status = UNSET /\ Found(in.names[s.name])

(* One candidate is tried (verify_static_path).                            *)
LEMMA TriedFacts ==
  ASSUME NEW in, NEW x \in {"direct", "root", "html", "fallback"}, in.names[x] \in FileKind,
         NEW was, Outcome(in, was)
  PROVE  LET s == Tried(in, was, x)
         IN  /\ ~ Searching(was) => s = was
             /\ Outcome(in, s)
             /\ Searching(was) /\ was.errno # "EACCES" =>
                  IF in.names[x] \in {"dir", "missing"}
                    THEN Searching(s) /\ s.errno # "EACCES"
                    ELSE ~ Searching(s) /\ Settled(in, s, x)
  <1> DEFINE s == Tried(in, was, x)
             kind == in.names[x]
  <1>1. CASE ~ Searching(was)
    BY <1>1 DEF Searching, Outcome, Tried
  <1>2. CASE Searching(was)
    <2>1. s = [errno |-> StatErrno(kind, was.errno), status |-> VerifyStatus(kind, was.errno),
               name |-> IF Found(kind) THEN x ELSE "none"]
      BY <1>2 DEF Searching, Tried
    <2>2. /\ s.errno = StatErrno(kind, was.errno) /\ s.status = VerifyStatus(kind, was.errno)
          /\ s.name = IF Found(kind) THEN x ELSE "none"
      BY <2>1
    <2> HIDE DEF s
    <2>3. was.errno \in Errnos
      BY <1>2 DEF Searching
    <2>4. /\ kind \in {"file", "unreadable", "dir"} => s.errno = was.errno
          /\ kind = "denied" => s.errno = "EACCES"
          /\ kind \in {"missing", "long"} => s.errno = "other"
      BY <2>2 DEF StatErrno
    <2>5. /\ kind \in {"file", "unreadable"} => s.status = UNSET /\ s.name = x
          /\ kind \notin {"file", "unreadable"} => s.name = "none"
          /\ kind = "long" => s.status = 414
          /\ kind = "denied" => s.status = 403
          /\ kind = "missing" => s.status = UNSET
          /\ kind = "dir" => s.status = IF was.errno = "EACCES" THEN 403 ELSE UNSET
      BY <2>2 DEF VerifyStatus, StatErrno, Found
    <2>6. kind \in {"file", "unreadable", "dir", "missing", "denied", "long"}
      BY DEF FileKind
    <2> HIDE DEF kind
    <2>7. Outcome(in, s)
      BY <2>3, <2>4, <2>5, <2>6 DEF Outcome, Errnos, Found, kind
    <2>8. was.errno # "EACCES" =>
                  IF kind \in {"dir", "missing"}
                    THEN Searching(s) /\ s.errno # "EACCES"
                    ELSE ~ Searching(s) /\ Settled(in, s, x)
      BY <2>3, <2>4, <2>5, <2>6 DEF Searching, Settled, Errnos, Found, kind, UNSET
    <2> QED BY <1>2, <2>7, <2>8 DEF s, kind
  <1> QED BY <1>1, <1>2

(* The search is as many tries as there are candidates.                    *)
LEMMA SearchSteps ==
  ASSUME NEW in, NEW e, Len(Candidates(in)) \in 1 .. 3
  PROVE  LET c  == Candidates(in)
             s1 == Tried(in, Untried(e), c[1])
             s2 == Tried(in, s1, c[2])
             s3 == Tried(in, s2, c[3])
         IN  Search(in, e) = IF Len(c) = 1 THEN s1 ELSE IF Len(c) = 2 THEN s2 ELSE s3
  <1> DEFINE c  == Candidates(in)
             D  == 0 .. Len(c)
             Body(g) == [k \in D |-> IF k = 0 THEN Untried(e) ELSE Tried(in, g[k - 1], c[k])]
             try == CHOOSE g : g = Body(g)
             s1 == Tried(in, Untried(e), c[1])
             s2 == Tried(in, s1, c[2])
             s3 == Tried(in, s2, c[3])
             g0 == [k \in D |-> IF k = 0 THEN Untried(e) ELSE IF k = 1 THEN s1
                                ELSE IF k = 2 THEN s2 ELSE s3]
  <1>1. Search(in, e) = try[Len(c)]
    BY DEF Search, Untried, Tried
  <1> HIDE DEF c
  <1>2. Len(c) \in 1 .. 3
    BY DEF c
  <1>3. g0 = Body(g0)
    <2>1. ASSUME NEW k \in D PROVE g0[k] = Body(g0)[k]
      <3>1. k \in 0 .. 3
        <4>1. PICK n \in 1 .. 3 : n = Len(c)
          BY <1>2
        <4>2. k \in 0 .. n
          BY <2>1, <4>1
        <4> HIDE DEF Body, D, g0, try
        <4> QED BY <4>2
      <3>2. k # 0 => k - 1 \in D
        BY <1>2, <2>1
      <3>3. g0[k] = IF k = 0 THEN Untried(e) ELSE IF k = 1 THEN s1
                                ELSE IF k = 2 THEN s2 ELSE s3
        BY <2>1
      <3>4. k # 0 => g0[k - 1] = IF k = 1 THEN Untried(e) ELSE IF k = 2 THEN s1
                                ELSE IF k = 3 THEN s2 ELSE s3
        BY <3>1, <3>2
      <3>5. Body(g0)[k] = IF k = 0 THEN Untried(e) ELSE Tried(in, g0[k - 1], c[k])
        BY <2>1
      <3> HIDE DEF g0, Body
      <3>6. k = 0 \/ k = 1 \/ k = 2 \/ k = 3
        BY <3>1
      <3> QED BY <3>3, <3>4, <3>5, <3>6
    <2> QED BY <2>1
  <1>4. try = Body(try)
    BY <1>3, Zenon
  <1> HIDE DEF try
  <1>5. ASSUME NEW k \in D
        PROVE  try[k] = IF k = 0 THEN Untried(e) ELSE Tried(in, try[k - 1], c[k])
    BY <1>4
  <1>6. 0 \in D /\ 1 \in D /\ (Len(c) > 1 => 2 \in D) /\ (Len(c) > 2 => 3 \in D)
    BY <1>2
  <1>7. try[0] = Untried(e) /\ try[1] = s1
    BY <1>5, <1>6
  <1>8. Len(c) > 1 => try[2] = s2
    BY <1>5, <1>6, <1>7
  <1>9. Len(c) > 2 => try[3] = s3
    BY <1>2, <1>5, <1>6, <1>8
  <1>10. Len(c) = 1 \/ Len(c) = 2 \/ Len(c) = 3
    BY <1>2
  <1>11. Search(in, e) = IF Len(c) = 1 THEN s1 ELSE IF Len(c) = 2 THEN s2 ELSE s3
    <2> HIDE DEF s1, s2, s3
    <2>1. CASE Len(c) = 1
      BY <1>1, <1>7, <2>1
    <2>2. CASE Len(c) = 2
      BY <1>1, <1>8, <2>2
    <2>3. CASE Len(c) = 3
      BY <1>1, <1>9, <2>3
    <2> QED BY <1>10, <2>1, <2>2, <2>3
  <1> QED BY <1>11, Zenon DEF c

(* The search as it is: every candidate that is configured, in order.      *)
LEMMA SearchTries ==
  ASSUME NEW in, NEW e
  PROVE  LET first == IF in.isRoot /\ in.names["root"] # "off" THEN "root" ELSE "direct"
             t1 == Tried(in, Untried(e), first)
             t2 == IF in.names["html"] # "off" THEN Tried(in, t1, "html") ELSE t1
         IN  Search(in, e) = IF in.names["fallback"] # "off" THEN Tried(in, t2, "fallback") ELSE t2
  <1> DEFINE first == IF in.isRoot /\ in.names["root"] # "off" THEN "root" ELSE "direct"
             html == in.names["html"] # "off"
             fallback == in.names["fallback"] # "off"
             c == Candidates(in)
             t1 == Tried(in, Untried(e), first)
             t2 == IF html THEN Tried(in, t1, "html") ELSE t1
  <1>1. c = <<first>> \o (IF html THEN <<"html">> ELSE <<>>)
                      \o (IF fallback THEN <<"fallback">> ELSE <<>>)
    BY DEF Candidates
  <1>2. first \in {"root", "direct"}
    OBVIOUS
  <1> HIDE DEF first, html, fallback, c
  <1> DEFINE S == {"root", "direct", "html", "fallback"}
  <1>3. /\ \A x \in S : /\ <<x>> \in Seq(S) /\ Len(<<x>>) = 1 /\ <<x>>[1] = x
        /\ <<>> \in Seq(S) /\ Len(<<>>) = 0
        /\ "html" \in S /\ "fallback" \in S /\ first \in S
    BY <1>2
  <1> HIDE DEF S
  <1>4. \A u, v \in Seq(S) :
          /\ u \o v \in Seq(S) /\ Len(u \o v) = Len(u) + Len(v)
          /\ \A k \in 1 .. Len(u) : (u \o v)[k] = u[k]
          /\ \A k \in 1 .. Len(v) : (u \o v)[Len(u) + k] = v[k]
    OBVIOUS
  <1>5. CASE ~ html /\ ~ fallback
    <2>1. Len(c) = 1 /\ c[1] = first
      BY <1>1, <1>3, <1>4, <1>5
    <2>2. Search(in, e) = t1
      BY <2>1, SearchSteps DEF c
    <2> QED BY <1>5, <2>2 DEF first, html, fallback
  <1>6. CASE html /\ ~ fallback
    <2>1. Len(c) = 2 /\ c[1] = first /\ c[2] = "html"
      BY <1>1, <1>3, <1>4, <1>6
    <2>2. Search(in, e) = Tried(in, t1, "html")
      BY <2>1, SearchSteps DEF c
    <2> QED BY <1>6, <2>2 DEF first, html, fallback
  <1>7. CASE ~ html /\ fallback
    <2>1. Len(c) = 2 /\ c[1] = first /\ c[2] = "fallback"
      BY <1>1, <1>3, <1>4, <1>7
    <2>2. Search(in, e) = Tried(in, t1, "fallback")
      BY <2>1, SearchSteps DEF c
    <2> QED BY <1>7, <2>2 DEF first, html, fallback
  <1>8. CASE html /\ fallback
    <2>1. Len(c) = 3 /\ c[1] = first /\ c[2] = "html" /\ c[3] = "fallback"
      BY <1>1, <1>3, <1>4, <1>8
    <2>2. Search(in, e) = Tried(in, Tried(in, t1, "html"), "fallback")
      BY <2>1, SearchSteps DEF c
    <2> QED BY <1>8, <2>2 DEF first, html, fallback
  <1> QED BY <1>5, <1>6, <1>7, <1>8

FileNames == [direct : FileKind, root : Optional, html : Optional, fallback : Optional]

LEMMA SearchFacts ==
  ASSUME NEW in, in.names \in FileNames, NEW e \in Errnos
  PROVE  LET s == Search(in, e)
             first == IF in.isRoot /\ in.names["root"] # "off" THEN "root" ELSE "direct"
             W == {first} \union {x \in {"html", "fallback"} : in.names[x] # "off"}
             Passed(x) == in.names[x] \in {"dir", "missing"}
         IN  /\ Outcome(in, s)
             /\ e # "EACCES" =>
                  \/ Searching(s) /\ \A x \in W : Passed(x)
                  \/ \E x \in W :
                       /\ ~ Searching(s) /\ ~ Passed(x) /\ Settled(in, s, x)
                       /\ x = "html" => Passed(first)
                       /\ x = "fallback" => \A y \in W : y # "fallback" => Passed(y)
  <1> DEFINE first == IF in.isRoot /\ in.names["root"] # "off" THEN "root" ELSE "direct"
             W == {first} \union {x \in {"html", "fallback"} : in.names[x] # "off"}
             Passed(x) == in.names[x] \in {"dir", "missing"}
             t0 == Untried(e)
             t1 == Tried(in, t0, first)
             t2 == IF in.names["html"] # "off" THEN Tried(in, t1, "html") ELSE t1
             t3 == IF in.names["fallback"] # "off" THEN Tried(in, t2, "fallback") ELSE t2
             s == Search(in, e)
  <1>1. s = t3
    BY SearchTries
  <1>2. /\ first \in {"direct", "root"} /\ in.names[first] \in FileKind
        /\ in.names["html"] # "off" => in.names["html"] \in FileKind
        /\ in.names["fallback"] # "off" => in.names["fallback"] \in FileKind
    BY DEF FileNames, Optional
  <1>3. Outcome(in, t0) /\ Searching(t0) /\ (e # "EACCES" => t0.errno # "EACCES")
    BY DEF Outcome, Searching, Untried, UNSET
  <1> HIDE DEF t0, first
  <1>4. /\ Outcome(in, t1)
        /\ e # "EACCES" => IF Passed(first) THEN Searching(t1) /\ t1.errno # "EACCES"
                                            ELSE ~ Searching(t1) /\ Settled(in, t1, first)
    BY <1>2, <1>3, TriedFacts
  <1> HIDE DEF t1
  <1>5. /\ Outcome(in, t2)
        /\ ~ Searching(t1) => t2 = t1
        /\ in.names["html"] = "off" => t2 = t1
        /\ in.names["html"] # "off" /\ Searching(t1) /\ t1.errno # "EACCES" =>
             IF Passed("html") THEN Searching(t2) /\ t2.errno # "EACCES"
                               ELSE ~ Searching(t2) /\ Settled(in, t2, "html")
    <2>1. CASE in.names["html"] = "off"
      BY <1>4, <2>1
    <2>2. CASE in.names["html"] # "off"
      BY <1>2, <1>4, <2>2, TriedFacts
    <2> QED BY <2>1, <2>2
  <1> HIDE DEF t2
  <1>6. /\ Outcome(in, t3)
        /\ ~ Searching(t2) => t3 = t2
        /\ in.names["fallback"] = "off" => t3 = t2
        /\ in.names["fallback"] # "off" /\ Searching(t2) /\ t2.errno # "EACCES" =>
             IF Passed("fallback") THEN Searching(t3) /\ t3.errno # "EACCES"
                                   ELSE ~ Searching(t3) /\ Settled(in, t3, "fallback")
    <2>1. CASE in.names["fallback"] = "off"
      BY <1>5, <2>1
    <2>2. CASE in.names["fallback"] # "off"
      BY <1>2, <1>5, <2>2, TriedFacts
    <2> QED BY <2>1, <2>2
  <1> HIDE DEF t3, s, Passed
  <1>7. /\ first \in W /\ first \notin {"html", "fallback"}
        /\ \A x \in {"html", "fallback"} : x \in W <=> in.names[x] # "off"
        /\ \A x \in W : x = first \/ x = "html" \/ x = "fallback"
    BY <1>2
  <1> HIDE DEF W
  <1>8. ASSUME e # "EACCES"
        PROVE  \/ Searching(t3) /\ \A x \in W : Passed(x)
               \/ \E x \in W :
                       /\ ~ Searching(t3) /\ ~ Passed(x) /\ Settled(in, t3, x)
                       /\ x = "html" => Passed(first)
                       /\ x = "fallback" => \A y \in W : y # "fallback" => Passed(y)
    <2>1. CASE ~ Passed(first)
      BY <1>4, <1>5, <1>6, <1>7, <1>8, <2>1
    <2>2. CASE Passed(first) /\ "html" \in W /\ ~ Passed("html")
      BY <1>4, <1>5, <1>6, <1>7, <1>8, <2>2
    <2>3. CASE Passed(first) /\ ("html" \in W => Passed("html"))
      <3>1. Searching(t2) /\ t2.errno # "EACCES"
        BY <1>4, <1>5, <1>7, <1>8, <2>3
      <3>2. \A y \in W : y # "fallback" => Passed(y)
        BY <1>7, <2>3
      <3>3. CASE "fallback" \in W /\ ~ Passed("fallback")
        BY <1>6, <1>7, <2>3, <3>1, <3>2, <3>3
      <3>4. CASE "fallback" \in W => Passed("fallback")
        BY <1>6, <1>7, <3>1, <3>2, <3>4
      <3> QED BY <3>3, <3>4
    <2> QED BY <2>1, <2>2, <2>3
  <1> QED BY <1>1, <1>6, <1>8 DEF W, Passed, first, s

-----------------------------------------------------------------------------
(* The response a static request gets.                                     *)
StaticInput(in) ==
  /\ in.names \in FileNames /\ in.size \in Nat /\ in.range \in RangeRecord
  /\ in.since \in {"none", "bad", "current"}

(* close_fd_to_zero.                                                       *)
LEMMA CloseFdFacts ==
  ASSUME NEW t \in ResponseRecord
  PROVE  /\ CloseFd(t) \in ResponseRecord /\ CloseFd(t).status = t.status
         /\ CloseFd(t).fd <= 0 /\ CloseFd(t).fd \in {t.fd, FdDisable}
  BY DEF CloseFd, ResponseRecord, FdDisable

(* err_closefd: a failure holds no descriptor.                             *)
LEMMA FailedFacts ==
  ASSUME NEW t \in ResponseRecord, NEW status \in Nat
  PROVE  LET r == Failed(t, status)
         IN  /\ r.rc = -1 /\ r.ta \in ResponseRecord /\ r.ta.status = status
             /\ r.ta.fd <= 0 /\ r.ta.fd \in {t.fd, FdDisable}
  <1> DEFINE u == [t EXCEPT !.status = status]
  <1>1. u \in ResponseRecord /\ u.status = status /\ u.fd = t.fd
    BY DEF ResponseRecord
  <1>2. Failed(t, status) = [rc |-> -1, ta |-> CloseFd(u)]
    BY DEF Failed
  <1> HIDE DEF u
  <1> QED BY <1>1, <1>2, CloseFdFacts

(* The fields once the file is found.                                      *)
LEMMA StartFacts ==
  ASSUME NEW in, in.size \in Nat, NEW hdrs \in 0 .. MaxHeaders, NEW fd \in Int
  PROVE  LET t == Start0(in, hdrs, fd)
         IN  t \in ResponseRecord /\ t.fd = fd /\ t.hdrs = hdrs /\ t.status = UNSET
  <1>1. ZeroResponse \in ResponseRecord /\ ZeroResponse.status = UNSET
    <2>1. NoBufs \in [1 .. 3 -> [base : Nat, len : Nat]]
      BY DEF NoBufs, NoBuf
    <2> QED BY <2>1, HeaderAssumption DEF ZeroResponse, ResponseRecord, UNSET, FdDisable
  <1>2. in.size - 1 \in Int
    OBVIOUS
  <1> QED BY <1>1, <1>2 DEF Start0, ResponseRecord

(* A range lies behind its beginning, wherever its end was.                *)
LEMMA ByteRangeFacts ==
  ASSUME NEW range \in RangeRecord, NEW size \in Nat
  PROVE  ByteRange(range, size).from \in Nat /\ ByteRange(range, size).to \in Int
  <1>1. range.from \in Int /\ range.to \in Int
    BY FieldsAssumption DEF RangeRecord
  <1>2. Clamp(range.to, size) \in Int /\ Clamp(range.to, size) <= size - 1
    BY <1>1 DEF Clamp
  <1> QED BY <1>1, <1>2 DEF ByteRange

(* The range is kept, refused, or fails.                                   *)
LEMMA WithRangeFacts ==
  ASSUME NEW in, StaticInput(in), NEW t \in ResponseRecord, t.status = UNSET
  PROVE  LET w == WithRange(in, t)
         IN  /\ w.ta \in ResponseRecord /\ w.ta.fd \in {t.fd, FdDisable}
             /\ \/ w.rc = 0 /\ w.ta.status = UNSET /\ w.ta.fd = t.fd
                \/ w.rc = -1 /\ w.ta.status \in {416, 500, Insufficient} /\ w.ta.fd <= 0
  <1> DEFINE range == ByteRange(in.range, in.size)
             r == [t EXCEPT !.pos = range.from, !.end = range.to]
             w == WithRange(in, t)
             u == [t EXCEPT !.status = 416]
             h == HeaderAdd(u)
             k == [h EXCEPT !.keepHeaders = TRUE]
  <1>1. in.range \in RangeRecord /\ in.size \in Nat /\ in.range.kind \in {"none", "bad", "bytes"}
    BY DEF StaticInput, RangeRecord
  <1>2. r \in ResponseRecord /\ r.fd = t.fd /\ r.status = UNSET /\ r.hdrs = t.hdrs
    BY <1>1, ByteRangeFacts DEF ResponseRecord
  <1>3. u \in ResponseRecord /\ u.fd = t.fd /\ u.status = 416
    BY DEF ResponseRecord
  <1>4. \/ in.range.kind \in {"none", "bad"} /\ w = [rc |-> 0, ta |-> t]
        \/ w = [rc |-> -1, ta |-> CloseFd(k)]
        \/ w = Failed(r, 500)
        \/ Room(t) # 0 /\ w = [rc |-> 0, ta |-> HeaderAdd(r)]
    <2>1. w = CASE in.range.kind \in {"none", "bad"} -> [rc |-> 0, ta |-> t]
                [] in.range.kind = "bytes" /\ ~ Satisfiable(in.range, in.size) ->
                     [rc |-> -1, ta |-> CloseFd(k)]
                [] in.range.kind = "bytes" /\ Satisfiable(in.range, in.size) /\ Room(t) = 0 ->
                     Failed(r, 500)
                [] OTHER -> [rc |-> 0, ta |-> HeaderAdd(r)]
      BY Zenon DEF WithRange
    <2> HIDE DEF w, k, r
    <2>2. CASE in.range.kind \in {"none", "bad"}
      BY <2>1, <2>2
    <2>3. CASE in.range.kind = "bytes" /\ ~ Satisfiable(in.range, in.size)
      BY <2>1, <2>3
    <2>4. CASE in.range.kind = "bytes" /\ Satisfiable(in.range, in.size) /\ Room(t) = 0
      BY <2>1, <2>4
    <2>5. CASE in.range.kind = "bytes" /\ Satisfiable(in.range, in.size) /\ Room(t) # 0
      BY <2>1, <2>5
    <2> QED BY <1>1, <2>2, <2>3, <2>4, <2>5
  <1> HIDE DEF w, r, u
  <1>5. CASE w = [rc |-> 0, ta |-> t]
    BY <1>5 DEF w
  <1>6. CASE w = [rc |-> -1, ta |-> CloseFd(k)]
    <2>1. h \in ResponseRecord /\ h.fd = t.fd /\ h.status \in {416, Insufficient}
      BY <1>3, HeaderAddFacts
    <2> HIDE DEF h
    <2>2. k \in ResponseRecord /\ k.fd = t.fd /\ k.status \in {416, Insufficient}
      BY <2>1, ZenonT(60) DEF ResponseRecord
    <2> HIDE DEF k
    <2> QED BY <1>6, <2>2, CloseFdFacts DEF w
  <1>7. CASE w = Failed(r, 500)
    BY <1>2, <1>7, FailedFacts DEF w
  <1>8. CASE Room(t) # 0 /\ w = [rc |-> 0, ta |-> HeaderAdd(r)]
    <2>1. Room(r) > 0
      BY <1>2, <1>8, HeaderAssumption DEF Room, ResponseRecord
    <2>2. HeaderAdd(r) \in ResponseRecord /\ HeaderAdd(r).fd = t.fd /\ HeaderAdd(r).status = UNSET
      BY <1>2, <2>1, HeaderAddFacts
    <2> QED BY <1>8, <2>2 DEF w
  <1> QED BY <1>4, <1>5, <1>6, <1>7, <1>8

(* The headers and If-Modified-Since.                                      *)
LEMMA ConditionalFacts ==
  ASSUME NEW in, StaticInput(in), NEW t \in ResponseRecord
  PROVE  LET c == Conditional(in, t)
         IN  /\ c.rc \in {0, -1} /\ c.ta \in ResponseRecord /\ c.ta.fd \in {t.fd, FdDisable}
             /\ c.ta.status \in {OK, 206, 304, BadRequest, 500}
             /\ c.rc # 0 => c.ta.fd <= 0
             /\ c.ta.fd > 0 => c.ta.status \in {OK, 206}
  <1> DEFINE n == IF Room(t) < 3 THEN MaxHeaders ELSE t.hdrs + 3
             h == [t EXCEPT !.hdrs = n]
             ok == IF in.range.kind = "bytes" THEN 206 ELSE OK
             c == Conditional(in, t)
             Facts(d) ==
               /\ d.rc \in {0, -1} /\ d.ta \in ResponseRecord /\ d.ta.fd \in {t.fd, FdDisable}
               /\ d.ta.status \in {OK, 206, 304, BadRequest, 500}
               /\ d.rc # 0 => d.ta.fd <= 0
               /\ d.ta.fd > 0 => d.ta.status \in {OK, 206}
  <1>1. n \in 0 .. MaxHeaders
    BY HeaderAssumption DEF Room, ResponseRecord
  <1> HIDE DEF n
  <1>2. h \in ResponseRecord /\ h.fd = t.fd
    BY <1>1 DEF ResponseRecord
  <1>3. ok \in {OK, 206}
    OBVIOUS
  <1>4. \/ c = Failed(h, 500) \/ c = Failed(h, BadRequest)
        \/ c = [rc |-> 0, ta |-> CloseFd([h EXCEPT !.status = 304])]
        \/ c = [rc |-> 0, ta |-> [h EXCEPT !.status = ok]]
    <2>1. h = [t EXCEPT !.hdrs = IF Room(t) < 3 THEN MaxHeaders ELSE @ + 3]
      BY DEF n
    <2>2. c = CASE Room(t) < 3 -> Failed(h, 500)
                [] Room(t) >= 3 /\ in.since = "bad" -> Failed(h, BadRequest)
                [] Room(t) >= 3 /\ in.since = "current" ->
                     [rc |-> 0, ta |-> CloseFd([h EXCEPT !.status = 304])]
                [] OTHER -> [rc |-> 0, ta |-> [h EXCEPT !.status = ok]]
      BY <2>1, ZenonT(60) DEF Conditional
    <2> HIDE DEF h, ok, c
    <2>3. Room(t) \in Int
      BY HeaderAssumption DEF Room, ResponseRecord
    <2>4. CASE Room(t) < 3
      BY <2>2, <2>3, <2>4
    <2>5. CASE ~ (Room(t) < 3) /\ in.since = "bad"
      BY <2>2, <2>3, <2>5
    <2>6. CASE ~ (Room(t) < 3) /\ in.since = "current"
      BY <2>2, <2>3, <2>6
    <2>7. CASE ~ (Room(t) < 3) /\ in.since \notin {"bad", "current"}
      BY <2>2, <2>3, <2>7
    <2> QED BY <2>4, <2>5, <2>6, <2>7
  <1> HIDE DEF h, c, ok
  <1>5. CASE c = Failed(h, 500) \/ c = Failed(h, BadRequest)
    <2>1. BadRequest \in Nat /\ 500 \in Nat
      BY DEF BadRequest
    <2>2. \A status \in {500, BadRequest} :
            LET r == Failed(h, status)
            IN  /\ r.rc = -1 /\ r.ta \in ResponseRecord /\ r.ta.status = status
                /\ r.ta.fd <= 0 /\ r.ta.fd \in {h.fd, FdDisable}
      BY <1>2, <2>1, FailedFacts
    <2>3. /\ c.rc = -1 /\ c.ta \in ResponseRecord /\ c.ta.status \in {500, BadRequest}
          /\ c.ta.fd <= 0 /\ c.ta.fd \in {t.fd, FdDisable}
      BY <1>2, <1>5, <2>2
    <2>4. ~ (c.ta.fd > 0)
      BY <2>3 DEF ResponseRecord
    <2>5. Facts(c)
      BY <2>3, <2>4
    <2> QED BY <2>5, Zenon DEF c
  <1>6. CASE c = [rc |-> 0, ta |-> CloseFd([h EXCEPT !.status = 304])]
    <2> DEFINE u == [h EXCEPT !.status = 304]
    <2>1. u \in ResponseRecord /\ u.fd = t.fd /\ u.status = 304
      BY <1>2 DEF ResponseRecord
    <2>2. c.rc = 0 /\ c.ta = CloseFd(u)
      BY <1>6
    <2> HIDE DEF u
    <2>3. /\ CloseFd(u) \in ResponseRecord /\ CloseFd(u).status = 304
          /\ CloseFd(u).fd <= 0 /\ CloseFd(u).fd \in {t.fd, FdDisable}
      BY <2>1, CloseFdFacts
    <2>4. Facts(c)
      BY <2>2, <2>3 DEF ResponseRecord
    <2> QED BY <2>4, Zenon DEF c
  <1>7. CASE c = [rc |-> 0, ta |-> [h EXCEPT !.status = ok]]
    <2>1. /\ [h EXCEPT !.status = ok] \in ResponseRecord
          /\ [h EXCEPT !.status = ok].fd = t.fd /\ [h EXCEPT !.status = ok].status = ok
      BY <1>2, <1>3 DEF ResponseRecord, OK
    <2>2. Facts(c)
      BY <1>3, <1>7, <2>1, ZenonT(60)
    <2> QED BY <2>2, Zenon DEF c
  <1> QED BY <1>4, <1>5, <1>6, <1>7

(* A file is transferred only with a status that sends it.                 *)
Statuses == {OK, 206, 304, BadRequest, 416, 500, Insufficient}

Left(fd, r) ==
  /\ r.rc \in {0, -1} /\ r.ta \in ResponseRecord /\ r.ta.fd \in {fd, FdDisable}
  /\ r.ta.status \in Statuses
  /\ r.rc # 0 => r.ta.fd <= 0
  /\ r.ta.fd > 0 => r.ta.status \in {OK, 206}

LEMMA TransferFacts ==
  ASSUME NEW in, StaticInput(in), NEW hdrs \in 0 .. MaxHeaders, NEW fd \in Int
  PROVE  Left(fd, Transfer(in, hdrs, fd))
  <1> DEFINE t == Start0(in, hdrs, fd)
             w == WithRange(in, t)
  <1>1. t \in ResponseRecord /\ t.fd = fd /\ t.status = UNSET
    BY StartFacts DEF StaticInput
  <1>2. Transfer(in, hdrs, fd) = IF w.rc # 0 THEN w ELSE Conditional(in, w.ta)
    BY DEF Transfer
  <1> HIDE DEF t
  <1>3. /\ w.ta \in ResponseRecord /\ w.ta.fd \in {fd, FdDisable}
        /\ \/ w.rc = 0 /\ w.ta.status = UNSET /\ w.ta.fd = fd
           \/ w.rc = -1 /\ w.ta.status \in {416, 500, Insufficient} /\ w.ta.fd <= 0
    BY <1>1, WithRangeFacts
  <1> HIDE DEF w
  <1>4. CASE w.rc = -1 /\ w.ta.status \in {416, 500, Insufficient} /\ w.ta.fd <= 0
    <2>1. ~ (w.ta.fd > 0)
      BY <1>3, <1>4 DEF ResponseRecord
    <2> QED BY <1>2, <1>3, <1>4, <2>1 DEF Left, Statuses
  <1>5. CASE w.rc = 0 /\ w.ta.fd = fd
    <2> DEFINE c == Conditional(in, w.ta)
    <2>1. /\ c.rc \in {0, -1} /\ c.ta \in ResponseRecord /\ c.ta.fd \in {fd, FdDisable}
          /\ c.ta.status \in {OK, 206, 304, BadRequest, 500}
          /\ c.rc # 0 => c.ta.fd <= 0
          /\ c.ta.fd > 0 => c.ta.status \in {OK, 206}
      BY <1>3, <1>5, ConditionalFacts
    <2> HIDE DEF c
    <2>2. Left(fd, c)
      BY <2>1 DEF Left, Statuses
    <2>3. Transfer(in, hdrs, fd) = c
      BY <1>2, <1>5 DEF c
    <2> QED BY <2>2, <2>3
  <1> QED BY <1>3, <1>4, <1>5

(* A refusal before a file was opened.                                     *)
LEMMA RefuseFacts ==
  ASSUME NEW hdrs \in 0 .. MaxHeaders, NEW status \in Nat
  PROVE  LET r == Refuse(hdrs, status)
         IN  /\ r.rc = -1 /\ r.ta \in ResponseRecord
             /\ r.ta.status = status /\ r.ta.fd = FdDisable
  <1>1. ZeroResponse \in ResponseRecord /\ ZeroResponse.fd = FdDisable
    <2>1. NoBufs \in [1 .. 3 -> [base : Nat, len : Nat]]
      BY DEF NoBufs, NoBuf
    <2> QED BY <2>1, HeaderAssumption DEF ZeroResponse, ResponseRecord, UNSET, FdDisable
  <1> DEFINE u == [ZeroResponse EXCEPT !.status = status, !.hdrs = hdrs]
  <1>2. u \in ResponseRecord /\ u.status = status /\ u.fd = FdDisable
    BY <1>1 DEF ResponseRecord
  <1>3. Refuse(hdrs, status) = [rc |-> -1, ta |-> u]
    BY DEF Refuse
  <1> HIDE DEF u
  <1> QED BY <1>2, <1>3

-----------------------------------------------------------------------------
(* kitserv_http_handle_static_path: whatever it leaves, and, when nothing  *)
(* misleads its search, the answer of the first file that is there.        *)
Closed(in, h) ==
  /\ h.res.rc \in {0, -1} /\ h.res.ta \in ResponseRecord /\ h.errno \in Errnos
  /\ h.res.ta.status # UNSET /\ h.res.ta.fd \in {FdHead, FdDisable, Fd}
  /\ h.res.ta.fd = FdHead => in.method = "HEAD"
  /\ h.res.rc # 0 => h.res.ta.fd <= 0
  /\ h.res.ta.fd > 0 => in.method = "GET" /\ h.res.ta.status \in {OK, 206}

AnswerOf(in, x, status) ==
  CASE in.names[x] = "denied" -> status = 403
    [] in.names[x] = "long"   -> status = 414
    [] in.names[x] = "unreadable" /\ in.method = "GET" -> status = 500
    [] OTHER -> status \in Statuses

(* The answer to what the search has come to.                              *)
LEMMA FindFileFacts ==
  ASSUME NEW in, StaticInput(in), in.method \in {"GET", "HEAD"},
         NEW hdrs \in 0 .. MaxHeaders, NEW s, Outcome(in, s)
  PROVE  LET h == FindFile(in, hdrs, s)
         IN  /\ Closed(in, h)
             /\ s.status # UNSET => h.res.ta.status = s.status
             /\ s.status = UNSET /\ s.name = "none" => h.res.ta.status = 404
             /\ s.status = UNSET /\ s.name # "none" =>
                  IF in.names[s.name] = "unreadable" /\ in.method = "GET"
                    THEN h.res.ta.status = 500
                    ELSE h.res.ta.status \in Statuses
  <1> DEFINE h == FindFile(in, hdrs, s)
             kind == in.names[s.name]
  <1>1. /\ s.errno \in Errnos /\ s.status \in {UNSET, 403, 414}
        /\ s.name # "none" => s.status = UNSET /\ Found(kind)
    BY DEF Outcome
  <1>2. UNSET \in Nat /\ 403 # UNSET /\ 414 # UNSET /\ 404 # UNSET /\ 500 # UNSET
        /\ ~ (FdDisable > 0) /\ FdDisable # FdHead /\ FdDisable <= 0
    BY DEF UNSET, FdDisable, FdHead
  <1>3. CASE s.status # UNSET
    <2>1. h = [res |-> Refuse(hdrs, s.status), errno |-> s.errno]
      BY <1>3 DEF FindFile
    <2>2. h.res = Refuse(hdrs, s.status) /\ h.errno = s.errno
      BY <2>1
    <2> HIDE DEF h
    <2>3. h.res.rc = -1 /\ h.res.ta \in ResponseRecord /\ h.res.ta.status = s.status /\ h.res.ta.fd = FdDisable
      BY <1>1, <1>2, <2>2, RefuseFacts
    <2>4. Closed(in, h)
      BY <1>1, <1>2, <1>3, <2>2, <2>3 DEF Closed
    <2> QED BY <1>3, <2>3, <2>4 DEF h
  <1>4. CASE s.status = UNSET /\ s.name = "none"
    <2>1. h = [res |-> Refuse(hdrs, 404), errno |-> s.errno]
      BY <1>4 DEF FindFile
    <2>2. h.res = Refuse(hdrs, 404) /\ h.errno = s.errno
      BY <2>1
    <2> HIDE DEF h
    <2>3. h.res.rc = -1 /\ h.res.ta \in ResponseRecord /\ h.res.ta.status = 404 /\ h.res.ta.fd = FdDisable
      BY <1>1, <1>2, <2>2, RefuseFacts
    <2>4. Closed(in, h)
      BY <1>1, <1>2, <1>4, <2>2, <2>3 DEF Closed
    <2> QED BY <1>4, <2>3, <2>4 DEF h
  <1>5. CASE s.status = UNSET /\ s.name # "none"
    <2> DEFINE Sending(fd) == [res |-> Transfer(in, hdrs, fd), errno |-> ErrnoAfter(in.range, s.errno)]
    <2>1. h = CASE in.method = "HEAD" -> Sending(FdHead)
                [] in.method = "GET" /\ kind = "unreadable" ->
                     [res |-> Refuse(hdrs, 500), errno |-> "EACCES"]
                [] in.method = "GET" /\ kind = "file" -> Sending(Fd)
      BY <1>5, Zenon DEF FindFile
    <2>2. kind \in {"file", "unreadable"}
      BY <1>1, <1>5 DEF Found
    <2>3. FdHead \in Int /\ Fd \in Int /\ ~ (FdHead > 0) /\ Fd > 0 /\ Fd # FdHead /\ Fd # FdDisable
      BY StaticAssumption DEF FdHead, FdDisable
    <2>4. ErrnoAfter(in.range, s.errno) \in Errnos
      BY <1>1 DEF ErrnoAfter, Errnos
    <2>5. \A st \in Statuses : st # UNSET
      BY DEF Statuses, UNSET, OK, BadRequest, Insufficient
    <2> HIDE DEF h, kind
    <2>6. CASE in.method = "HEAD"
      <3>1. h.res = Transfer(in, hdrs, FdHead) /\ h.errno = ErrnoAfter(in.range, s.errno)
        BY <2>1, <2>6
      <3>2. Left(FdHead, h.res)
        BY <2>3, <3>1, TransferFacts
      <3>3. Closed(in, h) /\ h.res.ta.status \in Statuses
        BY <1>2, <2>3, <2>4, <2>5, <2>6, <3>1, <3>2 DEF Closed, Left
      <3> QED BY <1>5, <2>6, <3>3 DEF h
    <2>7. CASE in.method = "GET" /\ kind = "unreadable"
      <3>1. h.res = Refuse(hdrs, 500) /\ h.errno = "EACCES"
        BY <2>1, <2>7
      <3>2. h.res.rc = -1 /\ h.res.ta \in ResponseRecord /\ h.res.ta.status = 500 /\ h.res.ta.fd = FdDisable
        BY <3>1, RefuseFacts
      <3>3. Closed(in, h)
        BY <1>2, <3>1, <3>2 DEF Closed, Errnos
      <3> QED BY <1>5, <2>7, <3>2, <3>3 DEF h, kind
    <2>8. CASE in.method = "GET" /\ kind = "file"
      <3>1. h.res = Transfer(in, hdrs, Fd) /\ h.errno = ErrnoAfter(in.range, s.errno)
        BY <2>1, <2>8
      <3>2. Left(Fd, h.res)
        BY <2>3, <3>1, TransferFacts
      <3>3. Closed(in, h) /\ h.res.ta.status \in Statuses
        BY <1>2, <2>3, <2>4, <2>5, <2>8, <3>1, <3>2 DEF Closed, Left
      <3> QED BY <1>5, <2>8, <3>3 DEF h, kind
    <2> QED BY <2>2, <2>6, <2>7, <2>8
  <1> QED BY <1>3, <1>4, <1>5

FirstName(in) == IF in.isRoot /\ in.names["root"] # "off" THEN "root" ELSE "direct"
Names(in) == {FirstName(in)} \union {x \in {"html", "fallback"} : in.names[x] # "off"}
Passed(in, x) == in.names[x] \in {"dir", "missing"}
NextInTurn(in, x) ==
  /\ ~ Passed(in, x)
  /\ x = "html" => Passed(in, FirstName(in))
  /\ x = "fallback" => \A y \in Names(in) : y # "fallback" => Passed(in, y)

FirstAnswers(in, status) ==
  IF \A x \in Names(in) : Passed(in, x) THEN status = 404
  ELSE \E x \in Names(in) : NextInTurn(in, x) /\ AnswerOf(in, x, status)

(* The whole of kitserv_http_handle_static_path.                           *)
LEMMA HandleFacts ==
  ASSUME NEW in, StaticInput(in), NEW hdrs \in 0 .. MaxHeaders, NEW e \in Errnos
  PROVE  LET h == HandleStaticPath(in, hdrs, e)
         IN  /\ Closed(in, h)
             /\ in.method \in {"GET", "HEAD"} /\ e # "EACCES" => FirstAnswers(in, h.res.ta.status)
  <1> DEFINE h == HandleStaticPath(in, hdrs, e)
  <1>1. CASE in.method \notin {"GET", "HEAD"}
    <2>1. h.res = Refuse(hdrs, NotAllowed) /\ h.errno = "other"
      BY <1>1 DEF HandleStaticPath
    <2> HIDE DEF h
    <2>2. NotAllowed \in Nat /\ NotAllowed # UNSET /\ ~ (FdDisable > 0) /\ FdDisable <= 0
          /\ FdDisable # FdHead
      BY DEF NotAllowed, UNSET, FdDisable, FdHead
    <2>3. h.res.rc = -1 /\ h.res.ta \in ResponseRecord /\ h.res.ta.status = NotAllowed
          /\ h.res.ta.fd = FdDisable
      BY <2>1, <2>2, RefuseFacts
    <2>4. Closed(in, h)
      BY <2>1, <2>2, <2>3 DEF Closed, Errnos
    <2> QED BY <1>1, <2>4 DEF h
  <1>2. CASE in.method \in {"GET", "HEAD"}
    <2> DEFINE s == Search(in, e)
               first == FirstName(in)
               W == Names(in)
    <2>1. h = FindFile(in, hdrs, s)
      BY <1>2 DEF HandleStaticPath
    <2>2. /\ Outcome(in, s)
          /\ e # "EACCES" =>
               \/ Searching(s) /\ \A x \in W : Passed(in, x)
               \/ \E x \in W : /\ ~ Searching(s) /\ Settled(in, s, x)
                               /\ NextInTurn(in, x)
      BY SearchFacts DEF StaticInput, Passed, NextInTurn, Names, FirstName
    <2> HIDE DEF h, s, W, first
    <2>3. /\ Closed(in, h)
          /\ s.status # UNSET => h.res.ta.status = s.status
          /\ s.status = UNSET /\ s.name = "none" => h.res.ta.status = 404
          /\ s.status = UNSET /\ s.name # "none" =>
                  IF in.names[s.name] = "unreadable" /\ in.method = "GET"
                    THEN h.res.ta.status = 500
                    ELSE h.res.ta.status \in Statuses
      BY <1>2, <2>1, <2>2, FindFileFacts
    <2>4. ASSUME e # "EACCES" PROVE FirstAnswers(in, h.res.ta.status)
      <3>1. CASE Searching(s) /\ \A x \in W : Passed(in, x)
        BY <2>3, <3>1 DEF FirstAnswers, Searching, W
      <3>2. ASSUME NEW x \in W, ~ Searching(s), Settled(in, s, x), NextInTurn(in, x)
            PROVE  FirstAnswers(in, h.res.ta.status)
        <4>1. ~ \A y \in W : Passed(in, y)
          BY <3>2 DEF NextInTurn
        <4>2. in.names[x] \in FileKind /\ x # "none"
          BY <3>2 DEF W, Names, FirstName, StaticInput, FileNames, Optional
        <4>3. AnswerOf(in, x, h.res.ta.status)
          <5>1. CASE in.names[x] = "denied"
            BY <2>3, <3>2, <5>1 DEF AnswerOf, Settled, UNSET
          <5>2. CASE in.names[x] = "long"
            BY <2>3, <3>2, <5>2 DEF AnswerOf, Settled, UNSET
          <5>3. CASE in.names[x] \in {"file", "unreadable"}
            <6>1. s.status = UNSET /\ s.name = x
              BY <3>2, <5>3 DEF Settled, Found
            <6>2. IF in.names[x] = "unreadable" /\ in.method = "GET"
                    THEN h.res.ta.status = 500
                    ELSE h.res.ta.status \in Statuses
              BY <2>3, <4>2, <6>1
            <6> QED BY <5>3, <6>2 DEF AnswerOf
          <5> QED BY <3>2, <4>2, <5>1, <5>2, <5>3 DEF FileKind, NextInTurn, Passed
        <4> QED BY <3>2, <4>1, <4>3, Zenon DEF FirstAnswers, W
      <3> QED BY <2>2, <2>4, <3>1, <3>2
    <2> QED BY <2>3, <2>4 DEF h
  <1> QED BY <1>1, <1>2

-----------------------------------------------------------------------------
(* A 206 is the answer to a range, and sends what the range selects.       *)
Spans(in, t, fd) ==
  /\ in.range.kind = "bytes" /\ t.fd = fd
  /\ [from |-> t.pos, to |-> t.end] = ByteRange(in.range, in.size)

(* parse_range_request.                                                    *)
LEMMA WithRangeSpans ==
  ASSUME NEW in, StaticInput(in), NEW t \in ResponseRecord, in.range.kind = "bytes",
         WithRange(in, t).rc = 0
  PROVE  Spans(in, WithRange(in, t).ta, t.fd)
  <1> DEFINE range == ByteRange(in.range, in.size)
             r == [t EXCEPT !.pos = range.from, !.end = range.to]
             h == HeaderAdd([t EXCEPT !.status = 416])
             k == CloseFd([h EXCEPT !.keepHeaders = TRUE])
             w == WithRange(in, t)
  <1>1. in.range \in RangeRecord /\ in.size \in Nat
    BY DEF StaticInput
  <1>2. /\ r \in ResponseRecord /\ r.fd = t.fd /\ r.pos = range.from /\ r.end = range.to
    BY <1>1, ByteRangeFacts DEF ResponseRecord
  <1>3. range = [from |-> range.from, to |-> range.to]
    BY DEF ByteRange
  <1>4. w = CASE in.range.kind \in {"none", "bad"} -> [rc |-> 0, ta |-> t]
              [] in.range.kind = "bytes" /\ ~ Satisfiable(in.range, in.size) -> [rc |-> -1, ta |-> k]
              [] in.range.kind = "bytes" /\ Satisfiable(in.range, in.size) /\ Room(t) = 0 ->
                   Failed(r, 500)
              [] OTHER -> [rc |-> 0, ta |-> HeaderAdd(r)]
    BY Zenon DEF WithRange
  <1> HIDE DEF w, k, r, range
  <1>5. Failed(r, 500).rc = -1 /\ [rc |-> -1, ta |-> k].rc = -1
    BY DEF Failed
  <1>6. w = [rc |-> 0, ta |-> HeaderAdd(r)]
    <2>1. CASE ~ Satisfiable(in.range, in.size)
      BY <1>4, <1>5, <2>1 DEF w
    <2>2. CASE Satisfiable(in.range, in.size) /\ Room(t) = 0
      BY <1>4, <1>5, <2>2 DEF w
    <2>3. CASE Satisfiable(in.range, in.size) /\ Room(t) # 0
      BY <1>4, <2>3
    <2> QED BY <2>1, <2>2, <2>3
  <1>7. w.ta.fd = t.fd /\ w.ta.pos = range.from /\ w.ta.end = range.to
    BY <1>2, <1>6, HeaderAddFacts
  <1> QED BY <1>3, <1>7 DEF Spans, w, range

(* The headers leave the span as it is.                                    *)
LEMMA ConditionalSpans ==
  ASSUME NEW in, NEW t \in ResponseRecord, Conditional(in, t).ta.status = 206
  PROVE  LET c == Conditional(in, t)
         IN  /\ in.range.kind = "bytes"
             /\ c.ta.fd = t.fd /\ c.ta.pos = t.pos /\ c.ta.end = t.end
  <1> DEFINE n == IF Room(t) < 3 THEN MaxHeaders ELSE t.hdrs + 3
             h == [t EXCEPT !.hdrs = n]
             u == [h EXCEPT !.status = 304]
             ok == IF in.range.kind = "bytes" THEN 206 ELSE OK
             c == Conditional(in, t)
  <1>1. n \in 0 .. MaxHeaders
    BY HeaderAssumption DEF Room, ResponseRecord
  <1> HIDE DEF n
  <1>2. h \in ResponseRecord /\ h.fd = t.fd /\ h.pos = t.pos /\ h.end = t.end
    BY <1>1 DEF ResponseRecord
  <1>3. c = CASE Room(t) < 3 -> Failed(h, 500)
              [] Room(t) >= 3 /\ in.since = "bad" -> Failed(h, BadRequest)
              [] Room(t) >= 3 /\ in.since = "current" -> [rc |-> 0, ta |-> CloseFd(u)]
              [] OTHER -> [rc |-> 0, ta |-> [h EXCEPT !.status = ok]]
    <2>1. h = [t EXCEPT !.hdrs = IF Room(t) < 3 THEN MaxHeaders ELSE @ + 3]
      BY DEF n
    <2> QED BY <2>1, ZenonT(60) DEF Conditional
  <1>4. Failed(h, 500).ta.status = 500 /\ Failed(h, BadRequest).ta.status = BadRequest
    <2>1. 500 \in Nat /\ BadRequest \in Nat
      BY DEF BadRequest
    <2> HIDE DEF h
    <2> QED BY <1>2, <2>1, FailedFacts
  <1>5. CloseFd(u).status = 304
    <2> HIDE DEF h
    <2>1. u \in ResponseRecord /\ u.status = 304
      BY <1>2 DEF ResponseRecord
    <2> HIDE DEF u
    <2> QED BY <2>1, CloseFdFacts
  <1>6. Room(t) \in Int /\ c.ta.status = 206 /\ BadRequest # 206
    BY HeaderAssumption DEF Room, ResponseRecord, BadRequest
  <1> HIDE DEF h, u, ok, c
  <1>7. c = [rc |-> 0, ta |-> [h EXCEPT !.status = ok]]
    <2>1. CASE Room(t) < 3
      BY <1>3, <1>4, <1>6, <2>1
    <2>2. CASE ~ (Room(t) < 3) /\ in.since = "bad"
      BY <1>3, <1>4, <1>6, <2>2
    <2>3. CASE ~ (Room(t) < 3) /\ in.since = "current"
      <3>1. c = [rc |-> 0, ta |-> CloseFd(u)]
        BY <1>3, <1>6, <2>3
      <3> QED BY <1>5, <1>6, <3>1
    <2>4. CASE ~ (Room(t) < 3) /\ in.since \notin {"bad", "current"}
      BY <1>3, <1>6, <2>4
    <2> QED BY <2>1, <2>2, <2>3, <2>4
  <1>8. c.ta.fd = h.fd /\ c.ta.pos = h.pos /\ c.ta.end = h.end /\ c.ta.status = ok
    BY <1>2, <1>7 DEF ResponseRecord
  <1>9. in.range.kind = "bytes"
    BY <1>6, <1>8 DEF ok, OK
  <1> QED BY <1>2, <1>8, <1>9 DEF c

LEMMA TransferSpans ==
  ASSUME NEW in, StaticInput(in), NEW hdrs \in 0 .. MaxHeaders, NEW fd \in Int,
         Transfer(in, hdrs, fd).ta.status = 206
  PROVE  Spans(in, Transfer(in, hdrs, fd).ta, fd)
  <1> DEFINE t == Start0(in, hdrs, fd)
             w == WithRange(in, t)
             c == Conditional(in, w.ta)
             r == Transfer(in, hdrs, fd)
  <1>1. t \in ResponseRecord /\ t.fd = fd /\ t.status = UNSET
    BY StartFacts DEF StaticInput
  <1>2. r = IF w.rc # 0 THEN w ELSE c
    BY DEF Transfer
  <1> HIDE DEF t
  <1>3. /\ w.ta \in ResponseRecord
        /\ w.rc = 0 \/ w.ta.status \in {416, 500, Insufficient}
    BY <1>1, WithRangeFacts
  <1>4. in.range.kind = "bytes" /\ w.rc = 0 => Spans(in, w.ta, fd)
    BY <1>1, WithRangeSpans
  <1> HIDE DEF w
  <1>5. c.ta.status = 206 =>
          /\ in.range.kind = "bytes"
          /\ c.ta.fd = w.ta.fd /\ c.ta.pos = w.ta.pos /\ c.ta.end = w.ta.end
    BY <1>3, ConditionalSpans
  <1> HIDE DEF c, r
  <1>6. w.rc = 0 /\ r = c
    <2>1. r.ta.status = 206 /\ 206 \notin {416, 500, Insufficient}
      BY DEF r, Insufficient
    <2> QED BY <1>2, <1>3, <2>1
  <1>7. r.ta.status = 206
    BY DEF r
  <1>8. Spans(in, r.ta, fd)
    BY <1>4, <1>5, <1>6, <1>7 DEF Spans
  <1> QED BY <1>8 DEF r

(* Every 206 of kitserv_http_handle_static_path comes from a transfer.     *)
LEMMA HandleSpans ==
  ASSUME NEW in, StaticInput(in), NEW hdrs \in 0 .. MaxHeaders, NEW e \in Errnos,
         HandleStaticPath(in, hdrs, e).res.ta.status = 206
  PROVE  LET h == HandleStaticPath(in, hdrs, e)
         IN  Spans(in, h.res.ta, FdHead) \/ Spans(in, h.res.ta, Fd)
  <1> DEFINE h == HandleStaticPath(in, hdrs, e)
             s == Search(in, e)
  <1>1. Outcome(in, s)
    BY SearchFacts DEF StaticInput
  <1>2. h.res.ta.status = 206
    OBVIOUS
  <1>3. \A status \in {NotAllowed, 403, 404, 414, 500} : Refuse(hdrs, status).ta.status # 206
    <2>1. \A status \in {NotAllowed, 403, 404, 414, 500} : status \in Nat /\ status # 206
      BY DEF NotAllowed
    <2> QED BY <2>1, RefuseFacts
  <1>4. in.method \in {"GET", "HEAD"}
    <2>1. in.method \notin {"GET", "HEAD"} => h.res = Refuse(hdrs, NotAllowed)
      BY DEF HandleStaticPath
    <2> HIDE DEF h
    <2> QED BY <1>2, <1>3, <2>1
  <1>5. h = FindFile(in, hdrs, s)
    BY <1>4 DEF HandleStaticPath
  <1> HIDE DEF h, s
  <1>6. s.status = UNSET /\ s.name # "none"
    <2>1. CASE s.status # UNSET
      <3>1. h.res = Refuse(hdrs, s.status) /\ s.status \in {403, 414}
        BY <1>1, <1>5, <2>1 DEF FindFile, Outcome
      <3> QED BY <1>2, <1>3, <3>1
    <2>2. CASE s.status = UNSET /\ s.name = "none"
      <3>1. h.res = Refuse(hdrs, 404)
        BY <1>5, <2>2 DEF FindFile
      <3> QED BY <1>2, <1>3, <3>1
    <2> QED BY <2>1, <2>2
  <1> DEFINE Sending(fd) == [res |-> Transfer(in, hdrs, fd), errno |-> ErrnoAfter(in.range, s.errno)]
             kind == in.names[s.name]
  <1>7. h = CASE in.method = "HEAD" -> Sending(FdHead)
              [] in.method = "GET" /\ kind = "unreadable" ->
                   [res |-> Refuse(hdrs, 500), errno |-> "EACCES"]
              [] in.method = "GET" /\ kind = "file" -> Sending(Fd)
    BY <1>5, <1>6, Zenon DEF FindFile
  <1>8. kind \in {"file", "unreadable"}
    BY <1>1, <1>6 DEF Outcome, Found
  <1>9. FdHead \in Int /\ Fd \in Int
    BY StaticAssumption DEF FdHead
  <1> HIDE DEF kind
  <1>10. h.res = Transfer(in, hdrs, FdHead) \/ h.res = Transfer(in, hdrs, Fd)
    <2>1. CASE in.method = "HEAD"
      BY <1>7, <2>1
    <2>2. CASE in.method = "GET" /\ kind = "unreadable"
      <3>1. h.res = Refuse(hdrs, 500)
        BY <1>7, <2>2
      <3> QED BY <1>2, <1>3, <3>1
    <2>3. CASE in.method = "GET" /\ kind = "file"
      BY <1>7, <2>3
    <2> QED BY <1>4, <1>8, <2>1, <2>2, <2>3
  <1>11. Spans(in, h.res.ta, FdHead) \/ Spans(in, h.res.ta, Fd)
    BY <1>2, <1>9, <1>10, TransferSpans
  <1> QED BY <1>11 DEF h

-----------------------------------------------------------------------------
(* The response that is sent: it is laid out from the transaction or from  *)
(* the canned text that takes its place.                                   *)
LaidOut(t, verb, u) ==
  /\ u.fd = t.fd /\ u.pos = t.pos /\ u.end = t.end /\ u.body = t.body
  /\ u.hdrs = t.hdrs + 3 /\ u.length = ContentLength(t)
  /\ u.bufs[3] = IF t.fd = FdDisable /\ verb # "HEAD"
                   THEN [base |-> t.pos, len |-> t.body - t.pos] ELSE NoBuf

(* What LayOut makes of a transaction.                                     *)
LEMMA LayOutMore ==
  ASSUME NEW t \in ResponseRecord, NEW verb
  PROVE  LaidOut(t, verb, LayOut(t, verb))
  <1> DEFINE s == [t EXCEPT !.hdrs = @ + 3]
             full == [t EXCEPT !.hdrs = @ + 3, !.length = ContentLength(t)]
             third == IF t.fd = FdDisable /\ verb # "HEAD"
                        THEN [base |-> t.pos, len |-> t.body - t.pos] ELSE NoBuf
  <1>1. /\ s.fd = t.fd /\ s.pos = t.pos /\ s.end = t.end /\ s.body = t.body
        /\ s.hdrs = t.hdrs + 3 /\ "length" \in DOMAIN s /\ "bufs" \in DOMAIN s
    BY DEF ResponseRecord
  <1>2. full = [s EXCEPT !.length = ContentLength(t)]
    OBVIOUS
  <1> HIDE DEF s, full
  <1>3. /\ full.fd = t.fd /\ full.pos = t.pos /\ full.end = t.end /\ full.body = t.body
        /\ full.hdrs = t.hdrs + 3 /\ full.length = ContentLength(t) /\ "bufs" \in DOMAIN full
    BY <1>1, <1>2
  <1>4. LayOut(t, verb) = [full EXCEPT !.bufs = Buffers(full, verb)]
    BY DEF LayOut, full
  <1>5. Buffers(full, verb)[3] = third
    BY <1>3 DEF Buffers
  <1> HIDE DEF third
  <1> DEFINE u == LayOut(t, verb)
  <1>6. /\ u.fd = full.fd /\ u.pos = full.pos /\ u.end = full.end /\ u.body = full.body
        /\ u.hdrs = full.hdrs /\ u.length = full.length /\ u.bufs = Buffers(full, verb)
    BY <1>3, <1>4
  <1> HIDE DEF u
  <1>7. /\ u.fd = t.fd /\ u.pos = t.pos /\ u.end = t.end /\ u.body = t.body
        /\ u.hdrs = t.hdrs + 3 /\ u.length = ContentLength(t) /\ u.bufs[3] = third
    BY <1>3, <1>5, <1>6
  <1> QED BY <1>7, Zenon DEF u, third, LaidOut

(* The canned text is the body.                                            *)
LEMMA CannedMore ==
  ASSUME NEW t \in ResponseRecord, Room(Wiped(t)) > 0
  PROVE  Canned(t).body = CannedLen
  <1> DEFINE s == HeaderAdd(Wiped(t))
  <1>1. s \in ResponseRecord
    <2>1. Wiped(t) \in ResponseRecord
      BY WipedFacts
    <2> QED BY <2>1, HeaderAddFacts
  <1>2. Canned(t) = [s EXCEPT !.body = CannedLen]
    BY DEF Canned
  <1> HIDE DEF s
  <1> QED BY <1>1, <1>2 DEF ResponseRecord

(* Where the response comes from.                                          *)
Source(t, e) ==
  \/ /\ e = t /\ (StatusIsError(t.status) => t.keepBody)
  \/ /\ e = Canned(t) /\ Room(Wiped(t)) > 0 /\ ~ t.keepBody /\ StatusIsError(t.status)
  \/ /\ ~ StatusIsError(t.status) /\ ~ Fits(t)
     /\ e = Canned(Overflow(t)) /\ Room(Wiped(Overflow(t))) > 0

(* The error path of the preparation.                                      *)
LEMMA ErrorSource ==
  ASSUME NEW t \in ResponseRecord, NEW verb, PrepareError(t, verb).rc = 0
  PROVE  LET e == IF t.keepBody THEN t ELSE Canned(t)
         IN  /\ PrepareError(t, verb).ta = LayOut(e, verb) /\ Fits(e)
             /\ ~ t.keepBody => Room(Wiped(t)) > 0
  <1> DEFINE e == ErrorResponse(t)
             r == PrepareError(t, verb)
  <1>1. CASE ~ CanCan(t)
    <2>1. r = Dropped(HeaderAdd(Wiped(t)), Closes(t))
      BY <1>1 DEF PrepareError
    <2>2. r.rc = -1
      BY <2>1 DEF Dropped
    <2> QED BY <2>2
  <1>2. CASE CanCan(t) /\ Fits(e)
    <2>1. r = Prepared(e, Closes(t), verb)
      BY <1>2 DEF PrepareError
    <2>2. r.ta = LayOut(e, verb)
      BY <2>1 DEF Prepared
    <2> QED BY <1>2, <2>2 DEF ErrorResponse, CanCan
  <1>3. CASE CanCan(t) /\ ~ Fits(e)
    <2>1. r = Dropped(Overflow(e), Closes(t))
      BY <1>3 DEF PrepareError
    <2>2. r.rc = -1
      BY <2>1 DEF Dropped
    <2> QED BY <2>2
  <1> QED BY <1>1, <1>2, <1>3

(* Every response that is laid out has such a source.                      *)
LEMMA PreparedSource ==
  ASSUME NEW t \in ResponseRecord, NEW verb, PrepareResponse(t, verb).rc = 0
  PROVE  \E e : PrepareResponse(t, verb).ta = LayOut(e, verb) /\ Source(t, e)
  <1> DEFINE r == PrepareResponse(t, verb)
  <1>1. t.status \in Nat
    BY DEF ResponseRecord
  <1>2. CASE t.status = HANGUP
    <2>1. r = Dropped(t, {})
      <3>1. ~ StatusIsError(t.status)
        BY <1>2 DEF StatusIsError, HANGUP
      <3> QED BY <1>2, <3>1 DEF PrepareResponse
    <2>2. r.rc = -1
      BY <2>1 DEF Dropped
    <2> QED BY <2>2
  <1>3. CASE t.status # HANGUP /\ StatusIsError(t.status)
    <2>1. r = PrepareError(t, verb)
      BY <1>3 DEF PrepareResponse
    <2> QED BY <1>3, <2>1, ErrorSource DEF Source
  <1>4. CASE t.status # HANGUP /\ ~ StatusIsError(t.status) /\ Fits(t)
    <2>1. r = Prepared(t, {}, verb)
      BY <1>4 DEF PrepareResponse
    <2>2. r.ta = LayOut(t, verb)
      BY <2>1 DEF Prepared
    <2> QED BY <1>4, <2>2 DEF Source
  <1>5. CASE t.status # HANGUP /\ ~ StatusIsError(t.status) /\ ~ Fits(t)
    <2> DEFINE o == Overflow(t)
    <2>1. r = PrepareError(o, verb)
      BY <1>5 DEF PrepareResponse
    <2>2. o \in ResponseRecord /\ o.hdrs = MaxHeaders
      BY <1>5, OverflowFacts
    <2>3. ~ Fits(o)
      BY <2>2, HeaderAssumption DEF Fits, Room
    <2> HIDE DEF o
    <2>4. ~ o.keepBody /\ r.ta = LayOut(Canned(o), verb) /\ Room(Wiped(o)) > 0
      BY <2>1, <2>2, <2>3, ErrorSource
    <2> QED BY <1>5, <2>4 DEF Source, o
  <1> QED BY <1>2, <1>3, <1>4, <1>5

(* Its announced length is what follows, unless the descriptor stands for  *)
(* a body that only a HEAD does without.                                   *)
LEMMA LengthFacts ==
  ASSUME NEW t \in ResponseRecord, NEW verb, verb # "HEAD", t.fd < 0 => verb = "HEAD",
         PrepareResponse(t, verb).rc = 0
  PROVE  LET u == PrepareResponse(t, verb).ta
         IN  u.length = u.bufs[3].len + (IF u.fd > 0 THEN u.end - u.pos + 1 ELSE 0)
  <1> DEFINE u == PrepareResponse(t, verb).ta
  <1>1. PICK e : u = LayOut(e, verb) /\ Source(t, e)
    BY PreparedSource
  <1>2. t.fd \in Int /\ ~ (FdDisable > 0) /\ ~ (FdDisable < 0) /\ FdDisable = 0
    BY DEF ResponseRecord, FdDisable
  <1>3. e \in ResponseRecord /\ ~ (e.fd < 0)
    <2>1. CASE e = t
      BY <1>2, <2>1
    <2>2. CASE e = Canned(t) /\ Room(Wiped(t)) > 0
      BY <1>2, <2>2, CannedFacts
    <2>3. CASE ~ Fits(t) /\ e = Canned(Overflow(t)) /\ Room(Wiped(Overflow(t))) > 0
      <3> DEFINE o == Overflow(t)
      <3>1. o \in ResponseRecord /\ (o.fd = t.fd \/ o.fd = Insufficient)
        BY <2>3, OverflowFacts
      <3>2. ~ (o.fd < 0)
        BY <1>2, <3>1 DEF Insufficient
      <3> HIDE DEF o
      <3>3. e \in ResponseRecord /\ e.fd = IF o.fd > 0 THEN FdDisable ELSE o.fd
        BY <2>3, <3>1, CannedFacts DEF o
      <3> QED BY <1>2, <3>2, <3>3
    <2> QED BY <1>1, <2>1, <2>2, <2>3 DEF Source
  <1>4. /\ u.fd = e.fd /\ u.pos = e.pos /\ u.end = e.end /\ u.length = ContentLength(e)
        /\ u.bufs[3] = IF e.fd = FdDisable /\ verb # "HEAD"
                         THEN [base |-> e.pos, len |-> e.body - e.pos] ELSE NoBuf
    <2> HIDE DEF u
    <2>1. LaidOut(e, verb, u)
      BY <1>1, <1>3, LayOutMore
    <2> QED BY <2>1 DEF LaidOut
  <1>5. e.fd \in Int /\ e.pos \in Nat /\ e.end \in Int /\ e.body \in Nat
    BY <1>3 DEF ResponseRecord
  <1> HIDE DEF u
  <1>6. CASE e.fd = FdDisable
    <2>1. u.bufs[3].len = e.body - e.pos
      BY <1>4, <1>6
    <2>2. u.length = e.body - e.pos /\ u.fd = FdDisable
      BY <1>4, <1>6 DEF ContentLength
    <2> QED BY <1>2, <1>5, <2>1, <2>2 DEF u
  <1>7. CASE e.fd # FdDisable
    <2>1. u.bufs[3].len = 0
      BY <1>4, <1>7 DEF NoBuf
    <2>2. u.length = e.end - e.pos + 1 /\ u.fd > 0
      BY <1>2, <1>3, <1>4, <1>5, <1>7 DEF ContentLength
    <2> QED BY <1>4, <1>5, <2>1, <2>2 DEF u
  <1> QED BY <1>6, <1>7

(* An error keeps what it was asked to keep and nothing else.              *)
LEMMA ErrorFacts ==
  ASSUME NEW t \in ResponseRecord, NEW verb, StatusIsError(t.status),
         PrepareResponse(t, verb).rc = 0
  PROVE  LET u == PrepareResponse(t, verb).ta
             own == IF t.keepBody \/ t.keepHeaders THEN t.hdrs
                    ELSE IF t.status = NotAllowed THEN 1 ELSE 0
         IN  /\ u.hdrs = own + 3 + (IF t.keepBody THEN 0 ELSE 1)
             /\ t.keepBody => u.body = t.body /\ u.fd = t.fd
             /\ ~ t.keepBody => u.body = CannedLen /\ u.pos = 0 /\ u.fd <= 0
  <1> DEFINE u == PrepareResponse(t, verb).ta
             own == IF t.keepBody \/ t.keepHeaders THEN t.hdrs
                    ELSE IF t.status = NotAllowed THEN 1 ELSE 0
  <1>1. PICK e : u = LayOut(e, verb) /\ Source(t, e)
    BY PreparedSource
  <1>2. t.fd \in Int /\ t.hdrs \in Nat /\ t.keepBody \in BOOLEAN
    BY HeaderAssumption DEF ResponseRecord
  <1> HIDE DEF u
  <1>0. e \in ResponseRecord => LaidOut(e, verb, u)
    BY <1>1, LayOutMore
  <1>3. CASE e = t /\ t.keepBody
    <2>1. u.hdrs = t.hdrs + 3 /\ u.body = t.body /\ u.fd = t.fd
      BY <1>0, <1>3 DEF LaidOut
    <2>2. own = t.hdrs
      BY <1>3
    <2> HIDE DEF own
    <2>3. u.hdrs = own + 3 + 0
      BY <1>2, <2>1, <2>2
    <2> QED BY <1>3, <2>1, <2>3 DEF u, own
  <1>4. CASE e = Canned(t) /\ Room(Wiped(t)) > 0 /\ ~ t.keepBody
    <2>1. /\ e \in ResponseRecord /\ e.pos = 0 /\ e.hdrs = ErrorHeaders(t) + 1
          /\ e.fd = IF t.fd > 0 THEN FdDisable ELSE t.fd
      BY <1>4, CannedFacts
    <2>2. e.body = CannedLen
      BY <1>4, CannedMore
    <2>3. u.hdrs = e.hdrs + 3 /\ u.body = e.body /\ u.fd = e.fd /\ u.pos = e.pos
      BY <1>0, <2>1 DEF LaidOut
    <2>4. ErrorHeaders(t) = own /\ own \in Nat
      BY <1>2, <1>4 DEF ErrorHeaders
    <2> HIDE DEF own
    <2>5. u.hdrs = own + 3 + 1
      BY <2>1, <2>3, <2>4
    <2>6. u.body = CannedLen /\ u.pos = 0 /\ u.fd <= 0
      BY <1>2, <2>1, <2>2, <2>3 DEF FdDisable
    <2> QED BY <1>4, <2>5, <2>6 DEF u, own
  <1> QED BY <1>1, <1>3, <1>4 DEF Source

(* A file whose headers fit is sent alone.                                 *)
LEMMA FileSent ==
  ASSUME NEW t \in ResponseRecord, NEW verb, t.status \in {OK, 206}, t.fd > 0, Fits(t)
  PROVE  LET u == PrepareResponse(t, verb).ta
         IN  u.fd = t.fd /\ u.bufs[3] = NoBuf
  <1> DEFINE r == PrepareResponse(t, verb)
  <1>1. t.status # HANGUP /\ ~ StatusIsError(t.status) /\ t.fd # FdDisable
    BY DEF OK, HANGUP, StatusIsError, FdDisable, ResponseRecord
  <1>2. r = Prepared(t, {}, verb)
    BY <1>1 DEF PrepareResponse
  <1>3. r.ta = LayOut(t, verb)
    BY <1>2 DEF Prepared
  <1> HIDE DEF r
  <1>4. r.ta.fd = t.fd /\ r.ta.bufs[3] = NoBuf
    <2>1. LaidOut(t, verb, r.ta)
      BY <1>3, LayOutMore
    <2> QED BY <1>1, <2>1 DEF LaidOut
  <1> QED BY <1>4, Zenon DEF r

-----------------------------------------------------------------------------
(* What the actions have in common.                                        *)
LEMMA RequestFacts ==
  ASSUME NEW r \in Requests
  PROVE  /\ r \in Request /\ r.names \in FileNames /\ r.range \in Seq(STRING)
         /\ r.size \in Nat /\ r.since \in {"none", "bad", "current"}
         /\ r.reply.hdrs \in 0 .. MaxHeaders /\ r.reply.ta \in ResponseRecord
         /\ ~ r.reply.static =>
              /\ r.reply.ta.status # UNSET
              /\ r.reply.ta.fd \in {FdHead, FdDisable, Fd}
              /\ r.reply.ta.fd = FdHead => r.method = "HEAD"
  <1>1. r \in Request
    BY RequestAssumption
  <1>2. r.reply \in [static : BOOLEAN, ta : ResponseRecord, hdrs : 0 .. MaxHeaders]
    BY <1>1 DEF Request
  <1>3. r.names \in FileNames
    BY <1>1 DEF Request, FileNames
  <1>4. r.range \in Seq(STRING) /\ r.size \in Nat /\ r.since \in {"none", "bad", "current"}
    BY <1>1 DEF Request
  <1> QED BY <1>1, <1>2, <1>3, <1>4, RequestAssumption

(* What is found depends on the names, the method and the status alone.    *)
LEMMA SameFile ==
  ASSUME NEW q, NEW in, NEW status,
         in.names = q.names, in.isRoot = q.isRoot, in.method = q.method,
         FirstAnswers(in, status)
  PROVE  FirstAnswers(q, status)
  <1>1. FirstName(in) = FirstName(q) /\ Names(in) = Names(q)
    BY DEF FirstName, Names
  <1>2. \A x : Passed(in, x) <=> Passed(q, x)
    BY DEF Passed
  <1>3. \A x : NextInTurn(in, x) <=> NextInTurn(q, x)
    BY <1>1, <1>2, Zenon DEF NextInTurn
  <1>4. \A x : AnswerOf(in, x, status) <=> AnswerOf(q, x, status)
    BY DEF AnswerOf
  <1> QED BY <1>1, <1>2, <1>3, <1>4, ZenonT(60) DEF FirstAnswers

(* FirstFileServed in the words of the lemmas.                             *)
LEMMA FirstFileMeaning ==
  \/ FirstFileServed
  \/ /\ IsStatic /\ request.method \in {"GET", "HEAD"} /\ found # "EACCES"
     /\ ~ FirstAnswers(request, ta.status)
  <1> SUFFICES ASSUME FirstAnswers(request, ta.status),
                      ~ \A x \in Wanted : Skipped(x)
               PROVE  \E x \in Wanted :
                        Due(x) /\ AnswerOf(request, x, ta.status)
    <2>1. Wanted = Names(request) /\ \A x : Skipped(x) <=> Passed(request, x)
      BY DEF Wanted, Names, FirstName, Skipped, Passed
    <2> QED BY <2>1 DEF FirstFileServed, FirstAnswers, AnswerOf, Statuses
  <1>1. Wanted = Names(request) /\ \A x : Skipped(x) <=> Passed(request, x)
    BY DEF Wanted, Names, FirstName, Skipped, Passed
  <1>2. PICK x \in Names(request) :
          NextInTurn(request, x) /\ AnswerOf(request, x, ta.status)
    BY <1>1 DEF FirstAnswers
  <1>3. \A y \in Before(x) : Skipped(y)
    <2> DEFINE first == FirstName(request)
    <2>1. \A y \in Wanted : y = first \/ y = "html" \/ y = "fallback"
      BY <1>1 DEF Names
    <2>2. CASE x = "html"
      <3>1. Before(x) = Wanted \ {"html", "fallback"}
        BY <2>2 DEF Before
      <3>2. Passed(request, first)
        BY <1>2, <2>2 DEF NextInTurn
      <3> QED BY <1>1, <2>1, <3>1, <3>2
    <2>3. CASE x = "fallback"
      <3>1. Before(x) = Wanted \ {"fallback"}
        BY <2>3 DEF Before
      <3>2. \A y \in Wanted : y # "fallback" => Passed(request, y)
        BY <1>1, <1>2, <2>3 DEF NextInTurn
      <3> QED BY <1>1, <3>1, <3>2
    <2>4. CASE x # "html" /\ x # "fallback"
      <3>1. Before(x) = Wanted \ Wanted
        BY <2>4 DEF Before
      <3> QED BY <3>1
    <2> QED BY <2>2, <2>3, <2>4
  <1>4. Due(x)
    BY <1>1, <1>2, <1>3 DEF Due, NextInTurn
  <1> QED BY <1>1, <1>2, <1>4

(* The same of the next state.                                             *)
LEMMA FirstFileMeaningNext ==
  ( \/ FirstFileServed
    \/ /\ IsStatic /\ request.method \in {"GET", "HEAD"} /\ found # "EACCES"
       /\ ~ FirstAnswers(request, ta.status) )'
  BY FirstFileMeaning, PTL

(* Nothing has been answered yet.                                          *)
LEMMA NotServed ==
  ASSUME phase' \notin {"prepare", "send"}
  PROVE  (PreparedOK /\ StaticOK /\ FirstFileServed)'
  BY DEF PreparedOK, StaticOK, FirstFileServed, IsStatic, Served

FieldNames == {"fresh", "num", "range", "table"}

(* Asking for a cookie leaves the range alone.                             *)
LEMMA CookieFields ==
  ASSUME NEW f, DOMAIN f = FieldNames, NEW key
  PROVE  /\ GetCookie(f, key).fields.range = f.range
         /\ DOMAIN GetCookie(f, key).fields = FieldNames
  <1> DEFINE g == GetCookie(f, key).fields
             h == Refreshed(f)
  <1>1. h.range = f.range /\ DOMAIN h = FieldNames
    <2> DEFINE f1 == [f EXCEPT !.fresh = <<>>]
               parsed == ParseCookies(f.fresh)
               n == Len(parsed.list)
               f2 == [f1 EXCEPT !.num = IF parsed.ok THEN n ELSE @]
               f3 == [f2 EXCEPT !.table = parsed.list \o SubSeq(@, n + 1, MaxCookies)]
    <2>1. f1.range = f.range /\ DOMAIN f1 = FieldNames
      BY DEF FieldNames
    <2>2. h = f3
      BY DEF Refreshed
    <2> HIDE DEF f1, parsed, n, h
    <2>3. f2.range = f.range /\ DOMAIN f2 = FieldNames
      BY <2>1 DEF FieldNames
    <2> HIDE DEF f2
    <2>4. f3.range = f.range /\ DOMAIN f3 = FieldNames
      BY <2>3 DEF FieldNames
    <2> QED BY <2>2, <2>4
  <1>2. g = IF f.fresh = <<>> THEN f ELSE h
    BY DEF GetCookie
  <1> HIDE DEF g, h
  <1> QED BY <1>1, <1>2 DEF g

(* Asking for the range leaves the fields alone.                           *)
LEMMA RangeFields ==
  ASSUME NEW f, DOMAIN f = FieldNames, f.range \in Seq(STRING)
  PROVE  LET r == ParseRange(f.range)
             g == [f EXCEPT !.range = r.text]
         IN  r \in RangeRecord /\ g.range = f.range /\ DOMAIN g = FieldNames
  <1> DEFINE r == ParseRange(f.range)
             g == [f EXCEPT !.range = r.text]
  <1>1. r \in RangeRecord /\ r.text = f.range
    BY ParseRangeFacts
  <1> HIDE DEF r
  <1>2. g.range = f.range /\ DOMAIN g = FieldNames
    BY <1>1 DEF FieldNames
  <1> HIDE DEF g
  <1> QED BY <1>1, <1>2 DEF g, r

(* What kitserv_http_handle_static_path leaves behind.                     *)
Answered ==
  /\ rc \in {0, -1} /\ ta \in ResponseRecord /\ errno \in Errnos
  /\ ta.status # UNSET /\ ta.fd \in {FdHead, FdDisable, Fd}
  /\ ta.fd = FdHead => method = "HEAD"
  /\ rc # 0 => ta.fd <= 0
  /\ ta.fd > 0 => method = "GET" /\ ta.status \in {OK, 206}

(* What one call of it does to the variables.                              *)
LEMMA StaticStep ==
  ASSUME Base, phase \in {"parse", "serve"}, NEW hdrs \in 0 .. MaxHeaders,
         Static(hdrs), request' = request
  PROVE  /\ Answered'
         /\ found' = errno /\ fields'.range = fields.range /\ DOMAIN fields' = FieldNames
         /\ request.method \in {"GET", "HEAD"} /\ errno # "EACCES" =>
              FirstAnswers(request, ta'.status)
         /\ ta'.status = 206 => SpanAsked(ta')
  <1> DEFINE range == ParseRange(fields.range)
             in == [request EXCEPT !.range = range]
             h == HandleStaticPath(in, hdrs, errno)
  <1>1. request \in Requests /\ DOMAIN fields = FieldNames /\ fields.range = request.range
        /\ errno \in Errnos
    BY DEF Base, ControlOK, RangeKept, TypeOK, FieldNames, Errnos
  <1>2. request \in Request /\ request.names \in FileNames /\ request.range \in Seq(STRING)
        /\ request.size \in Nat /\ request.since \in {"none", "bad", "current"}
    BY <1>1, RequestFacts
  <1>3. range \in RangeRecord
    BY <1>1, <1>2, RangeFields
  <1>4. [fields EXCEPT !.range = range.text].range = fields.range
        /\ DOMAIN [fields EXCEPT !.range = range.text] = FieldNames
    BY <1>1, <1>2, RangeFields
  <1>5. /\ found' = errno /\ ta' = h.res.ta /\ rc' = h.res.rc /\ errno' = h.errno
        /\ method' = MethodAfter(request, h.res.ta)
        /\ fields' = [fields EXCEPT !.range = in.range.text]
    BY Zenon DEF Static
  <1> HIDE DEF range
  <1>6. /\ in.names = request.names /\ in.isRoot = request.isRoot /\ in.method = request.method
        /\ in.size = request.size /\ in.since = request.since /\ in.range = range
    BY <1>2 DEF Request
  <1> HIDE DEF in
  <1>7. StaticInput(in)
    BY <1>2, <1>3, <1>6 DEF StaticInput
  <1>8. /\ Closed(in, h)
        /\ in.method \in {"GET", "HEAD"} /\ errno # "EACCES" => FirstAnswers(in, h.res.ta.status)
    BY <1>1, <1>7, HandleFacts
  <1> HIDE DEF h
  <1>9. Answered'
    <2>1. 304 \notin {OK, 206}
      BY DEF OK
    <2>2. method' = IF ta'.status = 304 THEN "HEAD" ELSE request.method
      BY <1>5 DEF MethodAfter
    <2>3. /\ rc' \in {0, -1} /\ ta' \in ResponseRecord /\ errno' \in Errnos
          /\ ta'.status # UNSET /\ ta'.fd \in {FdHead, FdDisable, Fd}
          /\ ta'.fd = FdHead => request.method = "HEAD"
          /\ rc' # 0 => ta'.fd <= 0
          /\ ta'.fd > 0 => request.method = "GET" /\ ta'.status \in {OK, 206}
      BY <1>5, <1>6, <1>8 DEF Closed
    <2> QED BY <2>1, <2>2, <2>3 DEF Answered
  <1>10. request.method \in {"GET", "HEAD"} /\ errno # "EACCES" =>
              FirstAnswers(request, ta'.status)
    BY <1>5, <1>6, <1>8, SameFile
  <1>11. fields'.range = fields.range /\ DOMAIN fields' = FieldNames
    BY <1>4, <1>5, <1>6
  <1>12. ASSUME ta'.status = 206 PROVE SpanAsked(ta')
    <2>1. h.res.ta.status = 206
      BY <1>5, <1>12
    <2>2. Spans(in, ta', FdHead) \/ Spans(in, ta', Fd)
      BY <1>1, <1>5, <1>7, <2>1, HandleSpans DEF h
    <2>3. FdHead # FdDisable /\ Fd # FdDisable
      BY StaticAssumption DEF FdHead, FdDisable
    <2>4. in.range = ParseRange(request.range) /\ in.size = request.size
      BY <1>1, <1>6 DEF range
    <2> QED BY <2>2, <2>3, <2>4 DEF Spans, SpanAsked
  <1> QED BY <1>5, <1>9, <1>10, <1>11, <1>12

-----------------------------------------------------------------------------
(* The inductive step, action by action.                                   *)
LEMMA TreeFacts ==
  /\ Root \in Nodes /\ Cardinality(Nodes) \in Nat /\ Cardinality(Nodes) >= 1
  /\ \A n \in Nodes : \A i \in 1 .. Len(Entries[n]) :
       Entries[n][i].handler \in Handlers /\ Entries[n][i].handler # None
  /\ \A depth \in Depths :
       /\ depth[Root] = 1
       /\ \A n \in Nodes : \A i \in 1 .. Len(Subtrees[n]) :
            /\ Subtrees[n][i] \in Nodes
            /\ depth[Subtrees[n][i]] = depth[n] + 1
            /\ depth[Subtrees[n][i]] \in 1 .. Cardinality(Nodes)
  /\ Depths # {}
  <1>1. Root \in Nodes /\ IsFiniteSet(Nodes) /\ Depths # {}
    BY TreeAssumption
  <1>2. Cardinality(Nodes) \in Nat
    BY <1>1, FS_CardinalityType
  <1>3. Cardinality(Nodes) >= 1
    <2>1. Cardinality(Nodes) # 0
      BY <1>1, FS_EmptySet
    <2> QED BY <1>2, <2>1
  <1>4. \A n \in Nodes : \A i \in 1 .. Len(Entries[n]) :
       Entries[n][i].handler \in Handlers /\ Entries[n][i].handler # None
    <2> SUFFICES ASSUME NEW n \in Nodes, NEW i \in 1 .. Len(Entries[n])
                 PROVE  Entries[n][i].handler \in Handlers
      BY TreeAssumption
    <2>1. Entries[n][i].handler \in { Entries[n][j].handler : j \in 1 .. Len(Entries[n]) }
      OBVIOUS
    <2> QED BY <2>1, SMTT(60) DEF Handlers
  <1>5. ASSUME NEW n \in Nodes, NEW i \in 1 .. Len(Subtrees[n])
        PROVE  Subtrees[n][i] \in Nodes
    <2>1. Subtrees[n] \in Seq(Nodes \ {Root})
      BY TreeAssumption
    <2> QED BY <2>1
  <1>6. ASSUME NEW depth \in Depths
        PROVE  /\ depth[Root] = 1
               /\ \A n \in Nodes : \A i \in 1 .. Len(Subtrees[n]) :
                    /\ Subtrees[n][i] \in Nodes
                    /\ depth[Subtrees[n][i]] = depth[n] + 1
                    /\ depth[Subtrees[n][i]] \in 1 .. Cardinality(Nodes)
    <2>1. /\ depth \in [Nodes -> 1 .. Cardinality(Nodes)] /\ depth[Root] = 1
          /\ \A n \in Nodes : \A i \in 1 .. Len(Subtrees[n]) :
               depth[Subtrees[n][i]] = depth[n] + 1
      BY DEF Depths
    <2> QED BY <1>5, <2>1
  <1> QED BY <1>1, <1>2, <1>3, <1>4, <1>6, Zenon

(* A transaction that was zeroed.                                          *)
LEMMA ZeroFacts ==
  /\ ZeroResponse \in ResponseRecord /\ ZeroResponse.status = UNSET
  /\ ZeroResponse.fd = FdDisable /\ ZeroResponse.hdrs \in 0 .. MaxHeaders
  /\ FdDisable # FdHead /\ ~ (FdDisable > 0)
  <1>1. NoBufs \in [1 .. 3 -> [base : Nat, len : Nat]]
    BY DEF NoBufs, NoBuf
  <1> QED BY <1>1, HeaderAssumption DEF ZeroResponse, ResponseRecord, UNSET, FdDisable, FdHead

(* The invariant holds at the beginning.                                   *)
LEMMA InitInv == Init => Base
  <1> SUFFICES ASSUME Init PROVE Base
    OBVIOUS
  <1> USE DEF Init, TreeInit
  <1>1. TypeOK
    BY TreeFacts, ZeroFacts DEF TypeOK, Served, UNSET
  <1>2. OwnState
    BY DEF OwnState
  <1>3. ControlOK
    <2>1. DOMAIN fields = {"fresh", "num", "range", "table"}
      BY DEF NoFields
    <2>2. \A depth \in Depths : at = depth[node]
      BY TreeFacts
    <2> QED BY <2>1, <2>2 DEF ControlOK, Served
  <1>4. PreparedOK /\ StaticOK /\ FirstFileServed
    BY DEF PreparedOK, StaticOK, FirstFileServed, IsStatic, Served
  <1>5. RangeKept
    BY DEF RangeKept
  <1> QED BY <1>1, <1>2, <1>3, <1>4, <1>5 DEF Base

LEMMA ReceiveStep == Base /\ ReceiveRequest => Base'
  <1> SUFFICES ASSUME Base, ReceiveRequest PROVE Base'
    OBVIOUS
  <1>1. PICK r \in Requests :
          Receive(r) /\ method' = r.method /\ fields' = Noted(fields, r.cookies, r.range)
    BY DEF ReceiveRequest
  <1>2. /\ phase = "recv" /\ hit = None /\ allow = {} /\ data = None
        /\ UNCHANGED <<answer, found, ta, rc, sent>> /\ errno' \in {errno, "other"}
    BY DEF ReceiveRequest, Base, ControlOK
  <1>3. /\ phase' = "parse" /\ request' = r /\ node' = Root /\ at' = 1
        /\ UNCHANGED <<allow, hit, data, turn>>
    BY <1>1, <1>2 DEF Receive
  <1>4. TypeOK'
    BY <1>2, <1>3, TreeFacts DEF Base, TypeOK, Served
  <1>5. OwnState'
    BY <1>2, <1>3 DEF OwnState
  <1>6. fields'.range = r.range /\ DOMAIN fields' = FieldNames
    <2> DEFINE f == [fields EXCEPT !.fresh = r.cookies]
    <2>1. DOMAIN f = FieldNames
      BY DEF Base, ControlOK, FieldNames
    <2>2. fields' = [f EXCEPT !.range = r.range]
      BY <1>1 DEF Noted
    <2> HIDE DEF f
    <2> QED BY <2>1, <2>2 DEF FieldNames
  <1>7. ControlOK'
    BY <1>1, <1>2, <1>3, <1>6, TreeFacts DEF Base, ControlOK, Served, FieldNames
  <1>8. RangeKept'
    BY <1>3, <1>6 DEF RangeKept
  <1> QED BY <1>3, <1>4, <1>5, <1>7, <1>8, NotServed DEF Base

LEMMA WalkStep == Base /\ Walk => Base'
  <1> SUFFICES ASSUME Base, Walk PROVE Base'
    OBVIOUS
  <1>1. UNCHANGED <<fields, answer, errno, found, method, ta, rc, sent>>
    BY DEF Walk, fieldVars
  <1>2. CASE Hit
    <2> DEFINE first == Min(Taken(node, at))
    <2>1. /\ phase = "parse" /\ phase' = "serve" /\ hit' = Entries[node][first].handler
          /\ UNCHANGED <<request, node, at, data, turn>> /\ Taken(node, at) # {}
      BY <1>2 DEF Hit
    <2>2. first \in 1 .. Len(Entries[node])
      <3>1. Taken(node, at) \subseteq 1 .. Len(Entries[node])
        BY DEF Taken, Hits
      <3>2. 1 .. Len(Entries[node]) \subseteq Nat
        OBVIOUS
      <3> HIDE DEF first
      <3> QED BY <2>1, <3>1, <3>2, MinFacts DEF first
    <2>3. node \in Nodes
      BY DEF Base, TypeOK
    <2> HIDE DEF first
    <2>4. hit' \in Handlers /\ hit' # None
      BY <2>1, <2>2, <2>3, TreeFacts
    <2>5. TypeOK'
      BY <1>1, <2>1, <2>4 DEF Base, TypeOK, Served
    <2>6. OwnState'
      BY <2>1 DEF Base, OwnState
    <2>7. ControlOK'
      BY <1>1, <2>1, <2>4 DEF Base, ControlOK, Served
    <2>8. RangeKept'
      BY <1>1, <2>1 DEF Base, RangeKept
    <2> QED BY <2>1, <2>5, <2>6, <2>7, <2>8, NotServed DEF Base
  <1>3. CASE Descend
    <2>1. /\ phase = "parse" /\ at' = at + 1
          /\ UNCHANGED <<phase, request, allow, hit, data, turn>>
      BY <1>3 DEF Descend
    <2>2. PICK j \in 1 .. Len(Subtrees[node]) : node' = Subtrees[node][j]
      BY <1>3 DEF Descend, Entered
    <2>3. node \in Nodes
      BY DEF Base, TypeOK
    <2>4. \A depth \in Depths : at' = depth[node'] /\ depth[node'] \in 1 .. Cardinality(Nodes)
      BY <2>1, <2>2, <2>3, TreeFacts, SMTT(60) DEF Base, ControlOK
    <2>5. node' \in Nodes /\ at' \in 1 .. Cardinality(Nodes)
      BY <2>2, <2>3, <2>4, TreeFacts
    <2>6. TypeOK'
      BY <1>1, <2>1, <2>5 DEF Base, TypeOK, Served
    <2>7. OwnState'
      BY <2>1 DEF Base, OwnState
    <2>8. ControlOK'
      BY <1>1, <2>1, <2>4 DEF Base, ControlOK, Served
    <2>9. RangeKept'
      BY <1>1, <2>1 DEF Base, RangeKept
    <2> QED BY <2>1, <2>6, <2>7, <2>8, <2>9, NotServed DEF Base
  <1> QED BY <1>2, <1>3 DEF Walk

LEMMA RefuseStep == Base /\ RefuseMethod => Base'
  <1> SUFFICES ASSUME Base, RefuseMethod PROVE Base'
    OBVIOUS
  <1>1. /\ UNCHANGED <<fields, answer, errno, found, method, rc, sent>>
        /\ ta' = [ta EXCEPT !.status = NotAllowed]
        /\ phase = "parse" /\ Hits(node, at) # {}
        /\ allow' = allow \union Allow(node, at) /\ phase' = "prepare"
        /\ UNCHANGED <<request, node, at, hit, data, turn>>
    BY DEF RefuseMethod, MethodRefused, fieldVars
  <1>2. ta = ZeroResponse /\ hit = None /\ rc = 0
    BY <1>1 DEF Base, ControlOK, Served, OwnState
  <1>3. /\ ta' \in ResponseRecord /\ ta'.status = NotAllowed /\ ta'.fd = FdDisable
        /\ ta'.hdrs \in 0 .. MaxHeaders
    BY <1>1, <1>2, ZeroFacts DEF ResponseRecord, NotAllowed
  <1>4. allow' # {}
    BY <1>1 DEF Allow, Methods
  <1>5. TypeOK'
    BY <1>1, <1>3 DEF Base, TypeOK, Served, NotAllowed, UNSET
  <1>6. OwnState'
    BY <1>1 DEF OwnState
  <1>7. ControlOK'
    BY <1>1 DEF Base, ControlOK, Served
  <1>8. PreparedOK'
    BY <1>1, <1>3, ZeroFacts DEF PreparedOK
  <1>9. ~ IsStatic'
    BY <1>1, <1>2, <1>4 DEF IsStatic
  <1>10. RangeKept'
    BY <1>1 DEF Base, RangeKept
  <1> QED BY <1>5, <1>6, <1>7, <1>8, <1>9, <1>10 DEF Base, StaticOK, FirstFileServed

(* A static path was handled.                                              *)
LEMMA AnsweredStep ==
  ASSUME Base, phase \in {"parse", "serve"}, NEW hdrs \in 0 .. MaxHeaders, Static(hdrs),
         phase' = "prepare", data' \in {data, turn},
         UNCHANGED <<request, node, at, hit, turn>>
  PROVE  Base'
  <1>1. /\ Answered' /\ found' = errno /\ fields'.range = fields.range /\ DOMAIN fields' = FieldNames
        /\ request.method \in {"GET", "HEAD"} /\ errno # "EACCES" =>
             FirstAnswers(request, ta'.status)
    BY StaticStep
  <1>2. ta'.hdrs \in 0 .. MaxHeaders
    BY <1>1 DEF Answered, ResponseRecord
  <1>3. data \in {None, turn} /\ turn \in {0, 1}
    BY DEF Base, OwnState, TypeOK
  <1>4. TypeOK'
    BY <1>1, <1>2, <1>3 DEF Base, TypeOK, Served, Answered, Errnos
  <1>5. OwnState'
    BY DEF OwnState
  <1>6. ControlOK'
    BY <1>1 DEF Base, ControlOK, Served, FieldNames
  <1>7. PreparedOK' /\ StaticOK'
    BY <1>1 DEF PreparedOK, StaticOK, Answered
  <1>8. RangeKept'
    BY <1>1 DEF Base, RangeKept
  <1>9. FirstFileServed'
    BY <1>1, FirstFileMeaningNext
  <1> QED BY <1>4, <1>5, <1>6, <1>7, <1>8, <1>9 DEF Base

LEMMA ServeStaticStep == Base /\ ServeStatic => Base'
  <1> SUFFICES ASSUME Base, ServeStatic PROVE Base'
    OBVIOUS
  <1>1. 0 \in 0 .. MaxHeaders
    BY HeaderAssumption
  <1>2. /\ Static(0) /\ phase = "parse" /\ phase' = "prepare"
        /\ UNCHANGED <<request, node, at, hit, data, turn>>
    BY Zenon DEF ServeStatic, NoMatch
  <1> QED BY <1>1, <1>2, AnsweredStep

LEMMA EndpointServesFileStep == Base /\ EndpointServesFile => Base'
  <1> SUFFICES ASSUME Base, EndpointServesFile PROVE Base'
    OBVIOUS
  <1>1. /\ Static(request.reply.hdrs) /\ phase = "serve" /\ phase' = "prepare"
        /\ data' \in {data, turn} /\ UNCHANGED <<request, node, at, hit, turn>>
    BY Zenon DEF EndpointServesFile, Call
  <1>2. request.reply.hdrs \in 0 .. MaxHeaders
    BY <1>1, RequestFacts DEF Base, ControlOK
  <1> QED BY <1>1, <1>2, AnsweredStep

(* The endpoint asks, waits or answers.                                    *)
LEMMA StillServing ==
  ASSUME Base, phase = "serve", phase' = "serve", data' \in {data, turn},
         UNCHANGED <<request, node, at, allow, hit, turn, found, method, ta, rc, sent>>,
         errno' \in Errnos, fields'.range = fields.range, DOMAIN fields' = FieldNames
  PROVE  Base'
  <1>1. data \in {None, turn} /\ turn \in {0, 1}
    BY DEF Base, OwnState, TypeOK
  <1>2. TypeOK'
    BY <1>1 DEF Base, TypeOK, Served, Errnos
  <1>3. OwnState'
    BY <1>1 DEF OwnState
  <1>4. ControlOK'
    BY DEF Base, ControlOK, Served, FieldNames
  <1>5. RangeKept'
    BY DEF Base, RangeKept
  <1> QED BY <1>2, <1>3, <1>4, <1>5, NotServed DEF Base

LEMMA AsksCookieStep == Base /\ EndpointAsksCookie => Base'
  <1> SUFFICES ASSUME Base, EndpointAsksCookie PROVE Base'
    OBVIOUS
  <1>1. PICK key : fields' = GetCookie(fields, key).fields
    BY Zenon DEF EndpointAsksCookie
  <1>2. phase = "serve" /\ UNCHANGED <<treeVars, errno, found, method, ta, rc, sent>>
    BY DEF EndpointAsksCookie
  <1>3. DOMAIN fields = FieldNames /\ errno \in Errnos
    BY DEF Base, ControlOK, FieldNames, TypeOK, Errnos
  <1>4. fields'.range = fields.range /\ DOMAIN fields' = FieldNames
    BY <1>1, <1>3, CookieFields
  <1> QED BY <1>2, <1>3, <1>4, StillServing DEF treeVars

LEMMA AsksRangeStep == Base /\ EndpointAsksRange => Base'
  <1> SUFFICES ASSUME Base, EndpointAsksRange PROVE Base'
    OBVIOUS
  <1> DEFINE r == ParseRange(fields.range)
  <1>1. /\ phase = "serve" /\ UNCHANGED <<treeVars, found, method, ta, rc, sent>>
        /\ fields' = [fields EXCEPT !.range = r.text] /\ errno' = ErrnoAfter(r, errno)
    BY Zenon DEF EndpointAsksRange
  <1>2. DOMAIN fields = FieldNames /\ errno \in Errnos
    BY DEF Base, ControlOK, FieldNames, TypeOK, Errnos
  <1>3. fields.range \in Seq(STRING)
    BY <1>1, RequestFacts DEF Base, ControlOK, RangeKept
  <1>4. fields'.range = fields.range /\ DOMAIN fields' = FieldNames
    BY <1>1, <1>2, <1>3, RangeFields
  <1> HIDE DEF r
  <1>5. errno' \in Errnos
    BY <1>1, <1>2 DEF ErrnoAfter, Errnos
  <1> QED BY <1>1, <1>4, <1>5, StillServing DEF treeVars

LEMMA WaitsStep == Base /\ EndpointWaits => Base'
  <1> SUFFICES ASSUME Base, EndpointWaits PROVE Base'
    OBVIOUS
  <1>1. /\ phase = "serve" /\ phase' = "serve" /\ data' \in {data, turn}
        /\ UNCHANGED <<request, node, at, allow, hit, turn, fields, found, method, ta, rc, sent>>
        /\ errno' \in Errnos
    BY DEF EndpointWaits, Call, fieldVars, Errnos
  <1>2. DOMAIN fields = FieldNames
    BY DEF Base, ControlOK, FieldNames
  <1> QED BY <1>1, <1>2, StillServing

LEMMA AnswersStep == Base /\ EndpointAnswers => Base'
  <1> SUFFICES ASSUME Base, EndpointAnswers PROVE Base'
    OBVIOUS
  <1>1. /\ phase = "serve" /\ phase' = "prepare" /\ data' \in {data, turn}
        /\ UNCHANGED <<request, node, at, allow, hit, turn, fields, errno, found, method, rc, sent>>
        /\ ~ request.reply.static /\ ta' = request.reply.ta
    BY DEF EndpointAnswers, Call, fieldVars
  <1>2. request \in Requests /\ hit # None /\ method = request.method /\ rc = 0
    BY <1>1 DEF Base, ControlOK, Served
  <1>3. /\ ta' \in ResponseRecord /\ ta'.status # UNSET /\ ta'.fd \in {FdHead, FdDisable, Fd}
        /\ ta'.fd = FdHead => request.method = "HEAD"
    BY <1>1, <1>2, RequestFacts
  <1>4. ta'.hdrs \in 0 .. MaxHeaders
    BY <1>3 DEF ResponseRecord
  <1>5. data \in {None, turn} /\ turn \in {0, 1}
    BY <1>1 DEF Base, OwnState, TypeOK
  <1>6. TypeOK'
    BY <1>1, <1>3, <1>4, <1>5 DEF Base, TypeOK, Served
  <1>7. OwnState'
    BY <1>1 DEF OwnState
  <1>8. ControlOK'
    BY <1>1 DEF Base, ControlOK, Served
  <1>9. PreparedOK'
    BY <1>1, <1>2, <1>3 DEF PreparedOK
  <1>10. ~ IsStatic'
    BY <1>1, <1>2 DEF IsStatic
  <1>11. RangeKept'
    BY <1>1 DEF Base, RangeKept
  <1> QED BY <1>6, <1>7, <1>8, <1>9, <1>10, <1>11 DEF Base, StaticOK, FirstFileServed

LEMMA PrepareStep == Base /\ Prepare => Base'
  <1> SUFFICES ASSUME Base, Prepare PROVE Base'
    OBVIOUS
  <1>1. /\ phase = "prepare" /\ phase' = "send" /\ sent' = PrepareResponse(ta, method)
        /\ UNCHANGED <<request, node, at, allow, hit, data, turn, fields, answer,
                       errno, found, method, ta, rc>>
    BY DEF Prepare, fieldVars
  <1>2. Served /\ Served'
    BY <1>1 DEF Served
  <1>3. TypeOK'
    BY <1>1, <1>2 DEF Base, TypeOK
  <1>4. OwnState'
    BY <1>1 DEF OwnState
  <1>5. ControlOK'
    BY <1>1, <1>2 DEF Base, ControlOK
  <1>6. PreparedOK'
    BY <1>1, <1>2 DEF Base, PreparedOK
  <1>7. IsStatic' <=> IsStatic
    BY <1>1, <1>2 DEF IsStatic
  <1>8. StaticOK'
    BY <1>1, <1>7 DEF Base, StaticOK
  <1>9. RangeKept'
    BY <1>1 DEF Base, RangeKept
  <1>10. FirstFileServed'
    <2>1. /\ Wanted' = Wanted /\ \A x : Skipped(x)' <=> Skipped(x)
      BY <1>1 DEF Wanted, Skipped
    <2>2. \A x : Due(x)' <=> Due(x)
      BY <1>1, <2>1 DEF Due, Before, Wanted, Skipped
    <2> QED BY <1>1, <1>7, <2>1, <2>2 DEF Base, FirstFileServed
  <1> QED BY <1>3, <1>4, <1>5, <1>6, <1>8, <1>9, <1>10 DEF Base

LEMMA DoneStep == Base /\ Done => Base'
  <1> SUFFICES ASSUME Base, Done PROVE Base'
    OBVIOUS
  <1>1. /\ phase' = "recv" /\ turn' = 1 - turn /\ allow' = {} /\ hit' = None /\ data' = None
        /\ request' = None /\ node' = Root /\ at' = 1
        /\ ta' = ZeroResponse /\ rc' = 0 /\ found' = "other" /\ errno' = errno
        /\ fields' = NoFields
    BY DEF Done, NextTransaction, Cleanup, Forget
  <1>2. turn' \in {0, 1}
    BY <1>1 DEF Base, TypeOK
  <1>3. TypeOK'
    BY <1>1, <1>2, TreeFacts, ZeroFacts DEF Base, TypeOK, Served
  <1>4. OwnState'
    BY <1>1 DEF OwnState
  <1>5. DOMAIN fields' = {"fresh", "num", "range", "table"}
    BY <1>1 DEF NoFields
  <1>6. ControlOK'
    BY <1>1, <1>5, TreeFacts DEF ControlOK, Served
  <1>7. RangeKept'
    BY <1>1 DEF RangeKept
  <1> QED BY <1>1, <1>3, <1>4, <1>6, <1>7, NotServed DEF Base

LEMMA StutterStep == Base /\ UNCHANGED vars => Base'
  <1> SUFFICES ASSUME Base, UNCHANGED vars PROVE Base'
    OBVIOUS
  <1> USE DEF vars, treeVars, fieldVars
  <1>1. TypeOK' /\ OwnState' /\ ControlOK' /\ RangeKept'
    BY DEF Base, TypeOK, OwnState, ControlOK, RangeKept, Served
  <1>2. PreparedOK' /\ StaticOK'
    BY DEF Base, PreparedOK, StaticOK, IsStatic, Served
  <1>3. FirstFileServed'
    BY DEF Base, FirstFileServed, IsStatic, Served, Wanted, Skipped, Due, Before
  <1> QED BY <1>1, <1>2, <1>3 DEF Base

LEMMA BaseStep ==
  ASSUME Base, [Next]_vars
  PROVE  Base'
  <1>1. CASE ReceiveRequest
    BY <1>1, ReceiveStep
  <1>2. CASE Walk
    BY <1>2, WalkStep
  <1>3. CASE RefuseMethod
    BY <1>3, RefuseStep
  <1>4. CASE ServeStatic
    BY <1>4, ServeStaticStep
  <1>5. CASE EndpointAsksCookie
    BY <1>5, AsksCookieStep
  <1>6. CASE EndpointAsksRange
    BY <1>6, AsksRangeStep
  <1>7. CASE EndpointWaits
    BY <1>7, WaitsStep
  <1>8. CASE EndpointAnswers
    BY <1>8, AnswersStep
  <1>9. CASE EndpointServesFile
    BY <1>9, EndpointServesFileStep
  <1>10. CASE Prepare
    BY <1>10, PrepareStep
  <1>11. CASE Done
    BY <1>11, DoneStep
  <1>12. CASE UNCHANGED vars
    BY <1>12, StutterStep
  <1> QED BY <1>1, <1>2, <1>3, <1>4, <1>5, <1>6, <1>7, <1>8, <1>9, <1>10, <1>11, <1>12 DEF Next

-----------------------------------------------------------------------------
(* The range of the request, in what is sent and in what is told.          *)
LEMMA InitRange == Init => RangeOK /\ AnswerOK
  <1> SUFFICES ASSUME Init PROVE RangeOK /\ AnswerOK
    OBVIOUS
  <1>1. phase = "recv" /\ answer = NoAnswer
    BY DEF Init, TreeInit
  <1>2. RangeOK
    BY <1>1 DEF RangeOK, IsStatic, Served
  <1>3. AnswerOK
    BY <1>1 DEF AnswerOK, NoAnswer
  <1> QED BY <1>2, <1>3

(* A 206 is only ever left by a static path.                               *)
LEMMA RangeStep ==
  ASSUME Base, RangeOK, [Next]_vars
  PROVE  RangeOK'
  <1> SUFFICES ASSUME IsStatic', ta'.status = 206 PROVE SpanAsked(ta)'
    BY DEF RangeOK
  <1>0. phase' \in {"prepare", "send"}
    BY DEF IsStatic, Served
  <1>1. CASE ReceiveRequest
    <2>1. phase = "recv" /\ hit = None
      BY <1>1 DEF ReceiveRequest, Base, ControlOK
    <2>2. phase' = "parse"
      BY <1>1, <2>1 DEF ReceiveRequest, Receive
    <2> QED BY <1>0, <2>2
  <1>2. CASE Walk
    BY <1>0, <1>2, Zenon DEF Walk, Hit, Descend
  <1>3. CASE RefuseMethod
    <2>1. ta' = [ta EXCEPT !.status = NotAllowed] /\ phase = "parse"
      BY <1>3 DEF RefuseMethod, MethodRefused
    <2>2. ta = ZeroResponse
      BY <2>1 DEF Base, ControlOK, Served
    <2>3. ta'.status = NotAllowed
      BY <2>1, <2>2, ZeroFacts DEF ResponseRecord
    <2> QED BY <2>3 DEF NotAllowed
  <1>4. CASE ServeStatic
    <2>1. 0 \in 0 .. MaxHeaders
      BY HeaderAssumption
    <2>2. Static(0) /\ phase = "parse" /\ request' = request
      BY <1>4, Zenon DEF ServeStatic, NoMatch
    <2>3. SpanAsked(ta')
      BY <2>1, <2>2, StaticStep
    <2> QED BY <2>2, <2>3 DEF SpanAsked
  <1>5. CASE EndpointAsksCookie \/ EndpointAsksRange \/ EndpointWaits
    <2>1. phase = "serve" /\ phase' = phase
      BY <1>5, Zenon DEF EndpointAsksCookie, EndpointAsksRange, EndpointWaits, Call, treeVars
    <2> QED BY <1>0, <2>1
  <1>6. CASE EndpointAnswers
    <2>1. phase = "serve" /\ request' = request /\ hit' = hit /\ ~ request.reply.static
      BY <1>6 DEF EndpointAnswers, Call
    <2>2. hit # None
      BY <2>1 DEF Base, ControlOK
    <2> QED BY <2>1, <2>2 DEF IsStatic
  <1>7. CASE EndpointServesFile
    <2>1. Static(request.reply.hdrs) /\ phase = "serve" /\ request' = request
      BY <1>7, Zenon DEF EndpointServesFile, Call
    <2>2. request.reply.hdrs \in 0 .. MaxHeaders
      BY <2>1, RequestFacts DEF Base, ControlOK
    <2>3. SpanAsked(ta')
      BY <2>1, <2>2, StaticStep
    <2> QED BY <2>1, <2>3 DEF SpanAsked
  <1>8. CASE Prepare
    <2>1. phase = "prepare" /\ UNCHANGED <<request, hit, allow, ta>>
      BY <1>8 DEF Prepare
    <2>2. IsStatic /\ ta.status = 206
      BY <2>1 DEF IsStatic, Served
    <2> QED BY <2>1, <2>2 DEF RangeOK, SpanAsked
  <1>9. CASE Done
    BY <1>0, <1>9, Zenon DEF Done, NextTransaction
  <1>10. CASE UNCHANGED vars
    <2>1. UNCHANGED <<phase, request, hit, allow, ta>>
      BY <1>10 DEF vars, treeVars
    <2>2. IsStatic /\ ta.status = 206
      BY <2>1 DEF IsStatic, Served
    <2> QED BY <2>1, <2>2 DEF RangeOK, SpanAsked
  <1> QED BY <1>1, <1>2, <1>3, <1>4, <1>5, <1>6, <1>7, <1>8, <1>9, <1>10 DEF Next

(* What an endpoint is told of the range is forgotten with its request.    *)
LEMMA AnswerStep ==
  ASSUME Base, AnswerOK, [Next]_vars
  PROVE  AnswerOK'
  <1>1. ASSUME phase' # "recv", request' = request, answer' = answer PROVE AnswerOK'
    BY <1>1 DEF AnswerOK
  <1>2. ASSUME answer' = NoAnswer PROVE AnswerOK'
    BY <1>2 DEF AnswerOK, NoAnswer
  <1>3. CASE ReceiveRequest
    <2>1. phase = "recv" /\ answer' = answer
      BY <1>3 DEF ReceiveRequest
    <2> QED BY <1>2, <2>1 DEF AnswerOK
  <1>4. CASE Walk
    <2>1. phase' # "recv" /\ request' = request /\ answer' = answer
      BY <1>4 DEF Walk, Hit, Descend, fieldVars
    <2> QED BY <1>1, <2>1
  <1>5. CASE RefuseMethod
    <2>1. phase' # "recv" /\ request' = request /\ answer' = answer
      BY <1>5 DEF RefuseMethod, MethodRefused, fieldVars
    <2> QED BY <1>1, <2>1
  <1>6. CASE ServeStatic
    <2>1. phase' # "recv" /\ request' = request
      BY <1>6 DEF ServeStatic, NoMatch
    <2>2. answer' = answer
      BY <1>6, Zenon DEF ServeStatic, Static
    <2> QED BY <1>1, <2>1, <2>2
  <1>7. CASE EndpointAsksCookie
    <2>1. PICK key : answer' = [of |-> "cookie", key |-> key, found |-> GetCookie(fields, key).found,
                                value |-> GetCookie(fields, key).value]
      BY <1>7, Zenon DEF EndpointAsksCookie
    <2>2. answer'.of = "cookie"
      BY <2>1
    <2>3. phase' # "recv"
      BY <1>7 DEF EndpointAsksCookie, treeVars
    <2> QED BY <2>2, <2>3 DEF AnswerOK
  <1>8. CASE EndpointAsksRange
    <2> DEFINE r == ParseRange(fields.range)
    <2>1. /\ phase = "serve" /\ phase' = phase /\ request' = request
          /\ answer' = [of |-> "range", kind |-> r.kind, from |-> r.from, to |-> r.to]
      BY <1>8, Zenon DEF EndpointAsksRange, treeVars
    <2>2. fields.range = request.range
      BY <2>1 DEF Base, RangeKept
    <2> HIDE DEF r
    <2>3. answer'.kind = r.kind /\ answer'.from = r.from /\ answer'.to = r.to
      BY <2>1
    <2>4. r = ParseRange(request.range)
      BY <2>2 DEF r
    <2> QED BY <2>1, <2>3, <2>4 DEF AnswerOK
  <1>9. CASE EndpointWaits
    <2>1. phase' # "recv" /\ request' = request /\ answer' = answer
      BY <1>9 DEF EndpointWaits, Call, fieldVars
    <2> QED BY <1>1, <2>1
  <1>10. CASE EndpointAnswers
    <2>1. phase' # "recv" /\ request' = request /\ answer' = answer
      BY <1>10 DEF EndpointAnswers, Call, fieldVars
    <2> QED BY <1>1, <2>1
  <1>11. CASE EndpointServesFile
    <2>1. phase' # "recv" /\ request' = request
      BY <1>11 DEF EndpointServesFile, Call
    <2>2. answer' = answer
      BY <1>11, Zenon DEF EndpointServesFile, Static
    <2> QED BY <1>1, <2>1, <2>2
  <1>12. CASE Prepare
    <2>1. phase' # "recv" /\ request' = request /\ answer' = answer
      BY <1>12 DEF Prepare, fieldVars
    <2> QED BY <1>1, <2>1
  <1>13. CASE Done
    <2>1. answer' = NoAnswer
      BY <1>13 DEF Done
    <2> QED BY <1>2, <2>1
  <1>14. CASE UNCHANGED vars
    BY <1>14 DEF AnswerOK, vars, treeVars, fieldVars
  <1> QED BY <1>3, <1>4, <1>5, <1>6, <1>7, <1>8, <1>9, <1>10, <1>11, <1>12, <1>13, <1>14 DEF Next

-----------------------------------------------------------------------------
(* The invariant holds of every behaviour: nothing of a request is left    *)
(* for the next, in the tree's state, the fields or the response           *)
(* (kitserv_http_serve_client, kitserv_http_finalize_transaction).         *)
THEOREM Invariance == Spec => []IInv
  <1>1. Init => IInv
    BY InitInv, InitRange DEF IInv, Base
  <1>2. IInv /\ [Next]_vars => IInv'
    BY BaseStep, RangeStep, AnswerStep DEF IInv, Base
  <1> QED BY <1>1, <1>2, PTL DEF Spec

(* The worker has a response exactly when it has a status, and never more  *)
(* header lines than the buffer holds (kitserv_http_prepare_response).     *)
THEOREM TypeCorrect == Spec => []TypeOK
  <1>1. IInv => TypeOK
    BY DEF IInv, Base
  <1> QED BY <1>1, Invariance, PTL

(* An endpoint finds NULL or what it saved for this request, however often *)
(* it waited for others (kitserv_api_save_state, serve_request).           *)
THEOREM StateIsOwn == Spec => []OwnState
  <1>1. IInv => OwnState
    BY DEF IInv, Base
  <1> QED BY <1>1, Invariance, PTL

(* However often the range is asked for, the header is left as it came     *)
(* (kitserv_http_parse_range).                                             *)
THEOREM RangeIsKept == Spec => []RangeKept
  <1>1. IInv => RangeKept
    BY DEF IInv, Base
  <1> QED BY <1>1, Invariance, PTL

(* The first file that is there is served, or its error is the answer      *)
(* (kitserv_http_handle_static_path, verify_static_path).                  *)
THEOREM FirstFile == Spec => []FirstFileServed
  <1>1. IInv => FirstFileServed
    BY DEF IInv, Base
  <1> QED BY <1>1, Invariance, PTL

(* A static request keeps its descriptor only for a GET whose response     *)
(* sends the file and nothing else (err_closefd).                          *)
THEOREM DescriptorIsKept == Spec => []DescriptorKept
  <1>1. IInv => DescriptorKept
    <2> SUFFICES ASSUME IInv, IsStatic
                 PROVE  /\ rc # 0 => ta.fd <= 0
                        /\ ta.fd > 0 =>
                             /\ method = "GET" /\ ta.status \in {OK, 206}
                             /\ phase = "send" /\ Fits(ta) =>
                                  sent.ta.fd = ta.fd /\ sent.ta.bufs[3] = NoBuf
      BY DEF DescriptorKept
    <2>1. /\ rc # 0 => ta.fd <= 0
          /\ ta.fd > 0 => method = "GET" /\ ta.status \in {OK, 206}
      BY DEF IInv, Base, StaticOK
    <2>2. ASSUME ta.fd > 0, phase = "send", Fits(ta)
          PROVE  sent.ta.fd = ta.fd /\ sent.ta.bufs[3] = NoBuf
      <3>1. ta \in ResponseRecord /\ sent = PrepareResponse(ta, method)
        BY <2>2 DEF IInv, Base, PreparedOK, Served
      <3> QED BY <2>1, <2>2, <3>1, FileSent
    <2> QED BY <2>1, <2>2
  <1> QED BY <1>1, Invariance, PTL

(* What content-length announces follows, whichever of body, file and      *)
(* canned text it is (kitserv_http_prepare_response).                      *)
THEOREM LengthIsHonest == Spec => []LengthHonest
  <1>1. IInv => LengthHonest
    <2> SUFFICES ASSUME IInv, phase = "send", sent.rc = 0, method # "HEAD"
                 PROVE  sent.ta.length = sent.ta.bufs[3].len
                          + (IF sent.ta.fd > 0 THEN sent.ta.end - sent.ta.pos + 1 ELSE 0)
      BY DEF LengthHonest, IsPrepared
    <2>1. /\ ta \in ResponseRecord /\ sent = PrepareResponse(ta, method)
          /\ ta.fd = FdHead => method = "HEAD"
      BY DEF IInv, Base, PreparedOK, Served
    <2>2. ta.fd < 0 => method = "HEAD"
      BY <2>1, StaticAssumption DEF IInv, Base, TypeOK, FdDisable
    <2> QED BY <2>1, <2>2, LengthFacts
  <1> QED BY <1>1, Invariance, PTL

(* An error response keeps the endpoint's headers and body when it asked   *)
(* for that, and is the canned text otherwise                              *)
(* (kitserv_api_set_preserve_headers_on_error).                            *)
THEOREM ErrorIsAsAsked == Spec => []ErrorAsAsked
  <1>1. IInv => ErrorAsAsked
    <2> DEFINE own == IF ta.keepBody \/ ta.keepHeaders THEN ta.hdrs
                      ELSE IF ta.status = NotAllowed THEN 1 ELSE 0
    <2> SUFFICES ASSUME IInv, phase = "send", sent.rc = 0, StatusIsError(ta.status)
                 PROVE  /\ sent.ta.hdrs = own + 3 + (IF ta.keepBody THEN 0 ELSE 1)
                        /\ ta.keepBody => sent.ta.body = ta.body /\ sent.ta.fd = ta.fd
                        /\ ~ ta.keepBody =>
                             sent.ta.body = CannedLen /\ sent.ta.pos = 0 /\ sent.ta.fd <= 0
      BY Zenon DEF ErrorAsAsked, IsPrepared, IsCanned
    <2>1. ta \in ResponseRecord /\ sent = PrepareResponse(ta, method)
      BY DEF IInv, Base, PreparedOK, Served
    <2> QED BY <2>1, ErrorFacts
  <1> QED BY <1>1, Invariance, PTL
(* The span that is sent, in the terms of the header.                      *)
LEMMA SpanBytes ==
  ASSUME NEW range \in RangeRecord, NEW size \in Nat, Satisfied(range.from, range.to, size)
  PROVE  LET b == ByteRange(range, size)
         IN  /\ b.from = IF range.from >= 0 THEN range.from ELSE size - range.to
             /\ b.to = LastByte(range.from, range.to, size)
  <1>1. range.from \in Int /\ range.to \in Int
    BY FieldsAssumption DEF RangeRecord
  <1> DEFINE last == Clamp(range.to, size)
  <1>2. last = IF range.to \in 0 .. size - 1 THEN range.to ELSE size - 1
    BY <1>1 DEF Clamp
  <1> HIDE DEF last
  <1>3. CASE range.from >= 0
    <2>1. ByteRange(range, size) = [from |-> range.from, to |-> last]
      BY <1>1, <1>3 DEF ByteRange, last
    <2> QED BY <1>2, <1>3, <2>1 DEF LastByte
  <1>4. CASE ~ (range.from >= 0)
    <2>1. ByteRange(range, size) = [from |-> size - last, to |-> size - 1]
      BY <1>1, <1>4 DEF ByteRange, last
    <2>2. range.to \in 1 .. size - 1
      BY <1>4 DEF Satisfied
    <2>3. last = range.to
      BY <1>2, <2>2
    <2> QED BY <1>4, <2>1, <2>3 DEF LastByte
  <1> QED BY <1>3, <1>4

(* A descriptor whose headers fit announces its span.                      *)
LEMMA SpanLength ==
  ASSUME NEW t \in ResponseRecord, NEW verb, t.status = 206, t.fd # FdDisable, Fits(t)
  PROVE  PrepareResponse(t, verb).ta.length = t.end - t.pos + 1
  <1> DEFINE r == PrepareResponse(t, verb)
  <1>1. t.status # HANGUP /\ ~ StatusIsError(t.status)
    BY DEF HANGUP, StatusIsError
  <1>2. r = Prepared(t, {}, verb)
    BY <1>1 DEF PrepareResponse
  <1>3. r.ta = LayOut(t, verb)
    BY <1>2 DEF Prepared
  <1> HIDE DEF r
  <1>4. r.ta.length = ContentLength(t)
    <2>1. LaidOut(t, verb, r.ta)
      BY <1>3, LayOutMore
    <2> QED BY <2>1 DEF LaidOut
  <1>5. r.ta.length = t.end - t.pos + 1
    BY <1>4 DEF ContentLength
  <1> QED BY <1>5 DEF r

(* The header that a request was received with.                            *)
LEMMA RangeOfRequest ==
  ASSUME IInv, phase # "recv"
  PROVE  /\ request.range \in Seq(STRING) /\ "NUL" \notin Range(request.range)
         /\ request.size \in Nat
  <1>1. request \in Requests
    BY DEF IInv, Base, ControlOK
  <1> QED BY <1>1, RequestFacts, RequestAssumption

(* A 206 sends exactly the bytes that its header selects of the file, and  *)
(* announces their number (parse_range_request,                            *)
(* kitserv_http_prepare_response).                                         *)
THEOREM RangeIsExact == Spec => []RangeExact
  <1>1. IInv => RangeExact
    <2> SUFFICES ASSUME IInv, IsStatic, ta.status = 206
                 PROVE  \E from, to \in -1 .. MaxOff :
                          /\ Selects(request.range, from, to)
                          /\ Satisfied(from, to, request.size) =>
                               LET first == IF from >= 0 THEN from ELSE request.size - to
                                   last == LastByte(from, to, request.size)
                               IN  /\ ta.pos = first /\ ta.end = last
                                   /\ phase = "send" /\ Fits(ta) =>
                                        sent.ta.length = last - first + 1
      BY Zenon DEF RangeExact
    <2> DEFINE range == ParseRange(request.range)
               size  == request.size
               first == IF range.from >= 0 THEN range.from ELSE size - range.to
               last  == LastByte(range.from, range.to, size)
    <2>1. /\ request.range \in Seq(STRING) /\ "NUL" \notin Range(request.range)
          /\ size \in Nat
      BY RangeOfRequest DEF IsStatic, Served
    <2>2. range \in RangeRecord
      BY <2>1, ParseRangeFacts
    <2>3. /\ range.kind = "bytes" /\ ta.fd # FdDisable
          /\ [from |-> ta.pos, to |-> ta.end] = ByteRange(range, size)
      BY DEF IInv, RangeOK, SpanAsked
    <2>4. Selects(request.range, range.from, range.to)
      BY <2>1, <2>3, RangeSelects
    <2>5. ta \in ResponseRecord /\ (phase = "send" => sent = PrepareResponse(ta, method))
      BY DEF IInv, Base, PreparedOK, IsStatic
    <2> HIDE DEF range, size
    <2>6. ASSUME Satisfied(range.from, range.to, size)
          PROVE  /\ ta.pos = first /\ ta.end = last
                 /\ phase = "send" /\ Fits(ta) => sent.ta.length = last - first + 1
      <3>1. ByteRange(range, size).from = first /\ ByteRange(range, size).to = last
        BY <2>1, <2>2, <2>6, SpanBytes DEF size
      <3> HIDE DEF first, last
      <3>2. ta.pos = first /\ ta.end = last
        BY <2>3, <3>1
      <3>3. ASSUME phase = "send", Fits(ta) PROVE sent.ta.length = last - first + 1
        <4>1. sent.ta.length = ta.end - ta.pos + 1
          BY <2>3, <2>5, <3>3, SpanLength
        <4> QED BY <3>2, <4>1
      <3> QED BY <3>2, <3>3
    <2>7. range.from \in -1 .. MaxOff /\ range.to \in -1 .. MaxOff
      BY <2>2 DEF RangeRecord
    <2> QED BY <2>4, <2>6, <2>7, ZenonT(60) DEF size
  <1> QED BY <1>1, Invariance, PTL

(* An endpoint is told of the range that the header of its request         *)
(* selects, as often as it asks, and of none when it selects none          *)
(* (kitserv_http_parse_range, kitserv_api_get_request_range).              *)
THEOREM RangeIsRead == Spec => []RangeRead
  <1>1. IInv => RangeRead
    <2> SUFFICES ASSUME IInv, answer.of = "range"
                 PROVE  IF answer.kind = "bytes"
                          THEN Selects(request.range, answer.from, answer.to)
                          ELSE ~ \E from, to \in -1 .. MaxOff : Selects(request.range, from, to)
      BY DEF RangeRead, IInv, Base
    <2> DEFINE r == ParseRange(request.range)
    <2>1. answer.kind = r.kind /\ answer.from = r.from /\ answer.to = r.to
      BY DEF IInv, AnswerOK
    <2>2. phase # "recv"
      BY DEF IInv, AnswerOK, NoAnswer
    <2>3. request.range \in Seq(STRING) /\ "NUL" \notin Range(request.range)
      BY <2>2, RangeOfRequest
    <2>4. IF r.kind = "bytes" THEN Selects(request.range, r.from, r.to)
          ELSE \A from, to \in -1 .. MaxOff : ~ Selects(request.range, from, to)
      BY <2>3, RangeSelects
    <2> HIDE DEF r
    <2> QED BY <2>1, <2>4
  <1> QED BY <1>1, Invariance, PTL

-----------------------------------------------------------------------------
(* The walk of the tree.  What the segments of a path lead to.             *)
LEMMA ReachFacts ==
  ASSUME NEW p, Len(p) \in Nat
  PROVE  LET to == ReachBy(p)
         IN  /\ to[0] = {Root} /\ \A d \in 0 .. Len(p) : to[d] \subseteq Nodes
             /\ \A d \in 1 .. Len(p) :
                  to[d] = { m \in Nodes \ {Root} :
                              Prefix[m] = p[d] /\ \E n \in to[d - 1] : m \in Range(Subtrees[n]) }
  <1> DEFINE L == Len(p)
             Below(g, d) == { m \in Nodes \ {Root} :
                                Prefix[m] = p[d] /\ \E n \in g[d - 1] : m \in Range(Subtrees[n]) }
             Body(g) == [d \in 0 .. L |-> IF d = 0 THEN {Root} ELSE Below(g, d)]
             v == CHOOSE g : g = Body(g)
             Upto(l) == {g \in [0 .. l -> SUBSET Nodes] :
                           /\ g[0] = {Root}
                           /\ \A d \in 1 .. l : g[d] = Below(g, d)}
             P == {l \in Nat : Upto(l) # {}}
  <1>0. Root \in Nodes
    BY TreeAssumption
  <1>1. 0 \in P
    <2> DEFINE g == [d \in 0 .. 0 |-> {Root}]
    <2>1. g \in [0 .. 0 -> SUBSET Nodes] /\ g[0] = {Root} /\ \A d \in 1 .. 0 : FALSE
      BY <1>0
    <2> HIDE DEF g, Below
    <2>2. g \in Upto(0)
      BY <2>1, Zenon
    <2> QED BY <2>2
  <1>2. ASSUME NEW l \in Nat, l \in P PROVE l + 1 \in P
    <2>1. PICK g \in Upto(l) : TRUE
      BY <1>2
    <2> DEFINE h == [d \in 0 .. l + 1 |-> IF d = l + 1 THEN Below(g, l + 1) ELSE g[d]]
    <2>2. Below(g, l + 1) \subseteq Nodes
      OBVIOUS
    <2>3. g \in [0 .. l -> SUBSET Nodes] /\ g[0] = {Root} /\ \A d \in 1 .. l : g[d] = Below(g, d)
      BY <2>1
    <2>4. h \in [0 .. l + 1 -> SUBSET Nodes]
      <3> HIDE DEF Below
      <3> QED BY <2>2, <2>3, SMTT(60)
    <2>5. ASSUME NEW d \in 1 .. l + 1 PROVE Below(h, d) = Below(g, d)
      <3>1. h[d - 1] = g[d - 1]
        <4> HIDE DEF Below
        <4> QED BY SMTT(60)
      <3> HIDE DEF h
      <3> QED BY <3>1
    <2>6. h[0] = {Root} /\ \A d \in 1 .. l + 1 : h[d] = Below(h, d)
      <3> HIDE DEF Below
      <3> QED BY <2>3, <2>5, SMTT(60)
    <2>7. h \in Upto(l + 1)
      <3> HIDE DEF h, Below
      <3> QED BY <2>4, <2>6
    <2> HIDE DEF Upto
    <2> QED BY <2>7
  <1>3. L \in P
    <2> HIDE DEF P
    <2> QED BY <1>1, <1>2, Induction
  <1>4. PICK g \in Upto(L) : TRUE
    BY <1>3
  <1>5. g = Body(g)
    <2> HIDE DEF Below
    <2>1. \A d \in 0 .. L : g[d] = Body(g)[d]
      BY <1>4
    <2> QED BY <1>4, <2>1
  <1>6. v = Body(v)
    <2> HIDE DEF Body
    <2> QED BY <1>5, Zenon
  <1>7. ReachBy(p) = v
    BY DEF ReachBy
  <1> HIDE DEF v
  <1>8. v[0] = {Root}
    <2> HIDE DEF Below
    <2> QED BY <1>6
  <1>9. ASSUME NEW d \in 1 .. L PROVE v[d] = Below(v, d)
    <2>1. d \in 0 .. L /\ d # 0
      OBVIOUS
    <2>2. Body(v)[d] = Below(v, d)
      <3> HIDE DEF Below
      <3> QED BY <2>1
    <2> HIDE DEF Body, Below
    <2> QED BY <1>6, <2>2
  <1>10. ASSUME NEW d \in 0 .. L PROVE v[d] \subseteq Nodes
    <2>1. CASE d = 0
      BY <1>0, <1>8, <2>1
    <2>2. CASE d \in 1 .. L
      BY <1>9, <2>2
    <2> QED BY <2>1, <2>2
  <1> QED BY <1>7, <1>8, <1>9, <1>10

LEMMA SamePrefix ==
  ASSUME NEW s \in Seq(STRING), NEW t \in Seq(STRING), Len(s) = Len(t)
  PROVE  IsPrefix(s, t) <=> s = t
  <1>1. SubSeq(s, 1, Len(s)) = s /\ SubSeq(t, 1, Len(t)) = t
    OBVIOUS
  <1> QED BY <1>1 DEF IsPrefix

(* At a node, while the path has segments left: the endpoints the walk     *)
(* compares are those that the path names, and the subtree it enters is    *)
(* the only one of that name.                                              *)
LEMMA LevelFacts ==
  ASSUME LettersAgree, node \in Nodes, at \in 1 .. Len(path), path \in Seq(Seq(STRING)),
         request.tail \in Seq(Seq(STRING)), Reach[at - 1] = {node}
  PROVE  /\ Hits(node, at) = Named(node, at - 1)
         /\ \A j \in Entered(node, at) : Reach[at] = {Subtrees[node][j]}
         /\ Leaves(node, at) => Reach[at] = {}
  <1> DEFINE subs == Subtrees[node]
             top == Subtrees[Root]
             s == Segment(at)
  <1>1. Segment(at) = path[at] /\ path[at] \in Seq(STRING)
    <2> DEFINE p == path
               t == request.tail
    <2>1. (p \o t)[at] = p[at] /\ at <= Len(p \o t)
      <3> HIDE DEF p, t
      <3>1. p \in Seq(Seq(STRING)) /\ t \in Seq(Seq(STRING)) /\ at \in 1 .. Len(p)
        BY DEF p, t
      <3> QED BY <3>1
    <2> QED BY <2>1 DEF Segment, path
  <1>2. Finished(at) <=> \A j \in at + 1 .. Len(path) : path[j] = <<>>
    <2> DEFINE p == path
               t == request.tail
    <2>1. Len(p) \in Nat /\ Len(t) \in Nat
      OBVIOUS
    <2>2. Finished(at) <=> \A j \in at + 1 .. Len(p) : p[j] = <<>>
      <3>1. Finished(at) <=>
              IF at > Len(p) + Len(t) THEN FALSE
              ELSE LET string == IF at <= Len(p) THEN p ELSE p \o t
                   IN  \A j \in at + 1 .. Len(string) : string[j] = <<>>
        BY DEF Finished, path
      <3>2. at <= Len(p) /\ ~ (at > Len(p) + Len(t))
        BY <2>1
      <3> HIDE DEF p, t
      <3> QED BY <3>1, <3>2
    <2> QED BY <2>2
  <1>3. Hits(node, at) = Named(node, at - 1)
    <2>1. at - 1 + 1 = at /\ at - 1 + 2 = at + 1
      OBVIOUS
    <2> QED BY <1>1, <1>2, <2>1 DEF Hits, Named
  <1>4. /\ subs \in Seq(Nodes \ {Root}) /\ top \in Seq(Nodes \ {Root})
        /\ Prefix \in [Nodes -> Seq(STRING)]
    BY TreeAssumption
  <1>5. Reach[at] = { m \in Nodes \ {Root} :
                        Prefix[m] = path[at] /\ \E n \in Reach[at - 1] : m \in Range(Subtrees[n]) }
    <2> DEFINE p == path
               to == ReachBy(p)
    <2>1. to = Reach
      BY DEF Reach
    <2>2. Len(p) \in Nat /\ at \in 1 .. Len(p)
      OBVIOUS
    <2> HIDE DEF p
    <2>3. to[at] = { m \in Nodes \ {Root} :
                       Prefix[m] = p[at] /\ \E n \in to[at - 1] : m \in Range(Subtrees[n]) }
      BY <2>2, ReachFacts
    <2> HIDE DEF to
    <2> QED BY <2>1, <2>3 DEF p
  <1>6. Reach[at] = { m \in Nodes \ {Root} : Prefix[m] = path[at] /\ m \in Range(subs) }
    BY <1>5
  <1>7. /\ \A j \in 1 .. Len(subs) : j <= Len(top) /\ Prefix[subs[j]] = Prefix[top[j]]
        /\ \A i, j \in 1 .. Len(top) : Prefix[top[i]] = Prefix[top[j]] => i = j
    BY DEF LettersAgree
  <1>8. ASSUME NEW j \in 1 .. Len(subs)
        PROVE  /\ Compared(node, j, at) <=> Prefix[subs[j]] = s
               /\ Certain(node, j, at) <=> Prefix[subs[j]] = s
    <2>1. Prefix[subs[j]] \in Seq(STRING) /\ j <= Len(top) /\ Prefix[subs[j]] = Prefix[top[j]]
      BY <1>4, <1>7, SMTT(60)
    <2>2. Compared(node, j, at) <=> Len(Prefix[subs[j]]) = Len(s) /\ IsPrefix(s, Prefix[subs[j]])
      BY <2>1 DEF Compared
    <2>3. Certain(node, j, at) <=> Compared(node, j, at)
      BY <2>1 DEF Certain
    <2> QED BY <1>1, <2>1, <2>2, <2>3, SamePrefix
  <1>9. ASSUME NEW m \in Nodes \ {Root}
        PROVE  m \in Reach[at] <=> \E j \in 1 .. Len(subs) : m = subs[j] /\ Prefix[subs[j]] = s
    <2>1. m \in Range(subs) <=> \E j \in 1 .. Len(subs) : m = subs[j]
      BY <1>4 DEF Range
    <2> HIDE DEF s, subs
    <2> QED BY <1>1, <1>6, <2>1 DEF s
  <1>10. Reach[at] \subseteq Nodes \ {Root} /\ \A j \in 1 .. Len(subs) : subs[j] \in Nodes \ {Root}
    BY <1>4, <1>6
  <1>11. ASSUME NEW j \in Entered(node, at) PROVE Reach[at] = {subs[j]}
    <2>1. j \in 1 .. Len(subs) /\ Prefix[subs[j]] = s
      BY <1>8 DEF Entered
    <2>2. ASSUME NEW i \in 1 .. Len(subs), Prefix[subs[i]] = s PROVE i = j
      <3> HIDE DEF subs, s
      <3>1. i \in 1 .. Len(top) /\ j \in 1 .. Len(top)
        BY <1>4, <1>7, <2>1
      <3> QED BY <1>7, <2>1, <2>2, <3>1
    <2> HIDE DEF s, subs
    <2> QED BY <1>9, <1>10, <2>1, <2>2
  <1>12. ASSUME Leaves(node, at) PROVE Reach[at] = {}
    <2>1. \A j \in 1 .. Len(subs) : Prefix[subs[j]] # s
      BY <1>8, <1>12 DEF Leaves
    <2> HIDE DEF s, subs
    <2> QED BY <1>9, <1>10, <2>1
  <1> QED BY <1>3, <1>11, <1>12

(* What a step leaves that keeps the request.                              *)
LEMMA SamePath ==
  ASSUME request' = request
  PROVE  /\ path' = path /\ Reach' = Reach /\ Levels' = Levels
         /\ \A n, d : Named(n, d)' = Named(n, d) /\ Accepted(n, d)' = Accepted(n, d)
  <1>1. path' = path
    BY DEF path
  <1>2. Reach' = Reach
    BY <1>1 DEF Reach
  <1>3. \A n, d : Named(n, d)' = Named(n, d)
    BY <1>1 DEF Named
  <1>4. Levels' = Levels
    BY <1>1, <1>2, <1>3 DEF Levels
  <1>5. \A n, d : Accepted(n, d)' = Accepted(n, d)
    BY <1>3 DEF Accepted, Accepts
  <1> QED BY <1>1, <1>2, <1>3, <1>4, <1>5

(* Where the walk stands for a path that does not end inside the tree.     *)
LEMMA StandsAt ==
  ASSUME LettersAgree, Base, WalkOK, phase = "parse", Levels # {} \/ Reach[Len(path)] = {}
  PROVE  /\ at \in 1 .. Len(path) /\ Reach[at - 1] = {node} /\ node \in Nodes
         /\ Hits(node, at) = Named(node, at - 1)
         /\ Hits(node, at) # {} => Levels # {} /\ Min(Levels) = at - 1
         /\ Hits(node, at) = {} /\ Leaves(node, at) => Levels = {}
  <1>1. /\ node \in Nodes /\ at \in Nat /\ at >= 1 /\ request \in Requests
        /\ Cardinality(Nodes) \in Nat
    BY TreeFacts DEF Base, TypeOK, ControlOK
  <1>2. path \in Seq(Seq(STRING)) /\ request.tail \in Seq(Seq(STRING)) /\ Len(path) \in Nat
    BY <1>1, RequestAssumption DEF Request, path
  <1>3. \A d \in 0 .. Len(path) - 1 : d < at - 1 => \A n \in Reach[d] : Named(n, d) = {}
    BY DEF WalkOK
  <1>4. at <= Len(path)
    <2> SUFFICES ASSUME at > Len(path) PROVE FALSE
      BY <1>1, <1>2
    <2>1. Reach[Len(path)] # {}
      BY <1>1, <1>2 DEF WalkOK
    <2>2. \A d \in 0 .. Len(path) - 1 : d < at - 1
      BY <1>1, <1>2
    <2>3. Levels = {}
      BY <1>3, <2>2 DEF Levels
    <2> QED BY <2>1, <2>3
  <1>5. Reach[at - 1] = {node}
    BY <1>4 DEF WalkOK
  <1>6. at \in 1 .. Len(path) /\ at - 1 \in 0 .. Len(path) - 1
    BY <1>1, <1>2, <1>4
  <1>7. /\ Hits(node, at) = Named(node, at - 1)
        /\ Leaves(node, at) => Reach[at] = {}
    BY <1>1, <1>2, <1>5, <1>6, LevelFacts
  <1>8. ASSUME Hits(node, at) # {} PROVE Levels # {} /\ Min(Levels) = at - 1
    <2>1. at - 1 \in Levels
      BY <1>5, <1>6, <1>7, <1>8 DEF Levels
    <2>2. Levels \subseteq Nat /\ \A d \in Levels : ~ (d < at - 1)
      BY <1>2, <1>3 DEF Levels
    <2>3. Min(Levels) \in Levels /\ \A y \in Levels : Min(Levels) <= y
      BY <2>1, <2>2, MinFacts
    <2>4. Min(Levels) <= at - 1 /\ ~ (Min(Levels) < at - 1) /\ Min(Levels) \in Nat
      BY <2>1, <2>2, <2>3
    <2> QED BY <1>1, <2>1, <2>4
  <1>9. ASSUME Hits(node, at) = {}, Leaves(node, at) PROVE Levels = {}
    <2> DEFINE P == {k \in Nat : at + k <= Len(path) => Reach[at + k] = {}}
    <2>1. 0 \in P
      BY <1>1, <1>7, <1>9
    <2>2. ASSUME NEW k \in Nat, k \in P PROVE k + 1 \in P
      <3> SUFFICES ASSUME at + (k + 1) <= Len(path) PROVE Reach[at + (k + 1)] = {}
        OBVIOUS
      <3>1. /\ at + (k + 1) \in 1 .. Len(path) /\ (at + (k + 1)) - 1 = at + k
            /\ at + k <= Len(path)
        BY <1>1, <1>2
      <3>2. Reach[at + (k + 1)] =
              { m \in Nodes \ {Root} : /\ Prefix[m] = path[at + (k + 1)]
                                       /\ \E n \in Reach[(at + (k + 1)) - 1] : m \in Range(Subtrees[n]) }
        <4> DEFINE p == path
                   to == ReachBy(p)
                   x == at + (k + 1)
        <4>1. to = Reach
          BY DEF Reach
        <4>2. Len(p) \in Nat /\ x \in 1 .. Len(p)
          BY <1>2, <3>1
        <4> HIDE DEF p, x
        <4>3. to[x] = { m \in Nodes \ {Root} :
                          Prefix[m] = p[x] /\ \E n \in to[x - 1] : m \in Range(Subtrees[n]) }
          BY <4>2, ReachFacts
        <4> HIDE DEF to
        <4> QED BY <4>1, <4>3 DEF p, x
      <3>3. Reach[at + k] = {}
        BY <2>2, <3>1
      <3> QED BY <3>1, <3>2, <3>3
    <2>3. Nat \subseteq P
      <3> HIDE DEF P
      <3> QED BY <2>1, <2>2, Induction
    <2>4. ASSUME NEW d \in 0 .. Len(path) - 1, NEW n \in Reach[d] PROVE Named(n, d) = {}
      <3>1. CASE d < at - 1
        BY <1>3, <3>1
      <3>2. CASE d = at - 1
        BY <1>5, <1>7, <1>9, <3>2
      <3>3. CASE d >= at
        <4>1. d - at \in Nat /\ at + (d - at) = d /\ d <= Len(path)
          BY <1>1, <1>2, <3>3
        <4>2. Reach[d] = {}
          BY <2>3, <4>1
        <4> QED BY <2>4, <4>2
      <3> QED BY <1>1, <1>2, <3>1, <3>2, <3>3
    <2> QED BY <2>4 DEF Levels
  <1> QED BY <1>1, <1>5, <1>6, <1>7, <1>8, <1>9

(* A step down stays on the path.                                          *)
LEMMA DescendWalks ==
  ASSUME LettersAgree, Base, WalkOK, Descend
  PROVE  WalkOK'
  <1>1. /\ phase = "parse" /\ Hits(node, at) = {} /\ at' = at + 1
        /\ \E j \in Entered(node, at) : node' = Subtrees[node][j]
        /\ request' = request
    BY DEF Descend
  <1>2. /\ node \in Nodes /\ at \in Nat /\ at >= 1 /\ request \in Requests
        /\ Cardinality(Nodes) \in Nat
    BY <1>1, TreeFacts DEF Base, TypeOK, ControlOK
  <1>3. path \in Seq(Seq(STRING)) /\ request.tail \in Seq(Seq(STRING)) /\ Len(path) \in Nat
    BY <1>2, RequestAssumption DEF Request, path
  <1>4. /\ path' = path /\ Reach' = Reach
        /\ \A n, d : Named(n, d)' = Named(n, d)
    BY <1>1, SamePath
  <1>5. \A d \in 0 .. Len(path) - 1 : d < at - 1 => \A n \in Reach[d] : Named(n, d) = {}
    BY <1>1 DEF WalkOK
  <1>6. CASE at <= Len(path)
    <2>1. Reach[at - 1] = {node} /\ at \in 1 .. Len(path)
      BY <1>1, <1>2, <1>3, <1>6 DEF WalkOK
    <2>2. Named(node, at - 1) = {} /\ Reach[at] = {node'}
      BY <1>1, <1>2, <1>3, <2>1, LevelFacts
    <2>3. \A d \in 0 .. Len(path) - 1 : d < at => \A n \in Reach[d] : Named(n, d) = {}
      <3> SUFFICES ASSUME NEW d \in 0 .. Len(path) - 1, d < at, NEW n \in Reach[d]
                   PROVE  Named(n, d) = {}
        OBVIOUS
      <3>1. CASE d < at - 1
        BY <1>5, <3>1
      <3>2. CASE d = at - 1
        BY <2>1, <2>2, <3>2
      <3> QED BY <1>2, <3>1, <3>2
    <2>4. at + 1 - 1 = at /\ (~ (at + 1 <= Len(path)) => Len(path) = at)
      BY <1>2, <1>3, <1>6
    <2>5. \A d \in 0 .. Len(path) - 1 : d < at' - 1 => \A n \in Reach[d] : Named(n, d) = {}
      BY <1>1, <1>2, <2>3
    <2>6. IF at' <= Len(path) THEN Reach[at' - 1] = {node'} ELSE Reach[Len(path)] # {}
      <3>1. at' - 1 = at /\ (~ (at' <= Len(path)) => Len(path) = at)
        <4>1. at' = at + 1
          BY <1>1
        <4> QED BY <1>2, <2>4, <4>1
      <3>2. Reach[at] = {node'} /\ Reach[at] # {}
        BY <2>2
      <3> QED BY <3>1, <3>2
    <2> QED BY <1>4, <2>5, <2>6 DEF WalkOK
  <1>7. CASE at > Len(path)
    <2>1. Reach[Len(path)] # {}
      BY <1>1, <1>2, <1>3, <1>7 DEF WalkOK
    <2>2. \A d \in 0 .. Len(path) - 1 : d < at - 1
      BY <1>2, <1>3, <1>7
    <2>3. ~ (at + 1 <= Len(path))
      BY <1>2, <1>3, <1>7
    <2> QED BY <1>1, <1>4, <1>5, <2>1, <2>2, <2>3 DEF WalkOK
  <1> QED BY <1>2, <1>3, <1>6, <1>7

(* What RoutedRight asks of a request that was routed.                     *)
Right(h, refused, flags) ==
  IF Levels = {} THEN h = None /\ ~ refused
  ELSE \E n \in Reach[Min(Levels)] :
         LET took == Accepted(n, Min(Levels))
         IN  IF took # {} THEN h = Entries[n][Min(took)].handler /\ ~ refused
             ELSE /\ h = None /\ refused
                  /\ flags = Methods(n, Named(n, Min(Levels)))

LEMMA RightMeaning ==
  RoutedRight <=>
    (Routed /\ (Levels # {} \/ Reach[Len(path)] = {}) => Right(hit, Refused, allow))
  BY DEF RoutedRight, Right

LEMMA RightMeaningNext ==
  ASSUME request' = request,
         Routed' /\ (Levels # {} \/ Reach[Len(path)] = {}) => Right(hit', Refused', allow')
  PROVE  RoutedRight'
  <1>1. /\ path' = path /\ Reach' = Reach /\ Levels' = Levels
        /\ \A n, d : Named(n, d)' = Named(n, d) /\ Accepted(n, d)' = Accepted(n, d)
    BY SamePath
  <1> QED BY <1>1 DEF RoutedRight, Right

(* What an endpoint that is hit, or refuses the method, makes of the       *)
(* request, and no match.                                                  *)
LEMMA HitRoutes ==
  ASSUME LettersAgree, Base, WalkOK, Hit
  PROVE  RoutedRight'
  <1> DEFINE took == Taken(node, at)
  <1>1. /\ phase = "parse" /\ took # {} /\ request' = request
        /\ hit' = Entries[node][Min(took)].handler
    BY DEF Hit
  <1>2. SUFFICES ASSUME Levels # {} \/ Reach[Len(path)] = {}
                 PROVE  Right(hit', Refused', allow')
    BY <1>1, RightMeaningNext
  <1>3. /\ Hits(node, at) = Named(node, at - 1) /\ node \in Nodes
        /\ Hits(node, at) # {} => Levels # {} /\ Min(Levels) = at - 1
        /\ node \in Reach[at - 1]
    BY <1>1, <1>2, StandsAt
  <1>4. took = Accepted(node, at - 1)
    BY <1>3 DEF Taken, Accepted
  <1>5. took \subseteq Hits(node, at) /\ Hits(node, at) \subseteq 1 .. Len(Entries[node])
    BY DEF Taken, Hits
  <1>6. Min(took) \in 1 .. Len(Entries[node])
    <2>1. took \subseteq Nat
      BY <1>5
    <2> HIDE DEF took
    <2> QED BY <1>1, <1>5, <2>1, MinFacts
  <1>7. Levels # {} /\ Min(Levels) = at - 1
    BY <1>1, <1>3, <1>5
  <1> HIDE DEF took
  <1>8. hit' # None
    BY <1>1, <1>3, <1>6, TreeFacts
  <1>9. ~ Refused'
    BY <1>8 DEF Refused
  <1> QED BY <1>1, <1>3, <1>4, <1>7, <1>9 DEF Right

LEMMA RefusalRoutes ==
  ASSUME LettersAgree, Base, WalkOK, MethodRefused
  PROVE  RoutedRight'
  <1>1. /\ phase = "parse" /\ Hits(node, at) # {} /\ Taken(node, at) = {} /\ phase' = "prepare"
        /\ allow' = allow \union Allow(node, at) /\ UNCHANGED <<request, hit>>
    BY DEF MethodRefused
  <1>2. SUFFICES ASSUME Levels # {} \/ Reach[Len(path)] = {}
                 PROVE  Right(hit', Refused', allow')
    BY <1>1, RightMeaningNext
  <1>3. /\ Hits(node, at) = Named(node, at - 1) /\ node \in Reach[at - 1]
        /\ Levels # {} /\ Min(Levels) = at - 1
    BY <1>1, <1>2, StandsAt
  <1>4. hit' = None /\ allow = {}
    BY <1>1 DEF Base, OwnState
  <1>5. allow' = Methods(node, Named(node, at - 1))
    BY <1>1, <1>3, <1>4 DEF Allow
  <1>6. allow' # {}
    <2>1. PICK i \in Named(node, at - 1) : TRUE
      BY <1>1, <1>3
    <2>2. Entries[node][i].method \in Methods(node, Named(node, at - 1))
      BY DEF Methods
    <2> QED BY <1>5, <2>2
  <1>7. Refused'
    BY <1>1, <1>4, <1>6 DEF Refused
  <1>8. Accepted(node, at - 1) = {}
    BY <1>1, <1>3 DEF Accepted, Taken
  <1> QED BY <1>3, <1>4, <1>5, <1>7, <1>8 DEF Right

LEMMA NoMatchRoutes ==
  ASSUME LettersAgree, Base, WalkOK, NoMatch
  PROVE  RoutedRight'
  <1>1. /\ phase = "parse" /\ Hits(node, at) = {} /\ Leaves(node, at)
        /\ UNCHANGED <<request, allow, hit>>
    BY DEF NoMatch
  <1>2. SUFFICES ASSUME Levels # {} \/ Reach[Len(path)] = {}
                 PROVE  Right(hit', Refused', allow')
    BY <1>1, RightMeaningNext
  <1>3. Levels = {}
    BY <1>1, <1>2, StandsAt
  <1>4. hit' = None /\ allow' = {}
    BY <1>1 DEF Base, OwnState
  <1> QED BY <1>3, <1>4 DEF Right, Refused

(* A request that was routed stays so until it is sent.                    *)
LEMMA StaysRouted ==
  ASSUME RoutedRight, phase = "serve", request' = request, hit' = hit, allow' = allow,
         hit # None
  PROVE  RoutedRight'
  <1>1. SUFFICES ASSUME Levels # {} \/ Reach[Len(path)] = {}
                 PROVE  Right(hit', Refused', allow')
    BY RightMeaningNext
  <1>2. Right(hit, Refused, allow)
    BY <1>1, RightMeaning DEF Routed
  <1>3. ~ Refused /\ ~ Refused'
    BY DEF Refused
  <1> QED BY <1>2, <1>3 DEF Right

LEMMA RoutedStep ==
  ASSUME LettersAgree, Base, WalkOK, RoutedRight, [Next]_vars
  PROVE  WalkOK' /\ RoutedRight'
  <1>1. ASSUME phase' # "parse", RoutedRight' PROVE WalkOK' /\ RoutedRight'
    BY <1>1 DEF WalkOK
  <1>2. ASSUME phase' \notin {"serve", "prepare"}, WalkOK' PROVE WalkOK' /\ RoutedRight'
    BY <1>2 DEF RoutedRight, Routed
  <1>3. CASE ReceiveRequest
    <2>1. PICK r \in Requests : Receive(r)
      BY <1>3 DEF ReceiveRequest
    <2>2. /\ phase' = "parse" /\ request' = r /\ node' = Root /\ at' = 1
      BY <2>1 DEF Receive, Base, ControlOK
    <2>3. path' \in Seq(Seq(STRING)) /\ Len(path') \in Nat
      BY <2>2, RequestAssumption DEF Request, path
    <2>4. Reach'[0] = {Root}
      <3> DEFINE p == path'
      <3>1. Len(p) \in Nat
        BY <2>3
      <3> HIDE DEF p
      <3>2. ReachBy(p)[0] = {Root}
        BY <3>1, ReachFacts
      <3> QED BY <3>2 DEF Reach, p
    <2>5. at' - 1 = 0 /\ (~ (1 <= Len(path')) => Len(path') = 0)
      BY <2>2, <2>3
    <2>6. \A d \in 0 .. Len(path') - 1 : ~ (d < at' - 1)
      BY <2>2, <2>3
    <2>7. WalkOK'
      BY <2>2, <2>4, <2>5, <2>6 DEF WalkOK
    <2> QED BY <1>2, <2>2, <2>7
  <1>4. CASE Walk
    <2>1. CASE Hit
      BY <1>1, <2>1, HitRoutes DEF Hit
    <2>2. CASE Descend
      <3>1. phase' = "parse"
        BY <2>2 DEF Descend
      <3> QED BY <1>2, <2>2, <3>1, DescendWalks
    <2> QED BY <1>4, <2>1, <2>2 DEF Walk
  <1>5. CASE RefuseMethod
    <2>1. MethodRefused /\ phase' = "prepare"
      BY <1>5 DEF RefuseMethod, MethodRefused
    <2> QED BY <1>1, <2>1, RefusalRoutes
  <1>6. CASE ServeStatic
    <2>1. NoMatch /\ phase' = "prepare"
      BY <1>6 DEF ServeStatic, NoMatch
    <2> QED BY <1>1, <2>1, NoMatchRoutes
  <1>7. CASE EndpointAsksCookie \/ EndpointAsksRange
    <2>1. phase = "serve" /\ phase' = phase /\ UNCHANGED <<request, hit, allow>>
      BY <1>7, Zenon DEF EndpointAsksCookie, EndpointAsksRange, treeVars
    <2>2. hit # None
      BY <2>1 DEF Base, ControlOK
    <2> QED BY <1>1, <2>1, <2>2, StaysRouted
  <1>8. CASE EndpointWaits \/ EndpointAnswers \/ EndpointServesFile
    <2>1. /\ phase = "serve" /\ phase' \in {"serve", "prepare"} /\ UNCHANGED <<request, hit, allow>>
      BY <1>8 DEF EndpointWaits, EndpointAnswers, EndpointServesFile, Call
    <2>2. hit # None
      BY <2>1 DEF Base, ControlOK
    <2> QED BY <1>1, <2>1, <2>2, StaysRouted
  <1>9. CASE Prepare \/ Done
    <2>1. phase' \in {"send", "recv"}
      BY <1>9 DEF Prepare, Done, NextTransaction
    <2> QED BY <2>1 DEF WalkOK, RoutedRight, Routed
  <1>10. CASE UNCHANGED vars
    <2>1. UNCHANGED <<phase, request, node, at, allow, hit>>
      BY <1>10 DEF vars, treeVars
    <2>2. /\ path' = path /\ Reach' = Reach
          /\ \A n, d : Named(n, d)' = Named(n, d)
      BY <2>1, SamePath
    <2>3. WalkOK'
      BY <2>1, <2>2 DEF WalkOK
    <2>4. Routed' = Routed /\ Refused' = Refused
      BY <2>1 DEF Routed, Refused
    <2>5. RoutedRight'
      BY <2>1, <2>4, RightMeaning, RightMeaningNext
    <2> QED BY <2>3, <2>5
  <1> QED BY <1>3, <1>4, <1>5, <1>6, <1>7, <1>8, <1>9, <1>10 DEF Next

(* In a tree whose letters the comparison knows, every request whose path  *)
(* does not end inside the tree is routed as the tree says: to the first   *)
(* endpoint of the first level that has one for its path and method, or    *)
(* it is refused with the methods of that level (parse_api_tree).          *)
THEOREM RoutedAsTreeSays == LettersAgree => (Spec => []RoutedRight)
  <1> SUFFICES ASSUME LettersAgree PROVE Spec => []RoutedRight
    OBVIOUS
  <1>1. Init => WalkOK /\ RoutedRight
    BY DEF Init, TreeInit, WalkOK, RoutedRight, Routed
  <1>2. Base /\ WalkOK /\ RoutedRight /\ [Next]_vars => WalkOK' /\ RoutedRight'
    BY RoutedStep
  <1>3. IInv => Base
    BY DEF IInv
  <1> QED BY <1>1, <1>2, <1>3, Invariance, PTL DEF Spec

-----------------------------------------------------------------------------
(* The cookies.  First the text of their header, and the characters that   *)
(* shape it.                                                               *)
Blank == " "
Equals == "="
Semicolon == ";"
Char == STRING \union {Blank, Equals, Semicolon}

LEMMA SameText ==
  ASSUME NEW s \in Seq(Char), NEW t \in Seq(Char), Len(s) = Len(t),
         \A i \in 1 .. Len(s) : s[i] = t[i]
  PROVE  s = t
  OBVIOUS

LEMMA StrchrFacts ==
  ASSUME NEW s \in Seq(Char), NEW c, NEW i \in Nat, i >= 1, i <= Len(s) + 1
  PROVE  LET pos == Strchr(s, c, i)
         IN  /\ pos \in i .. Len(s) + 1
             /\ pos <= Len(s) => s[pos] = c
             /\ \A j \in i .. pos - 1 : s[j] # c
  <1> DEFINE places == { j \in i .. Len(s) : s[j] = c }
             pos == Strchr(s, c, i)
  <1>1. pos = IF places = {} THEN Len(s) + 1 ELSE Min(places)
    BY DEF Strchr
  <1>2. places # {} => Min(places) \in places /\ \A y \in places : Min(places) <= y
    <2>1. places \subseteq Nat
      OBVIOUS
    <2> HIDE DEF places
    <2> QED BY <2>1, MinFacts
  <1>3. CASE places = {}
    <2>1. \A j \in i .. Len(s) : s[j] # c
      BY <1>3
    <2> HIDE DEF places, pos
    <2> QED BY <1>1, <1>3, <2>1 DEF pos
  <1>4. CASE places # {}
    <2>1. pos \in i .. Len(s) /\ s[pos] = c /\ pos = Min(places)
      BY <1>1, <1>2, <1>4
    <2>2. ASSUME NEW j \in i .. pos - 1 PROVE s[j] # c
      <3>1. j \in i .. Len(s) /\ ~ (pos <= j)
        BY <2>1
      <3>2. j \notin places
        <4> HIDE DEF places, pos
        <4> QED BY <1>2, <1>4, <2>1, <3>1
      <3> QED BY <3>1, <3>2
    <2> HIDE DEF pos
    <2> QED BY <2>1, <2>2 DEF pos
  <1> QED BY <1>3, <1>4

LEMMA StrchrIs ==
  ASSUME NEW s \in Seq(Char), NEW c, NEW i \in Nat, i >= 1, NEW p \in i .. Len(s) + 1,
         p <= Len(s) => s[p] = c, \A j \in i .. p - 1 : s[j] # c
  PROVE  Strchr(s, c, i) = p
  <1> DEFINE pos == Strchr(s, c, i)
  <1>1. /\ pos \in i .. Len(s) + 1
        /\ pos <= Len(s) => s[pos] = c
        /\ \A j \in i .. pos - 1 : s[j] # c
    BY StrchrFacts
  <1> HIDE DEF pos
  <1>2. ~ (pos < p)
    <2> SUFFICES ASSUME pos < p PROVE FALSE
      OBVIOUS
    <2>1. pos \in i .. p - 1 /\ pos <= Len(s)
      BY <1>1
    <2> QED BY <1>1, <2>1
  <1>3. ~ (p < pos)
    <2> SUFFICES ASSUME p < pos PROVE FALSE
      OBVIOUS
    <2>1. p \in i .. pos - 1 /\ p <= Len(s)
      BY <1>1
    <2> QED BY <1>1, <2>1
  <1>4. pos = p
    BY <1>1, <1>2, <1>3
  <1> QED BY <1>4 DEF pos

(* From position i on, where c is no longer.                               *)
Past(s, c, i, j) ==
  /\ j \in i .. Len(s) + 1
  /\ j <= Len(s) => s[j] # c
  /\ \A k \in i .. j - 1 : s[k] = c

LEMMA PastFacts ==
  ASSUME NEW s \in Seq(Char), NEW c, NEW i \in Nat, i >= 1, i <= Len(s) + 1
  PROVE  \E j \in i .. Len(s) + 1 : Past(s, c, i, j)
  <1> DEFINE ends == { j \in i .. Len(s) + 1 : j <= Len(s) => s[j] # c }
             e == Min(ends)
  <1>1. Len(s) + 1 \in ends /\ ends \subseteq Nat
    <2>1. Len(s) \in Nat
      OBVIOUS
    <2>2. ends \subseteq i .. Len(s) + 1
      OBVIOUS
    <2>3. i .. Len(s) + 1 \subseteq Nat
      BY <2>1
    <2>4. Len(s) + 1 \in i .. Len(s) + 1 /\ ~ (Len(s) + 1 <= Len(s))
      BY <2>1
    <2>5. Len(s) + 1 \in ends
      BY <2>4
    <2> HIDE DEF ends
    <2> QED BY <2>2, <2>3, <2>5
  <1>2. e \in ends /\ \A y \in ends : e <= y
    <2> HIDE DEF ends
    <2> QED BY <1>1, MinFacts
  <1>3. e \in i .. Len(s) + 1 /\ (e <= Len(s) => s[e] # c)
    BY <1>2
  <1>4. ASSUME NEW k \in i .. e - 1 PROVE s[k] = c
    <2>1. k \in i .. Len(s) + 1 /\ k <= Len(s) /\ ~ (e <= k)
      <3> HIDE DEF e
      <3> QED BY <1>3
    <2>2. k \notin ends
      <3> HIDE DEF ends, e
      <3> QED BY <1>2, <2>1
    <2> HIDE DEF e
    <2> QED BY <2>1, <2>2
  <1> HIDE DEF e
  <1> QED BY <1>3, <1>4 DEF Past

LEMMA PastUnique ==
  ASSUME NEW s \in Seq(Char), NEW c, NEW i \in Nat, i >= 1,
         NEW p \in i .. Len(s) + 1, NEW e \in i .. Len(s) + 1,
         Past(s, c, i, p), Past(s, c, i, e)
  PROVE  e = p
  <1>1. /\ (e <= Len(s) => s[e] # c)
        /\ \A k \in i .. e - 1 : s[k] = c
    BY DEF Past
  <1>2. /\ (p <= Len(s) => s[p] # c)
        /\ \A k \in i .. p - 1 : s[k] = c
    BY DEF Past
  <1>3. ~ (e < p)
    <2> SUFFICES ASSUME e < p PROVE FALSE
      OBVIOUS
    <2>1. e \in i .. p - 1 /\ e <= Len(s)
      OBVIOUS
    <2> QED BY <1>1, <1>2, <2>1
  <1>4. ~ (p < e)
    <2> SUFFICES ASSUME p < e PROVE FALSE
      OBVIOUS
    <2>1. p \in i .. e - 1 /\ p <= Len(s)
      OBVIOUS
    <2> QED BY <1>1, <1>2, <2>1
  <1> QED BY <1>3, <1>4

LEMMA SkipSpacesFacts ==
  ASSUME NEW s \in Seq(Char), NEW i \in Nat, i >= 1, i <= Len(s) + 1
  PROVE  /\ SkipSpaces(s, i) \in i .. Len(s) + 1
         /\ \A p \in i .. Len(s) + 1 : Past(s, Blank, i, p) => SkipSpaces(s, i) = p
  <1>1. PICK j \in i .. Len(s) + 1 : Past(s, Blank, i, j)
    BY PastFacts
  <1>2. SkipSpaces(s, i) = CHOOSE k \in i .. Len(s) + 1 : Past(s, Blank, i, k)
    BY Zenon DEF SkipSpaces, Past, Blank
  <1>3. SkipSpaces(s, i) \in i .. Len(s) + 1 /\ Past(s, Blank, i, SkipSpaces(s, i))
    BY <1>1, <1>2, Zenon
  <1>4. ASSUME NEW p \in i .. Len(s) + 1, Past(s, Blank, i, p) PROVE SkipSpaces(s, i) = p
    BY <1>3, <1>4, PastUnique
  <1> QED BY <1>3, <1>4

(* The loops, round by round: of kitserv_http_parse_cookies, and of the    *)
(* client that writes the header.                                          *)
FirstRound == [at |-> 1, ok |-> TRUE, done |-> FALSE, list |-> <<>>]

LEMMA RoundsFacts ==
  ASSUME NEW s, Len(s) \in Nat
  PROVE  LET r == CookieRounds(s)
         IN  r[0] = FirstRound /\ \A i \in 1 .. Len(s) + 1 : r[i] = CookieRound(s, r[i - 1])
  <1> DEFINE n == Len(s) + 1
             Body(g) == [i \in 0 .. n |-> IF i = 0 THEN FirstRound ELSE CookieRound(s, g[i - 1])]
             v == CHOOSE g : g = Body(g)
             Runs(g, l) == g[0] = FirstRound /\ \A i \in 1 .. l : g[i] = CookieRound(s, g[i - 1])
             P == {l \in Nat : \E g : Runs(g, l)}
  <1>1. 0 \in P
    <2> DEFINE g == [i \in 0 .. 0 |-> FirstRound]
    <2>1. g[0] = FirstRound /\ \A i \in 1 .. 0 : FALSE
      OBVIOUS
    <2> HIDE DEF g
    <2>2. Runs(g, 0)
      BY <2>1
    <2> QED BY <2>2
  <1>2. ASSUME NEW l \in Nat, l \in P PROVE l + 1 \in P
    <2>1. PICK g : Runs(g, l)
      BY <1>2
    <2> DEFINE h == [i \in 0 .. l + 1 |-> IF i = l + 1 THEN CookieRound(s, g[l]) ELSE g[i]]
    <2>2. h[0] = g[0] /\ h[l + 1] = CookieRound(s, g[l]) /\ \A i \in 0 .. l : h[i] = g[i]
      BY SMTT(60)
    <2> HIDE DEF h
    <2>3. ASSUME NEW i \in 1 .. l + 1 PROVE h[i] = CookieRound(s, h[i - 1])
      <3>1. CASE i = l + 1
        <4>1. i - 1 = l /\ l \in 0 .. l
          BY <3>1
        <4> QED BY <2>2, <3>1, <4>1
      <3>2. CASE i # l + 1
        <4>1. i \in 1 .. l /\ i \in 0 .. l /\ i - 1 \in 0 .. l
          BY <3>2
        <4> QED BY <2>1, <2>2, <4>1
      <3> QED BY <3>1, <3>2
    <2>4. Runs(h, l + 1)
      BY <2>1, <2>2, <2>3
    <2> QED BY <2>4
  <1>3. n \in P
    <2> HIDE DEF P
    <2> QED BY <1>1, <1>2, Induction
  <1>4. PICK g : Runs(g, n)
    BY <1>3
  <1> DEFINE f == [i \in 0 .. n |-> g[i]]
  <1>5. f = Body(f)
    <2>1. ASSUME NEW i \in 0 .. n PROVE f[i] = Body(f)[i]
      <3>1. CASE i = 0
        BY <1>4, <3>1
      <3>2. CASE i # 0
        <4>1. i \in 1 .. n /\ i - 1 \in 0 .. n
          BY <3>2
        <4> QED BY <1>4, <4>1
      <3> QED BY <3>1, <3>2
    <2> QED BY <2>1, SMTT(60)
  <1>6. v = Body(v)
    <2> HIDE DEF f, Body
    <2> QED BY <1>5, Zenon
  <1>7. CookieRounds(s) = v
    BY Zenon DEF CookieRounds, FirstRound
  <1> HIDE DEF v
  <1>8. v[0] = FirstRound
    <2>1. 0 \in 0 .. n
      OBVIOUS
    <2> QED BY <1>6, <2>1, Zenon
  <1>9. ASSUME NEW i \in 1 .. n PROVE v[i] = CookieRound(s, v[i - 1])
    <2>1. i \in 0 .. n /\ i # 0
      OBVIOUS
    <2>2. Body(v)[i] = CookieRound(s, v[i - 1])
      BY <2>1, Zenon
    <2> HIDE DEF Body
    <2> QED BY <1>6, <2>2
  <1> QED BY <1>7, <1>8, <1>9

Separator(i) == IF i = 1 THEN <<>> ELSE <<";", " ">>
Piece(jar, i, text) == text \o Separator(i) \o jar[i].key \o <<"=">> \o jar[i].value

LEMMA WrittenFacts ==
  ASSUME NEW jar, Len(jar) \in Nat
  PROVE  LET t == WrittenTo(jar)
         IN  t[0] = <<>> /\ \A i \in 1 .. Len(jar) : t[i] = Piece(jar, i, t[i - 1])
  <1> DEFINE n == Len(jar)
             Body(g) == [i \in 0 .. n |-> IF i = 0 THEN <<>> ELSE Piece(jar, i, g[i - 1])]
             v == CHOOSE g : g = Body(g)
             Runs(g, l) == g[0] = <<>> /\ \A i \in 1 .. l : g[i] = Piece(jar, i, g[i - 1])
             P == {l \in Nat : \E g : Runs(g, l)}
  <1>1. 0 \in P
    <2> DEFINE g == [i \in 0 .. 0 |-> <<>>]
    <2>1. g[0] = <<>> /\ \A i \in 1 .. 0 : FALSE
      OBVIOUS
    <2> HIDE DEF g
    <2>2. Runs(g, 0)
      BY <2>1
    <2> QED BY <2>2
  <1>2. ASSUME NEW l \in Nat, l \in P PROVE l + 1 \in P
    <2>1. PICK g : Runs(g, l)
      BY <1>2
    <2> DEFINE h == [i \in 0 .. l + 1 |-> IF i = l + 1 THEN Piece(jar, l + 1, g[l]) ELSE g[i]]
    <2>2. h[0] = g[0] /\ h[l + 1] = Piece(jar, l + 1, g[l]) /\ \A i \in 0 .. l : h[i] = g[i]
      BY SMTT(60)
    <2> HIDE DEF h
    <2>3. ASSUME NEW i \in 1 .. l + 1 PROVE h[i] = Piece(jar, i, h[i - 1])
      <3>1. CASE i = l + 1
        <4>1. i - 1 = l /\ l \in 0 .. l
          BY <3>1
        <4> QED BY <2>2, <3>1, <4>1
      <3>2. CASE i # l + 1
        <4>1. i \in 1 .. l /\ i \in 0 .. l /\ i - 1 \in 0 .. l
          BY <3>2
        <4> QED BY <2>1, <2>2, <4>1
      <3> QED BY <3>1, <3>2
    <2>4. Runs(h, l + 1)
      BY <2>1, <2>2, <2>3
    <2> QED BY <2>4
  <1>3. n \in P
    <2> HIDE DEF P
    <2> QED BY <1>1, <1>2, Induction
  <1>4. PICK g : Runs(g, n)
    BY <1>3
  <1> DEFINE f == [i \in 0 .. n |-> g[i]]
  <1>5. f = Body(f)
    <2>1. ASSUME NEW i \in 0 .. n PROVE f[i] = Body(f)[i]
      <3>1. CASE i = 0
        BY <1>4, <3>1
      <3>2. CASE i # 0
        <4>1. i \in 1 .. n /\ i - 1 \in 0 .. n
          BY <3>2
        <4> QED BY <1>4, <4>1
      <3> QED BY <3>1, <3>2
    <2> QED BY <2>1, SMTT(60)
  <1>6. v = Body(v)
    <2> HIDE DEF f, Body
    <2> QED BY <1>5, Zenon
  <1>7. WrittenTo(jar) = v
    BY Zenon DEF WrittenTo, Piece, Separator
  <1> HIDE DEF v
  <1>8. v[0] = <<>>
    <2>1. 0 \in 0 .. n
      OBVIOUS
    <2> QED BY <1>6, <2>1, Zenon
  <1>9. ASSUME NEW i \in 1 .. n PROVE v[i] = Piece(jar, i, v[i - 1])
    <2>1. i \in 0 .. n /\ i # 0
      OBVIOUS
    <2>2. Body(v)[i] = Piece(jar, i, v[i - 1])
      BY <2>1, Zenon
    <2> HIDE DEF Body
    <2> QED BY <1>6, <2>2
  <1> QED BY <1>7, <1>8, <1>9

-----------------------------------------------------------------------------
(* A round, for any header.                                                *)
CookieRecord == [key : Seq(Char), value : Seq(Char)]

LEMMA Letters ==
  /\ {Blank, Equals, Semicolon} \subseteq Char
  /\ Blank # Equals /\ Equals # Semicolon
  <1>1. Blank # Equals
    BY Zenon DEF Blank, Equals
  <1>2. Equals # Semicolon
    BY Zenon DEF Equals, Semicolon
  <1>3. {Blank, Equals, Semicolon} \subseteq Char
    BY DEF Char
  <1> QED BY <1>1, <1>2, <1>3

LEMMA RoundAt ==
  ASSUME NEW s \in Seq(Char), NEW c, ~ c.done,
         NEW p \in Nat, p >= 1, c.at = p,
         NEW k \in p .. Len(s) + 1, Past(s, Blank, p, k),
         NEW r \in k .. Len(s), s[r] = Equals, \A j \in k .. r - 1 : s[j] # Equals,
         NEW q \in r .. Len(s) + 1, q <= Len(s) => s[q] = Semicolon, \A j \in r .. q - 1 : s[j] # Semicolon
  PROVE  LET valued == q # r + 1 \/ q > Len(s)
             cookie == [key |-> SubSeq(s, k, r - 1), value |-> SubSeq(s, r + 1, q - 1)]
         IN  CookieRound(s, c) =
               [at |-> q + 1, ok |-> TRUE,
                done |-> q > Len(s) \/ (valued /\ Len(c.list) = MaxCookies),
                list |-> IF valued /\ Len(c.list) < MaxCookies THEN Append(c.list, cookie)
                                                               ELSE c.list]
  <1>1. SkipSpaces(s, p) = k
    <2>1. p <= Len(s) + 1
      OBVIOUS
    <2> QED BY <2>1, SkipSpacesFacts, Zenon
  <1>2. Strchr(s, Equals, k) = r
    <2>1. k \in Nat /\ k >= 1 /\ r \in k .. Len(s) + 1
      OBVIOUS
    <2> QED BY <2>1, StrchrIs
  <1>3. Strchr(s, Semicolon, r) = q
    <2>1. r \in Nat /\ r >= 1
      OBVIOUS
    <2> QED BY <2>1, StrchrIs
  <1>4. ~ (r > Len(s))
    OBVIOUS
  <1> QED BY <1>1, <1>2, <1>3, <1>4, Zenon DEF CookieRound, Equals, Semicolon

(* What is stored so far lies in the header, and there is room for it.     *)
RoundOK(s, c) ==
  /\ c \in [at : Nat, ok : BOOLEAN, done : BOOLEAN, list : Seq(CookieRecord)]
  /\ ~ c.done => c.at \in 1 .. Len(s) + 1
  /\ Len(c.list) <= MaxCookies
  /\ \A m \in 1 .. Len(c.list) : Within(c.list[m].value, s)

LEMMA WithinFacts ==
  ASSUME NEW s \in Seq(Char), NEW r \in 1 .. Len(s), NEW q \in r + 1 .. Len(s) + 1
  PROVE  Within(SubSeq(s, r + 1, q - 1), s)
  <1> DEFINE v == SubSeq(s, r + 1, q - 1)
  <1>1. Len(v) = q - 1 - r /\ r \in 0 .. Len(s)
    OBVIOUS
  <1>2. r + Len(v) = q - 1
    BY <1>1
  <1> QED BY <1>1, <1>2 DEF Within

LEMMA RoundKeeps ==
  ASSUME NEW s \in Seq(Char), NEW c, RoundOK(s, c)
  PROVE  RoundOK(s, CookieRound(s, c))
  <1> DEFINE k      == SkipSpaces(s, c.at)
             r      == Strchr(s, Equals, k)
             q      == Strchr(s, Semicolon, r)
             valued == q # r + 1 \/ q > Len(s)
             cookie == [key |-> SubSeq(s, k, r - 1), value |-> SubSeq(s, r + 1, q - 1)]
             d      == CookieRound(s, c)
  <1>1. d = CASE c.done                  -> c
              [] ~ c.done /\ r > Len(s)  -> [c EXCEPT !.ok = FALSE, !.done = TRUE]
              [] OTHER ->
                   [at |-> q + 1, ok |-> TRUE,
                    done |-> q > Len(s) \/ (valued /\ Len(c.list) = MaxCookies),
                    list |-> IF valued /\ Len(c.list) < MaxCookies THEN Append(c.list, cookie)
                                                                   ELSE c.list]
    BY Zenon DEF CookieRound, Equals, Semicolon
  <1>2. CASE c.done
    BY <1>1, <1>2
  <1>3. CASE ~ c.done /\ r > Len(s)
    <2>1. d = [c EXCEPT !.ok = FALSE, !.done = TRUE]
      BY <1>1, <1>3, Zenon
    <2> HIDE DEF d
    <2>2. RoundOK(s, d)
      BY <2>1 DEF RoundOK
    <2> QED BY <2>2 DEF d
  <1>4. CASE ~ c.done /\ ~ (r > Len(s))
    <2>1. d = [at |-> q + 1, ok |-> TRUE,
               done |-> q > Len(s) \/ (valued /\ Len(c.list) = MaxCookies),
               list |-> IF valued /\ Len(c.list) < MaxCookies THEN Append(c.list, cookie)
                                                              ELSE c.list]
      <3> HIDE DEF k, r, q, valued, cookie, d
      <3> QED BY <1>1, <1>4, Zenon
    <2>2. c.at \in Nat /\ c.at >= 1 /\ c.at <= Len(s) + 1
      BY <1>4 DEF RoundOK
    <2>3. k \in c.at .. Len(s) + 1
      BY <2>2, SkipSpacesFacts
    <2> HIDE DEF k
    <2>4. k \in Nat /\ k >= 1 /\ k <= Len(s) + 1
      BY <2>2, <2>3
    <2>5. r \in k .. Len(s) + 1 /\ (r <= Len(s) => s[r] = Equals)
      BY <2>4, StrchrFacts
    <2> HIDE DEF r
    <2>6. r \in 1 .. Len(s) /\ r \in Nat /\ r >= 1 /\ r <= Len(s) + 1 /\ s[r] = Equals
      BY <1>4, <2>4, <2>5
    <2>7. q \in r .. Len(s) + 1 /\ (q <= Len(s) => s[q] = Semicolon)
      BY <2>6, StrchrFacts
    <2> HIDE DEF q
    <2>8. q # r
      BY <2>6, <2>7, Letters
    <2>9. q \in r + 1 .. Len(s) + 1 /\ q + 1 \in Nat
      BY <2>6, <2>7, <2>8
    <2>10. cookie \in CookieRecord /\ Within(cookie.value, s)
      <3>1. SubSeq(s, k, r - 1) \in Seq(Char) /\ SubSeq(s, r + 1, q - 1) \in Seq(Char)
        BY <2>4, <2>6, <2>9
      <3>2. Within(SubSeq(s, r + 1, q - 1), s)
        BY <2>6, <2>9, WithinFacts
      <3> QED BY <3>1, <3>2 DEF CookieRecord
    <2> HIDE DEF cookie
    <2>11. /\ d.list \in Seq(CookieRecord) /\ Len(d.list) <= MaxCookies
           /\ \A m \in 1 .. Len(d.list) : Within(d.list[m].value, s)
      <3>1. /\ c.list \in Seq(CookieRecord) /\ Len(c.list) <= MaxCookies
            /\ \A m \in 1 .. Len(c.list) : Within(c.list[m].value, s)
        BY DEF RoundOK
      <3>2. d.list = IF valued /\ Len(c.list) < MaxCookies THEN Append(c.list, cookie)
                                                           ELSE c.list
        BY <2>1
      <3>3. CASE valued /\ Len(c.list) < MaxCookies
        <4>1. d.list = Append(c.list, cookie)
          BY <3>2, <3>3
        <4>2. /\ d.list \in Seq(CookieRecord) /\ Len(d.list) = Len(c.list) + 1
              /\ d.list[Len(c.list) + 1] = cookie
              /\ \A m \in 1 .. Len(c.list) : d.list[m] = c.list[m]
          <5> HIDE DEF d
          <5> QED BY <2>10, <3>1, <4>1
        <4>3. Len(d.list) <= MaxCookies
          BY <3>1, <3>3, <4>2, FieldsAssumption
        <4>4. ASSUME NEW m \in 1 .. Len(d.list) PROVE Within(d.list[m].value, s)
          <5>1. m \in 1 .. Len(c.list) \/ m = Len(c.list) + 1
            <6> HIDE DEF d
            <6> QED BY <3>1, <4>2
          <5> HIDE DEF d
          <5> QED BY <2>10, <3>1, <4>2, <5>1
        <4> QED BY <4>2, <4>3, <4>4
      <3>4. CASE ~ (valued /\ Len(c.list) < MaxCookies)
        <4>1. d.list = c.list
          BY <3>2, <3>4
        <4> QED BY <3>1, <4>1
      <3> QED BY <3>3, <3>4
    <2>12. /\ d \in [at : Nat, ok : BOOLEAN, done : BOOLEAN, list : Seq(CookieRecord)]
           /\ ~ d.done => d.at \in 1 .. Len(s) + 1
      <3> DEFINE ends == q > Len(s) \/ (valued /\ Len(c.list) = MaxCookies)
                 li == d.list
      <3>1. d = [at |-> q + 1, ok |-> TRUE, done |-> ends, list |-> li]
        BY <2>1
      <3>2. ends \in BOOLEAN /\ (~ ends => ~ (q > Len(s)))
        OBVIOUS
      <3>3. ~ (q > Len(s)) => q + 1 \in 1 .. Len(s) + 1
        BY <2>6, <2>9
      <3>4. li \in Seq(CookieRecord)
        BY <2>11
      <3> HIDE DEF d, ends, li
      <3>5. d.at = q + 1 /\ d.done = ends
        BY <3>1
      <3>6. d \in [at : Nat, ok : BOOLEAN, done : BOOLEAN, list : Seq(CookieRecord)]
        BY <2>9, <3>1, <3>2, <3>4
      <3> QED BY <3>2, <3>3, <3>5, <3>6
    <2> HIDE DEF d
    <2>13. RoundOK(s, d)
      BY <2>11, <2>12 DEF RoundOK
    <2> QED BY <2>13 DEF d
  <1> QED BY <1>2, <1>3, <1>4

LEMMA ParsedFacts ==
  ASSUME NEW s \in Seq(Char)
  PROVE  RoundOK(s, ParseCookies(s))
  <1> DEFINE rounds == CookieRounds(s)
             n == Len(s) + 1
             P == {i \in Nat : i <= n => RoundOK(s, rounds[i])}
  <1>1. /\ rounds[0] = FirstRound /\ n \in Nat
        /\ \A i \in 1 .. n : rounds[i] = CookieRound(s, rounds[i - 1])
    BY RoundsFacts
  <1> HIDE DEF rounds, n
  <1>2. 0 \in P
    <2>1. <<>> \in Seq(CookieRecord) /\ Len(<<>>) = 0
      OBVIOUS
    <2>2. RoundOK(s, FirstRound)
      BY <2>1, FieldsAssumption DEF RoundOK, FirstRound
    <2> QED BY <1>1, <2>2
  <1>3. ASSUME NEW i \in Nat, i \in P PROVE i + 1 \in P
    <2> SUFFICES ASSUME i + 1 <= n PROVE RoundOK(s, rounds[i + 1])
      OBVIOUS
    <2>1. i + 1 \in 1 .. n /\ i + 1 - 1 = i /\ i <= n
      BY <1>1
    <2>2. rounds[i + 1] = CookieRound(s, rounds[i]) /\ RoundOK(s, rounds[i])
      BY <1>1, <1>3, <2>1
    <2> QED BY <2>2, RoundKeeps
  <1>4. Nat \subseteq P
    <2> HIDE DEF P
    <2> QED BY <1>2, <1>3, Induction
  <1>5. RoundOK(s, rounds[n])
    BY <1>1, <1>4
  <1> QED BY <1>5 DEF ParseCookies, rounds, n

-----------------------------------------------------------------------------
(* A round, for the header that a client writes for its jar.               *)
Writes(jar) ==
  /\ jar \in Seq(CookieRecord)
  /\ \A i \in 1 .. Len(jar) :
       /\ \A x \in 1 .. Len(jar[i].key) : jar[i].key[x] # Equals
       /\ Len(jar[i].key) > 0 => jar[i].key[1] # Blank
       /\ \A x \in 1 .. Len(jar[i].value) : jar[i].value[x] # Semicolon

LEMMA TwoTexts ==
  ASSUME NEW a \in Seq(Char), NEW b \in Seq(Char)
  PROVE  /\ a \o b \in Seq(Char) /\ Len(a \o b) = Len(a) + Len(b)
         /\ \A x \in 1 .. Len(a) : (a \o b)[x] = a[x]
         /\ \A x \in 1 .. Len(b) : (a \o b)[Len(a) + x] = b[x]
  OBVIOUS

(* Where the parts of a cookie are.                                        *)
PieceAt(text, u, e, key, value) ==
  LET b == Len(text)
      l == Len(key)
  IN  /\ u \in Seq(Char) /\ Len(u) = b + e + l + 1 + Len(value)
      /\ \A x \in 1 .. b : u[x] = text[x]
      /\ e = 2 => u[b + 1] = Semicolon /\ u[b + 2] = Blank
      /\ \A x \in 1 .. l : u[b + e + x] = key[x]
      /\ u[b + e + l + 1] = Equals
      /\ \A x \in 1 .. Len(value) : u[b + e + l + 1 + x] = value[x]

LEMMA SeparatorFacts ==
  ASSUME NEW i \in Nat
  PROVE  /\ Separator(i) \in Seq(Char) /\ Len(Separator(i)) = IF i = 1 THEN 0 ELSE 2
         /\ i # 1 => Separator(i)[1] = Semicolon /\ Separator(i)[2] = Blank
  <1>1. CASE i = 1
    <2>1. Separator(i) = <<>>
      BY <1>1, Zenon DEF Separator
    <2>2. <<>> \in Seq(Char) /\ Len(<<>>) = 0
      OBVIOUS
    <2>3. Separator(i) \in Seq(Char) /\ Len(Separator(i)) = 0
      BY <2>1, <2>2, Zenon
    <2> QED BY <1>1, <2>3
  <1>2. CASE i # 1
    <2>1. Separator(i) = <<Semicolon, Blank>>
      BY <1>2, Zenon DEF Separator, Semicolon, Blank
    <2>2. <<Semicolon, Blank>> \in Seq(Char) /\ Len(<<Semicolon, Blank>>) = 2
          /\ <<Semicolon, Blank>>[1] = Semicolon /\ <<Semicolon, Blank>>[2] = Blank
      BY Letters
    <2> QED BY <1>2, <2>1, <2>2
  <1> QED BY <1>1, <1>2

LEMMA SeparatorLen ==
  ASSUME NEW i \in Nat
  PROVE  Len(Separator(i)) \in {0, 2} /\ (Len(Separator(i)) = 0 <=> i = 1)
  <1> DEFINE e == Len(Separator(i))
  <1>1. e = IF i = 1 THEN 0 ELSE 2
    BY SeparatorFacts, Zenon
  <1> HIDE DEF e
  <1>2. e \in {0, 2} /\ (e = 0 <=> i = 1)
    BY <1>1
  <1> QED BY <1>2 DEF e

LEMMA PieceFacts ==
  ASSUME NEW jar, Writes(jar), NEW i \in 1 .. Len(jar), NEW text \in Seq(Char)
  PROVE  PieceAt(text, Piece(jar, i, text), Len(Separator(i)), jar[i].key, jar[i].value)
  <1> DEFINE sep == Separator(i)
             key == jar[i].key
             value == jar[i].value
             eq == <<Equals>>
             u1 == text \o sep
             u2 == u1 \o key
             u3 == u2 \o eq
             u == u3 \o value
             b == Len(text)
             e == Len(sep)
             l == Len(key)
  <1>1. u = Piece(jar, i, text)
    BY Zenon DEF Piece, Equals
  <1>2. key \in Seq(Char) /\ value \in Seq(Char) /\ i \in Nat
    <2>1. jar \in Seq(CookieRecord)
      BY DEF Writes
    <2>2. jar[i] \in CookieRecord
      BY <2>1
    <2> QED BY <2>1, <2>2 DEF CookieRecord
  <1>3. /\ sep \in Seq(Char) /\ e \in Nat
        /\ e = 2 => sep[1] = Semicolon /\ sep[2] = Blank
    <2>1. /\ sep \in Seq(Char) /\ Len(sep) = IF i = 1 THEN 0 ELSE 2
          /\ i # 1 => sep[1] = Semicolon /\ sep[2] = Blank
      BY <1>2, SeparatorFacts, Zenon
    <2> HIDE DEF sep
    <2> QED BY <2>1
  <1>4. eq \in Seq(Char) /\ Len(eq) = 1 /\ eq[1] = Equals
    BY Letters
  <1> HIDE DEF sep, key, value, eq
  <1>5. /\ u1 \in Seq(Char) /\ Len(u1) = b + e
        /\ \A x \in 1 .. b : u1[x] = text[x]
        /\ \A x \in 1 .. e : u1[b + x] = sep[x]
    BY <1>3, TwoTexts
  <1> HIDE DEF u1
  <1>6. /\ u2 \in Seq(Char) /\ Len(u2) = Len(u1) + l
        /\ \A x \in 1 .. Len(u1) : u2[x] = u1[x]
        /\ \A x \in 1 .. l : u2[Len(u1) + x] = key[x]
    BY <1>2, <1>5, TwoTexts
  <1> HIDE DEF u2
  <1>7. /\ u3 \in Seq(Char) /\ Len(u3) = Len(u2) + 1
        /\ \A x \in 1 .. Len(u2) : u3[x] = u2[x]
        /\ \A x \in 1 .. Len(eq) : u3[Len(u2) + x] = eq[x]
    <2>1. /\ u3 \in Seq(Char) /\ Len(u3) = Len(u2) + Len(eq)
          /\ \A x \in 1 .. Len(u2) : u3[x] = u2[x]
          /\ \A x \in 1 .. Len(eq) : u3[Len(u2) + x] = eq[x]
      BY <1>4, <1>6, TwoTexts, Zenon
    <2> HIDE DEF u3
    <2> QED BY <1>4, <2>1
  <1> HIDE DEF u3
  <1>8. /\ u \in Seq(Char) /\ Len(u) = Len(u3) + Len(value)
        /\ \A x \in 1 .. Len(u3) : u[x] = u3[x]
        /\ \A x \in 1 .. Len(value) : u[Len(u3) + x] = value[x]
    BY <1>2, <1>7, TwoTexts
  <1> HIDE DEF u
  <1>9. b \in Nat /\ e \in Nat /\ l \in Nat /\ Len(value) \in Nat
    BY <1>2, <1>3
  <1> HIDE DEF b, e, l
  <1>10. /\ Len(u1) = b + e /\ Len(u2) = b + e + l /\ Len(u3) = b + e + l + 1
         /\ Len(u) = b + e + l + 1 + Len(value)
    BY <1>5, <1>6, <1>7, <1>8, <1>9
  <1>11. ASSUME NEW x \in 1 .. b PROVE u[x] = text[x]
    <2>1. x \in 1 .. Len(u1) /\ x \in 1 .. Len(u2) /\ x \in 1 .. Len(u3)
      BY <1>9, <1>10
    <2> QED BY <1>5, <1>6, <1>7, <1>8, <2>1, SMTT(60)
  <1>12. ASSUME e = 2 PROVE u[b + 1] = Semicolon /\ u[b + 2] = Blank
    <2>1. /\ b + 1 \in 1 .. Len(u1) /\ b + 1 \in 1 .. Len(u2) /\ b + 1 \in 1 .. Len(u3)
          /\ b + 2 \in 1 .. Len(u1) /\ b + 2 \in 1 .. Len(u2) /\ b + 2 \in 1 .. Len(u3)
          /\ 1 \in 1 .. e /\ 2 \in 1 .. e
      BY <1>9, <1>10, <1>12
    <2>2. u1[b + 1] = sep[1] /\ u1[b + 2] = sep[2]
      BY <1>5, <2>1
    <2>3. u[b + 1] = u1[b + 1] /\ u[b + 2] = u1[b + 2]
      BY <1>6, <1>7, <1>8, <2>1, ZenonT(60)
    <2> QED BY <1>3, <1>12, <2>2, <2>3
  <1>13. ASSUME NEW x \in 1 .. l PROVE u[b + e + x] = key[x]
    <2>1. b + e + x \in 1 .. Len(u2) /\ b + e + x \in 1 .. Len(u3) /\ Len(u1) + x = b + e + x
      BY <1>9, <1>10
    <2> QED BY <1>6, <1>7, <1>8, <2>1, SMTT(60)
  <1>14. u[b + e + l + 1] = Equals
    <2>1. b + e + l + 1 \in 1 .. Len(u3) /\ Len(u2) + 1 = b + e + l + 1 /\ 1 \in 1 .. Len(eq)
      BY <1>4, <1>9, <1>10
    <2> QED BY <1>4, <1>7, <1>8, <2>1
  <1>15. ASSUME NEW x \in 1 .. Len(value) PROVE u[b + e + l + 1 + x] = value[x]
    BY <1>8, <1>10
  <1>16. PieceAt(text, u, e, key, value)
    BY <1>8, <1>10, <1>11, <1>12, <1>13, <1>14, <1>15 DEF PieceAt, b, l
  <1> QED BY <1>1, <1>16 DEF e, sep, key, value

LEMMA SumGrows ==
  ASSUME NEW a \in Nat, NEW b \in Nat, NEW c \in Nat, NEW d \in Nat
  PROVE  a + b + c + 1 + d \in Nat /\ a + b + c + 1 + d >= a + 1
  OBVIOUS

LEMMA TextFacts ==
  ASSUME NEW jar, Writes(jar)
  PROVE  LET t == WrittenTo(jar)
         IN  /\ Len(jar) \in Nat
             /\ \A i \in 0 .. Len(jar) : t[i] \in Seq(Char) /\ Len(t[i]) >= i
             /\ \A i \in 1 .. Len(jar) :
                  PieceAt(t[i - 1], t[i], Len(Separator(i)), jar[i].key, jar[i].value)
  <1> DEFINE t == WrittenTo(jar)
             n == Len(jar)
             Is(i) == PieceAt(t[i - 1], t[i], Len(Separator(i)), jar[i].key, jar[i].value)
             P == {i \in Nat : i <= n => /\ t[i] \in Seq(Char) /\ Len(t[i]) >= i
                                         /\ i > 0 => Is(i)}
  <1>1. n \in Nat
    BY DEF Writes
  <1>2. t[0] = <<>> /\ \A i \in 1 .. n : t[i] = Piece(jar, i, t[i - 1])
    BY <1>1, WrittenFacts
  <1> HIDE DEF t, Is
  <1>3. 0 \in P
    <2>1. <<>> \in Seq(Char) /\ Len(<<>>) = 0
      OBVIOUS
    <2>2. t[0] \in Seq(Char) /\ Len(t[0]) = 0
      BY <1>2, <2>1, Zenon
    <2> QED BY <2>2
  <1>4. ASSUME NEW i \in Nat, i \in P PROVE i + 1 \in P
    <2> SUFFICES ASSUME i + 1 <= n
                 PROVE  t[i + 1] \in Seq(Char) /\ Len(t[i + 1]) >= i + 1 /\ Is(i + 1)
      OBVIOUS
    <2>1. i + 1 \in 1 .. n /\ i + 1 - 1 = i /\ i <= n
      BY <1>1
    <2>2. t[i] \in Seq(Char) /\ Len(t[i]) >= i
      BY <1>4, <2>1
    <2>3. t[i + 1] = Piece(jar, i + 1, t[i])
      BY <1>2, <2>1
    <2>4. Is(i + 1)
      <3>1. PieceAt(t[i], Piece(jar, i + 1, t[i]), Len(Separator(i + 1)),
                    jar[i + 1].key, jar[i + 1].value)
        BY <2>1, <2>2, PieceFacts, Zenon
      <3> QED BY <2>1, <2>3, <3>1 DEF Is
    <2>5. /\ jar[i + 1].key \in Seq(Char) /\ jar[i + 1].value \in Seq(Char)
          /\ Len(Separator(i + 1)) \in Nat
      <3>1. jar[i + 1] \in CookieRecord
        BY <2>1 DEF Writes
      <3>2. Separator(i + 1) \in Seq(Char)
        BY SeparatorFacts
      <3> QED BY <3>1, <3>2 DEF CookieRecord
    <2>6. /\ t[i + 1] \in Seq(Char)
          /\ Len(t[i + 1]) = Len(t[i]) + Len(Separator(i + 1)) + Len(jar[i + 1].key) + 1
                             + Len(jar[i + 1].value)
      BY <2>1, <2>4 DEF Is, PieceAt
    <2>7. Len(t[i + 1]) >= i + 1
      <3>1. /\ Len(t[i]) \in Nat /\ Len(Separator(i + 1)) \in Nat
            /\ Len(jar[i + 1].key) \in Nat /\ Len(jar[i + 1].value) \in Nat
        BY <2>2, <2>5, SMTT(60)
      <3>2. Len(t[i + 1]) \in Nat /\ Len(t[i + 1]) >= Len(t[i]) + 1
        <4> DEFINE a == Len(t[i])
                   b == Len(Separator(i + 1))
                   c == Len(jar[i + 1].key)
                   d == Len(jar[i + 1].value)
        <4>1. a \in Nat /\ b \in Nat /\ c \in Nat /\ d \in Nat /\ Len(t[i + 1]) = a + b + c + 1 + d
          BY <2>6, <3>1
        <4> HIDE DEF a, b, c, d
        <4>2. Len(t[i + 1]) \in Nat /\ Len(t[i + 1]) >= a + 1
          BY <4>1, SumGrows
        <4> QED BY <4>2 DEF a
      <3> QED BY <2>2, <3>1, <3>2
    <2> QED BY <2>4, <2>6, <2>7
  <1>5. Nat \subseteq P
    <2> HIDE DEF P
    <2> QED BY <1>3, <1>4, Induction
  <1>6. \A i \in 0 .. n : t[i] \in Seq(Char) /\ Len(t[i]) >= i
    BY <1>1, <1>5
  <1>7. \A i \in 1 .. n : Is(i)
    BY <1>1, <1>5
  <1> QED BY <1>1, <1>6, <1>7 DEF t, Is

(* What was written stays.                                                 *)
LEMMA TextStays ==
  ASSUME NEW jar, Writes(jar), NEW i \in 0 .. Len(jar)
  PROVE  LET t == WrittenTo(jar)
             s == Written(jar)
         IN  /\ s \in Seq(Char) /\ Len(t[i]) <= Len(s)
             /\ \A x \in 1 .. Len(t[i]) : s[x] = t[i][x]
  <1> DEFINE t == WrittenTo(jar)
             n == Len(jar)
             Stays(j) == Len(t[i]) <= Len(t[j]) /\ \A x \in 1 .. Len(t[i]) : t[j][x] = t[i][x]
             P == {k \in Nat : i + k <= n => Stays(i + k)}
  <1>1. /\ n \in Nat /\ \A j \in 0 .. n : t[j] \in Seq(Char)
        /\ \A j \in 1 .. n : PieceAt(t[j - 1], t[j], Len(Separator(j)), jar[j].key, jar[j].value)
    BY TextFacts, Zenon
  <1> HIDE DEF t, n
  <1>2. i \in 0 .. n /\ i \in Nat
    BY <1>1 DEF n
  <1>3. 0 \in P
    <2>1. Stays(i)
      BY <1>1, <1>2
    <2>2. i + 0 = i
      BY <1>2
    <2> HIDE DEF Stays
    <2> QED BY <2>1, <2>2
  <1>4. ASSUME NEW k \in Nat, k \in P PROVE k + 1 \in P
    <2> SUFFICES ASSUME i + (k + 1) <= n PROVE Stays(i + (k + 1))
      OBVIOUS
    <2> DEFINE j == i + (k + 1)
    <2>1. j \in 1 .. n /\ j - 1 = i + k /\ i + k <= n /\ i + k \in 0 .. n /\ j \in 0 .. n
      BY <1>1, <1>2
    <2>2. Stays(j - 1)
      BY <1>4, <2>1
    <2> HIDE DEF j
    <2>3. PieceAt(t[j - 1], t[j], Len(Separator(j)), jar[j].key, jar[j].value)
      BY <1>1, <2>1
    <2>4. /\ jar[j].key \in Seq(Char) /\ jar[j].value \in Seq(Char)
          /\ Len(Separator(j)) \in Nat
      <3>1. j \in 1 .. Len(jar) /\ j \in Nat
        BY <1>1, <2>1 DEF n
      <3>2. jar \in Seq(CookieRecord)
        BY DEF Writes
      <3>3. jar[j] \in CookieRecord
        BY <3>1, <3>2
      <3>4. Separator(j) \in Seq(Char)
        BY <3>1, SeparatorFacts
      <3> QED BY <3>3, <3>4 DEF CookieRecord
    <2>5. /\ Len(t[j]) = Len(t[j - 1]) + Len(Separator(j)) + Len(jar[j].key) + 1 + Len(jar[j].value)
          /\ \A x \in 1 .. Len(t[j - 1]) : t[j][x] = t[j - 1][x]
      BY <2>3 DEF PieceAt
    <2>6. Len(t[j - 1]) \in Nat /\ Len(t[i]) \in Nat
      BY <1>1, <1>2, <2>1
    <2>7. Len(t[i]) <= Len(t[j])
      <3>1. Len(jar[j].key) \in Nat /\ Len(jar[j].value) \in Nat
        BY <2>4
      <3>2. Len(t[i]) <= Len(t[j - 1])
        BY <2>2
      <3>3. Len(t[j]) \in Nat /\ Len(t[j]) >= Len(t[j - 1]) + 1
        <4> DEFINE a == Len(t[j - 1])
                   b == Len(Separator(j))
                   c == Len(jar[j].key)
                   d == Len(jar[j].value)
        <4>1. a \in Nat /\ b \in Nat /\ c \in Nat /\ d \in Nat /\ Len(t[j]) = a + b + c + 1 + d
          BY <2>4, <2>5, <2>6, <3>1
        <4> HIDE DEF a, b, c, d
        <4>2. Len(t[j]) \in Nat /\ Len(t[j]) >= a + 1
          BY <4>1, SumGrows
        <4> QED BY <4>2 DEF a
      <3> QED BY <2>6, <3>2, <3>3
    <2>8. ASSUME NEW x \in 1 .. Len(t[i]) PROVE t[j][x] = t[i][x]
      <3>1. x \in 1 .. Len(t[j - 1])
        BY <2>2, <2>6
      <3> QED BY <2>2, <2>5, <3>1
    <2> QED BY <2>7, <2>8 DEF j
  <1>5. Nat \subseteq P
    <2> HIDE DEF P
    <2> QED BY <1>3, <1>4, Induction
  <1>6. n - i \in Nat /\ i + (n - i) = n
    BY <1>1, <1>2
  <1>7. Stays(n)
    <2> HIDE DEF Stays
    <2>1. n - i \in P
      BY <1>5, <1>6
    <2>2. i + (n - i) <= n
      BY <1>1, <1>6
    <2> QED BY <1>6, <2>1, <2>2
  <1>8. Written(jar) = t[n] /\ t[n] \in Seq(Char)
    BY <1>1 DEF Written, t, n
  <1> QED BY <1>7, <1>8 DEF t

(* The marks around a cookie are the ones the parser finds.                *)
Marks(s, p, k, r, q) ==
  /\ p \in Nat /\ p >= 1
  /\ k \in p .. Len(s) + 1 /\ Past(s, Blank, p, k)
  /\ r \in k .. Len(s) /\ s[r] = Equals /\ \A j \in k .. r - 1 : s[j] # Equals
  /\ q \in r .. Len(s) + 1 /\ (q <= Len(s) => s[q] = Semicolon)
  /\ \A j \in r .. q - 1 : s[j] # Semicolon

LEMMA PartIs ==
  ASSUME NEW s \in Seq(Char), NEW t \in Seq(Char), NEW a \in Nat, a + Len(t) <= Len(s),
         \A x \in 1 .. Len(t) : s[a + x] = t[x], NEW z, z = a + Len(t)
  PROVE  SubSeq(s, a + 1, z) = t
  <1> DEFINE u == SubSeq(s, a + 1, z)
             m == Len(t)
  <1>1. m \in Nat /\ a + m <= Len(s) /\ Len(s) \in Nat /\ z = a + m
    OBVIOUS
  <1> HIDE DEF m
  <1>2. u \in Seq(Char) /\ Len(u) = m /\ \A x \in 1 .. m : u[x] = s[a + x]
    BY <1>1
  <1> HIDE DEF u
  <1>3. u = t
    BY <1>2, SameText DEF m
  <1> QED BY <1>3 DEF u

(* A cookie behind b others' characters and e of a separator.              *)
Stands(s, b, e, key, value, q) ==
  /\ e = 0 => b = 0
  /\ b + e + Len(key) + 1 + Len(value) <= Len(s)
  /\ e = 2 => s[b + 2] = Blank
  /\ \A x \in 1 .. Len(key) : s[b + e + x] = key[x] /\ key[x] # Equals
  /\ Len(key) > 0 => key[1] # Blank
  /\ s[b + e + Len(key) + 1] = Equals
  /\ \A x \in 1 .. Len(value) : /\ s[b + e + Len(key) + 1 + x] = value[x]
                                /\ value[x] # Semicolon
  /\ q = b + e + Len(key) + 2 + Len(value)
  /\ q <= Len(s) => s[q] = Semicolon

(* The marks of a cookie, and what stands between them.                    *)
Marked(s, b, e, key, value, q) ==
  LET p == IF e = 0 THEN 1 ELSE b + 2
      k == b + e + 1
      r == b + e + 1 + Len(key)
  IN  /\ Marks(s, p, k, r, q) /\ q = r + 1 + Len(value)
      /\ SubSeq(s, k, r - 1) = key /\ SubSeq(s, r + 1, q - 1) = value

LEMMA MarksFacts ==
  ASSUME NEW s \in Seq(Char), NEW key \in Seq(Char), NEW value \in Seq(Char),
         NEW b \in Nat, NEW e \in {0, 2}, NEW q \in Nat, Stands(s, b, e, key, value, q)
  PROVE  Marked(s, b, e, key, value, q)
  <1> DEFINE p == IF e = 0 THEN 1 ELSE b + 2
             k == b + e + 1
             l == Len(key)
             r == k + l
             v == Len(value)
             n == Len(s)
  <1>1. l \in Nat /\ v \in Nat /\ n \in Nat
    OBVIOUS
  <1> HIDE DEF l, v, n
  <1>0. b + e + l + 1 + v <= n /\ q = b + e + l + 2 + v /\ (e = 0 => b = 0)
    BY DEF l, v, n, Stands
  <1>2. /\ p \in Nat /\ p >= 1 /\ k \in Nat /\ r \in Nat /\ q \in Nat
        /\ k \in p .. n + 1 /\ r \in k .. n /\ q \in r .. n + 1 /\ q = r + 1 + v
        /\ r = b + e + l + 1
    BY <1>0, <1>1
  <1>3. \A x \in 1 .. l : s[(k - 1) + x] = key[x] /\ key[x] # Equals
    <2>1. k - 1 = b + e
      BY b + e \in Nat
    <2> HIDE DEF k
    <2> QED BY <2>1 DEF l, Stands
  <1>4. s[r] = Equals
    BY <1>2 DEF l, Stands
  <1>5. \A x \in 1 .. v : s[r + x] = value[x] /\ value[x] # Semicolon
    <2> HIDE DEF r
    <2> QED BY <1>2 DEF l, v, Stands
  <1>6. l > 0 => key[1] # Blank
    BY DEF l, Stands
  <1>7. (e = 2 => p = b + 2 /\ k = b + 3) /\ (e = 0 => p = 1 /\ k = 1)
    BY <1>0
  <1> HIDE DEF r
  <1>8. \A j \in k .. r - 1 : s[j] # Equals
    <2> SUFFICES ASSUME NEW j \in k .. r - 1 PROVE s[j] # Equals
      OBVIOUS
    <2>1. j - (k - 1) \in 1 .. l /\ (k - 1) + (j - (k - 1)) = j
      BY <1>1, <1>2 DEF r
    <2> HIDE DEF k
    <2> QED BY <1>3, <2>1
  <1>9. \A j \in r .. q - 1 : s[j] # Semicolon
    <2> SUFFICES ASSUME NEW j \in r .. q - 1 PROVE s[j] # Semicolon
      OBVIOUS
    <2>1. CASE j = r
      BY <1>4, <2>1, Letters
    <2>2. CASE j # r
      <3>1. j - r \in 1 .. v /\ r + (j - r) = j
        BY <1>1, <1>2, <2>2
      <3> QED BY <1>5, <3>1
    <2> QED BY <2>1, <2>2
  <1>10. s[k] # Blank
    <2>1. CASE l > 0
      <3>1. 1 \in 1 .. l /\ (k - 1) + 1 = k
        BY <1>1, <2>1
      <3> HIDE DEF k
      <3> QED BY <1>3, <1>6, <2>1, <3>1
    <2>2. CASE l = 0
      <3>1. r = k
        BY <2>2 DEF r
      <3> HIDE DEF k
      <3> QED BY <1>4, <3>1, Letters
    <2> QED BY <1>1, <2>1, <2>2
  <1>11. \A j \in p .. k - 1 : s[j] = Blank
    <2> SUFFICES ASSUME NEW j \in p .. k - 1 PROVE s[j] = Blank
      OBVIOUS
    <2>1. e = 2 /\ j = b + 2
      BY <1>7
    <2> QED BY <2>1 DEF Stands
  <1> HIDE DEF p, k
  <1>12. Marks(s, p, k, r, q)
    <2>1. q <= Len(s) => s[q] = Semicolon
      BY DEF Stands
    <2> QED BY <1>2, <1>4, <1>8, <1>9, <1>10, <1>11, <2>1 DEF Marks, Past, n
  <1>13. SubSeq(s, k, r - 1) = key
    <2>1. k - 1 \in Nat /\ (k - 1) + 1 = k /\ (k - 1) + l = r - 1 /\ (k - 1) + l <= n
      BY <1>1, <1>2 DEF r
    <2> DEFINE a == k - 1
               z == r - 1
    <2>2. /\ a \in Nat /\ a + 1 = k /\ z = a + l /\ a + l <= n
          /\ \A x \in 1 .. l : s[a + x] = key[x]
      BY <1>3, <2>1
    <2> HIDE DEF a, z
    <2>3. SubSeq(s, a + 1, z) = key
      BY <2>2, PartIs DEF l, n
    <2> QED BY <2>2, <2>3 DEF z
  <1>14. SubSeq(s, r + 1, q - 1) = value
    <2>1. r + v = q - 1 /\ r + v <= n
      BY <1>1, <1>2
    <2>2. r \in Nat /\ \A x \in 1 .. v : s[r + x] = value[x]
      BY <1>2, <1>5
    <2> DEFINE z == q - 1
    <2>3. z = r + v /\ r + v <= n
      BY <2>1
    <2> HIDE DEF z, r
    <2>4. SubSeq(s, r + 1, z) = value
      BY <2>2, <2>3, PartIs DEF v, n
    <2> QED BY <2>4 DEF z
  <1>15. q = r + 1 + v
    BY <1>2
  <1> QED BY <1>12, <1>13, <1>14, <1>15, Zenon DEF Marked, p, k, r, l, v

(* Where the parser looks for cookie i.                                    *)
From(t, i) == IF i = 1 THEN 1 ELSE Len(t[i - 1]) + 2

LEMMA OneBehind ==
  ASSUME NEW a \in Nat, NEW k \in Nat, NEW v \in Nat, NEW n \in Nat, NEW m, m = a + 2 + k + 1 + v,
         m <= n
  PROVE  a + 1 \in 1 .. m /\ a + 1 <= n
  OBVIOUS

LEMMA StandsFacts ==
  ASSUME NEW jar, Writes(jar), NEW i \in 1 .. Len(jar)
  PROVE  LET t == WrittenTo(jar)
             s == Written(jar)
         IN  /\ Stands(s, Len(t[i - 1]), Len(Separator(i)), jar[i].key, jar[i].value, Len(t[i]) + 1)
             /\ Len(t[i]) + 1 > Len(s) <=> i = Len(jar)
             /\ s \in Seq(Char) /\ t[i - 1] \in Seq(Char) /\ t[i] \in Seq(Char)
             /\ jar[i].key \in Seq(Char) /\ jar[i].value \in Seq(Char)
  <1> DEFINE t == WrittenTo(jar)
             s == Written(jar)
             n == Len(jar)
             e == Len(Separator(i))
             key == jar[i].key
             value == jar[i].value
             b == Len(t[i - 1])
             q == Len(t[i]) + 1
  <1>1. /\ n \in Nat /\ \A j \in 0 .. n : t[j] \in Seq(Char)
        /\ \A j \in 1 .. n : PieceAt(t[j - 1], t[j], Len(Separator(j)), jar[j].key, jar[j].value)
    BY TextFacts, Zenon
  <1>2. s = t[n]
    BY DEF Written
  <1>3. \A j \in 0 .. n : Len(t[j]) <= Len(s) /\ \A x \in 1 .. Len(t[j]) : s[x] = t[j][x]
    BY TextStays, Zenon
  <1>4. /\ \A x \in 1 .. Len(key) : key[x] # Equals
        /\ Len(key) > 0 => key[1] # Blank
        /\ \A x \in 1 .. Len(value) : value[x] # Semicolon
        /\ jar[i] \in CookieRecord
    BY DEF Writes
  <1>5. key \in Seq(Char) /\ value \in Seq(Char)
    BY <1>4 DEF CookieRecord
  <1>6. e \in {0, 2} /\ (e = 0 <=> i = 1)
    <2>1. i \in Nat
      OBVIOUS
    <2> QED BY <2>1, SeparatorLen, Zenon
  <1>7. t[0] = <<>>
    BY <1>1, WrittenFacts
  <1>8. i \in 0 .. n /\ i - 1 \in 0 .. n /\ i \in 1 .. n /\ n \in 0 .. n
    BY <1>1
  <1>9. t[i] \in Seq(Char) /\ t[i - 1] \in Seq(Char) /\ s \in Seq(Char)
    BY <1>1, <1>2, <1>8
  <1>10. PieceAt(t[i - 1], t[i], e, key, value)
    BY <1>1, <1>8
  <1>11. Len(t[i]) <= Len(s) /\ \A x \in 1 .. Len(t[i]) : s[x] = t[i][x]
    BY <1>3, <1>8
  <1>12. /\ q <= Len(s) => s[q] = Semicolon
         /\ q > Len(s) <=> i = n
    <2>1. CASE i = n
      BY <1>2, <1>9, <2>1
    <2>2. CASE i # n
      <3>1. i + 1 \in 1 .. n /\ i + 1 \in 0 .. n /\ (i + 1) - 1 = i /\ i + 1 \in Nat /\ i + 1 # 1
        BY <1>8, <2>2
      <3>2. PieceAt(t[i], t[i + 1], Len(Separator(i + 1)), jar[i + 1].key, jar[i + 1].value)
        BY <1>1, <3>1
      <3>3. Len(Separator(i + 1)) = 2
        BY <3>1, SeparatorFacts
      <3>4. jar[i + 1] \in CookieRecord
        BY <3>1 DEF Writes
      <3>5. Len(jar[i + 1].key) \in Nat /\ Len(jar[i + 1].value) \in Nat
        BY <3>4 DEF CookieRecord
      <3>6. /\ t[i + 1] \in Seq(Char)
            /\ Len(t[i + 1]) = Len(t[i]) + 2 + Len(jar[i + 1].key) + 1 + Len(jar[i + 1].value)
            /\ t[i + 1][Len(t[i]) + 1] = Semicolon
        BY <3>2, <3>3 DEF PieceAt
      <3>7. Len(t[i + 1]) <= Len(s) /\ \A x \in 1 .. Len(t[i + 1]) : s[x] = t[i + 1][x]
        BY <1>3, <3>1
      <3>8. q \in 1 .. Len(t[i + 1]) /\ q <= Len(s)
        <4>1. Len(t[i]) \in Nat /\ Len(s) \in Nat
          BY <1>9
        <4> QED BY <3>5, <3>6, <3>7, <4>1, OneBehind
      <3>9. s[q] = Semicolon
        BY <3>6, <3>7, <3>8
      <3> QED BY <1>9, <2>2, <3>8, <3>9
    <2> QED BY <2>1, <2>2
  <1> HIDE DEF t, s, n, e, key, value
  <1>13. /\ Len(key) \in Nat /\ Len(value) \in Nat /\ b \in Nat /\ Len(s) \in Nat
         /\ Len(t[i]) = b + e + Len(key) + 1 + Len(value)
    BY <1>5, <1>9, <1>10, SMTT(60) DEF PieceAt
  <1>14. e = 0 => b = 0
    BY <1>6, <1>7
  <1>15. e = 2 => s[b + 2] = Blank
    <2> SUFFICES ASSUME e = 2 PROVE s[b + 2] = Blank
      OBVIOUS
    <2>1. t[i][b + 2] = Blank
      BY <1>10 DEF PieceAt
    <2>2. b + 2 \in 1 .. Len(t[i])
      BY <1>13
    <2> QED BY <1>11, <2>1, <2>2
  <1>16. \A x \in 1 .. Len(key) : s[b + e + x] = key[x]
    <2> SUFFICES ASSUME NEW x \in 1 .. Len(key) PROVE s[b + e + x] = key[x]
      OBVIOUS
    <2>1. t[i][b + e + x] = key[x]
      BY <1>10 DEF PieceAt
    <2>2. b + e + x \in 1 .. Len(t[i])
      BY <1>6, <1>13
    <2> QED BY <1>11, <2>1, <2>2
  <1>17. s[b + e + Len(key) + 1] = Equals
    <2>1. t[i][b + e + Len(key) + 1] = Equals
      BY <1>10 DEF PieceAt
    <2>2. b + e + Len(key) + 1 \in 1 .. Len(t[i])
      BY <1>6, <1>13
    <2> QED BY <1>11, <2>1, <2>2
  <1>18. \A x \in 1 .. Len(value) : s[b + e + Len(key) + 1 + x] = value[x]
    <2> SUFFICES ASSUME NEW x \in 1 .. Len(value) PROVE s[b + e + Len(key) + 1 + x] = value[x]
      OBVIOUS
    <2>1. t[i][b + e + Len(key) + 1 + x] = value[x]
      BY <1>10 DEF PieceAt
    <2>2. b + e + Len(key) + 1 + x \in 1 .. Len(t[i])
      BY <1>6, <1>13
    <2> QED BY <1>11, <2>1, <2>2
  <1>19. q = b + e + Len(key) + 2 + Len(value) /\ b + e + Len(key) + 1 + Len(value) <= Len(s)
    BY <1>6, <1>11, <1>13
  <1>20. Stands(s, b, e, key, value, q)
    BY <1>4, <1>12, <1>14, <1>15, <1>16, <1>17, <1>18, <1>19 DEF Stands
  <1> QED BY <1>5, <1>9, <1>12, <1>20 DEF t, s, n, e, key, value

LEMMA RoundReads ==
  ASSUME NEW jar, Writes(jar), NEW i \in 1 .. Len(jar), NEW c, ~ c.done,
         c.at = From(WrittenTo(jar), i)
  PROVE  CookieRound(Written(jar), c) =
           [at |-> From(WrittenTo(jar), i + 1), ok |-> TRUE,
            done |-> i = Len(jar) \/ (Counts(jar, i) /\ Len(c.list) = MaxCookies),
            list |-> IF Counts(jar, i) /\ Len(c.list) < MaxCookies
                       THEN Append(c.list, [key |-> jar[i].key, value |-> jar[i].value])
                       ELSE c.list]
  <1> DEFINE t == WrittenTo(jar)
             s == Written(jar)
             e == Len(Separator(i))
             key == jar[i].key
             value == jar[i].value
             b == Len(t[i - 1])
             q == Len(t[i]) + 1
             p == IF e = 0 THEN 1 ELSE b + 2
             k == b + e + 1
             r == b + e + 1 + Len(key)
             valued == q # r + 1 \/ q > Len(s)
             cookie == [key |-> SubSeq(s, k, r - 1), value |-> SubSeq(s, r + 1, q - 1)]
  <1>1. /\ Stands(s, b, e, key, value, q)
        /\ q > Len(s) <=> i = Len(jar)
        /\ s \in Seq(Char) /\ t[i - 1] \in Seq(Char) /\ t[i] \in Seq(Char)
        /\ key \in Seq(Char) /\ value \in Seq(Char)
    BY StandsFacts, Zenon
  <1>2. e \in {0, 2} /\ (e = 0 <=> i = 1)
    <2>1. i \in Nat
      OBVIOUS
    <2> QED BY <2>1, SeparatorLen, Zenon
  <1>3. b \in Nat /\ q \in Nat
    BY <1>1
  <1>4. c.at = p /\ q + 1 = From(t, i + 1)
    <2>1. i + 1 # 1 /\ (i + 1) - 1 = i
      OBVIOUS
    <2>2. From(t, i + 1) = Len(t[i]) + 2
      BY <2>1 DEF From
    <2>3. q + 1 = Len(t[i]) + 2
      BY <1>1
    <2> QED BY <1>2, <2>2, <2>3 DEF From
  <1> HIDE DEF t, s, e, key, value, b, q
  <1>5. Marks(s, p, k, r, q) /\ q = r + 1 + Len(value) /\ SubSeq(s, k, r - 1) = key
        /\ SubSeq(s, r + 1, q - 1) = value
    <2>1. Marked(s, b, e, key, value, q)
      BY <1>1, <1>2, <1>3, MarksFacts
    <2> QED BY <2>1, Zenon DEF Marked
  <1>6. valued <=> Counts(jar, i)
    <2>1. Len(value) = 0 <=> value = <<>>
      BY <1>1
    <2>2. Len(value) \in Nat /\ Len(key) \in Nat
      BY <1>1
    <2>3. q # r + 1 <=> Len(value) # 0
      <3>1. r \in Nat
        BY <1>2, <1>3, <2>2
      <3> HIDE DEF r
      <3> QED BY <1>5, <2>2, <3>1
    <2>4. Counts(jar, i) <=> value # <<>> \/ i = Len(jar)
      BY DEF Counts, value
    <2> QED BY <1>1, <2>1, <2>3, <2>4
  <1> HIDE DEF p, k, r
  <1>7. CookieRound(s, c) =
          [at |-> q + 1, ok |-> TRUE,
           done |-> q > Len(s) \/ (valued /\ Len(c.list) = MaxCookies),
           list |-> IF valued /\ Len(c.list) < MaxCookies THEN Append(c.list, cookie)
                                                          ELSE c.list]
    <2>1. /\ p \in Nat /\ p >= 1
          /\ k \in p .. Len(s) + 1 /\ Past(s, Blank, p, k)
          /\ r \in k .. Len(s) /\ s[r] = Equals /\ \A j \in k .. r - 1 : s[j] # Equals
          /\ q \in r .. Len(s) + 1 /\ (q <= Len(s) => s[q] = Semicolon)
          /\ \A j \in r .. q - 1 : s[j] # Semicolon
      BY <1>5, Zenon DEF Marks
    <2> QED BY <1>1, <1>4, <2>1, RoundAt, ZenonT(60)
  <1>8. cookie = [key |-> key, value |-> value]
    BY <1>5
  <1> HIDE DEF valued, cookie
  <1>9. (q > Len(s) \/ (valued /\ Len(c.list) = MaxCookies))
          = (i = Len(jar) \/ (Counts(jar, i) /\ Len(c.list) = MaxCookies))
    BY <1>1, <1>6
  <1>10. (IF valued /\ Len(c.list) < MaxCookies THEN Append(c.list, cookie) ELSE c.list)
         = (IF Counts(jar, i) /\ Len(c.list) < MaxCookies
              THEN Append(c.list, [key |-> key, value |-> value]) ELSE c.list)
    BY <1>6, <1>8
  <1> QED BY <1>4, <1>7, <1>9, <1>10, Zenon DEF t, s, key, value

-----------------------------------------------------------------------------
(* Which of the cookies that count cookie i is, or the last before it.     *)
Ordinal(jar, i) == Cardinality({ j \in 1 .. i : Counts(jar, j) })

LEMMA OrdinalFacts ==
  ASSUME NEW jar
  PROVE  /\ Ordinal(jar, 0) = 0
         /\ \A i \in Nat : Ordinal(jar, i) \in Nat
         /\ \A i \in Nat : Ordinal(jar, i + 1) = IF Counts(jar, i + 1) THEN Ordinal(jar, i) + 1
                                                                   ELSE Ordinal(jar, i)
  <1> DEFINE set(i) == { j \in 1 .. i : Counts(jar, j) }
  <1>1. \A i \in Nat : IsFiniteSet(set(i)) /\ Cardinality(set(i)) \in Nat
    <2> SUFFICES ASSUME NEW i \in Nat PROVE IsFiniteSet(set(i)) /\ Cardinality(set(i)) \in Nat
      OBVIOUS
    <2>1. IsFiniteSet(1 .. i)
      BY FS_Interval
    <2>2. set(i) \subseteq 1 .. i
      OBVIOUS
    <2>3. IsFiniteSet(set(i))
      <3> HIDE DEF set
      <3> QED BY <2>1, <2>2, FS_Subset
    <2> HIDE DEF set
    <2> QED BY <2>3, FS_CardinalityType
  <1>2. set(0) = {}
    OBVIOUS
  <1>3. ASSUME NEW i \in Nat PROVE Cardinality(set(i + 1)) = IF Counts(jar, i + 1)
                                                               THEN Cardinality(set(i)) + 1
                                                               ELSE Cardinality(set(i))
    <2>1. CASE Counts(jar, i + 1)
      <3>1. set(i + 1) = set(i) \union {i + 1} /\ i + 1 \notin set(i)
        BY <2>1
      <3> HIDE DEF set
      <3> QED BY <1>1, <2>1, <3>1, FS_AddElement
    <2>2. CASE ~ Counts(jar, i + 1)
      <3>1. set(i + 1) = set(i)
        BY <2>2
      <3> HIDE DEF set
      <3> QED BY <2>2, <3>1
    <2> QED BY <2>1, <2>2
  <1>4. Cardinality(set(0)) = 0
    <2> HIDE DEF set
    <2> QED BY <1>2, FS_EmptySet
  <1>5. \A i : Ordinal(jar, i) = Cardinality(set(i))
    BY DEF Ordinal
  <1> HIDE DEF set
  <1> QED BY <1>1, <1>3, <1>4, <1>5

LEMMA OrdinalGrows ==
  ASSUME NEW jar, NEW i \in Nat, NEW j \in Nat, i <= j
  PROVE  Ordinal(jar, i) <= Ordinal(jar, j)
  <1> DEFINE o(k) == Ordinal(jar, k)
             P == {k \in Nat : o(i) <= o(i + k)}
  <1>1. \A k \in Nat : /\ o(k) \in Nat
                       /\ o(k + 1) = o(k) + 1 \/ o(k + 1) = o(k)
    <2> HIDE DEF o
    <2>1. \A k \in Nat : o(k) \in Nat
      BY OrdinalFacts DEF o
    <2>2. ASSUME NEW k \in Nat PROVE o(k + 1) = o(k) + 1 \/ o(k + 1) = o(k)
      BY OrdinalFacts DEF o
    <2> QED BY <2>1, <2>2
  <1> HIDE DEF o
  <1>2. 0 \in P
    <2>1. i + 0 = i /\ o(i) \in Nat
      BY <1>1
    <2> QED BY <2>1
  <1>3. ASSUME NEW k \in Nat, k \in P PROVE k + 1 \in P
    <2>1. i + k \in Nat /\ (i + k) + 1 = i + (k + 1) /\ o(i) \in Nat
      BY <1>1
    <2>2. o(i + k) \in Nat /\ (o((i + k) + 1) = o(i + k) + 1 \/ o((i + k) + 1) = o(i + k))
      BY <1>1, <2>1
    <2>3. o(i) <= o(i + k)
      BY <1>3
    <2>4. o(i) <= o((i + k) + 1)
      BY <2>1, <2>2, <2>3
    <2> QED BY <2>1, <2>4
  <1>4. Nat \subseteq P
    <2> HIDE DEF P
    <2> QED BY <1>2, <1>3, Induction
  <1>5. j - i \in P /\ i + (j - i) = j
    BY <1>4
  <1> QED BY <1>5 DEF o


(* After i rounds over the header of a jar.                                *)
HoldsTo(jar, list, i) ==
  /\ \A j \in 1 .. i : Counts(jar, j) /\ Ordinal(jar, j) <= MaxCookies =>
       Ordinal(jar, j) \in 1 .. Len(list) /\ list[Ordinal(jar, j)] = jar[j]
  /\ \A m \in 1 .. Len(list) : \E j \in 1 .. i : Counts(jar, j) /\ Ordinal(jar, j) = m

LoopOK(jar, i, c) ==
  /\ c.ok /\ RoundOK(Written(jar), c)
  /\ ~ c.done => /\ i < Len(jar) /\ c.at = From(WrittenTo(jar), i + 1)
                 /\ Len(c.list) = Ordinal(jar, i) /\ HoldsTo(jar, c.list, i)
  /\ c.done => HoldsTo(jar, c.list, Len(jar))

LEMMA MoreHeld ==
  ASSUME NEW jar, NEW i \in Nat, NEW list \in Seq(CookieRecord), Len(list) = Ordinal(jar, i),
         HoldsTo(jar, list, i), jar[i + 1] \in CookieRecord, Counts(jar, i + 1)
  PROVE  /\ Len(Append(list, jar[i + 1])) = Ordinal(jar, i + 1)
         /\ HoldsTo(jar, Append(list, jar[i + 1]), i + 1)
  <1> DEFINE new == Append(list, jar[i + 1])
             o(j) == Ordinal(jar, j)
             n == Len(list)
  <1>1. o(i + 1) = n + 1 /\ n \in Nat
    BY OrdinalFacts
  <1>2. /\ Len(new) = n + 1 /\ new[n + 1] = jar[i + 1]
        /\ \A m \in 1 .. n : new[m] = list[m]
    OBVIOUS
  <1> HIDE DEF new
  <1>3. ASSUME NEW j \in 1 .. i + 1, Counts(jar, j), o(j) <= MaxCookies
        PROVE  o(j) \in 1 .. Len(new) /\ new[o(j)] = jar[j]
    <2>1. CASE j = i + 1
      BY <1>1, <1>2, <2>1
    <2>2. CASE j # i + 1
      <3>1. j \in 1 .. i
        BY <2>2
      <3>2. o(j) \in 1 .. n /\ list[o(j)] = jar[j]
        BY <1>3, <3>1 DEF HoldsTo
      <3> HIDE DEF o
      <3> QED BY <1>1, <1>2, <3>2
    <2> QED BY <2>1, <2>2
  <1>4. ASSUME NEW m \in 1 .. Len(new) PROVE \E j \in 1 .. i + 1 : Counts(jar, j) /\ o(j) = m
    <2>1. CASE m = n + 1
      <3>1. i + 1 \in 1 .. i + 1
        OBVIOUS
      <3> QED BY <1>1, <2>1, <3>1
    <2>2. CASE m # n + 1
      <3>1. m \in 1 .. n
        BY <1>1, <1>2, <2>2
      <3>2. PICK j \in 1 .. i : Counts(jar, j) /\ o(j) = m
        BY <3>1 DEF HoldsTo
      <3>3. j \in 1 .. i + 1
        OBVIOUS
      <3> QED BY <3>2, <3>3
    <2> QED BY <2>1, <2>2
  <1>5. HoldsTo(jar, new, i + 1)
    BY <1>3, <1>4, Zenon DEF HoldsTo
  <1>6. Len(new) = o(i + 1)
    BY <1>1, <1>2
  <1> QED BY <1>5, <1>6 DEF new

(* A cookie that does not count adds nothing.                              *)
LEMMA SameHeld ==
  ASSUME NEW jar, NEW i \in Nat, NEW list, HoldsTo(jar, list, i), ~ Counts(jar, i + 1)
  PROVE  HoldsTo(jar, list, i + 1) /\ Ordinal(jar, i + 1) = Ordinal(jar, i)
  <1>1. Ordinal(jar, i + 1) = Ordinal(jar, i)
    BY OrdinalFacts
  <1>2. \A j \in 1 .. i + 1 : Counts(jar, j) => j \in 1 .. i
    <2> SUFFICES ASSUME NEW j \in 1 .. i + 1, Counts(jar, j) PROVE j \in 1 .. i
      OBVIOUS
    <2>1. j # i + 1
      OBVIOUS
    <2> QED BY <2>1
  <1>3. \A j \in 1 .. i : j \in 1 .. i + 1
    OBVIOUS
  <1>4. HoldsTo(jar, list, i + 1)
    BY <1>2, <1>3, Zenon DEF HoldsTo
  <1> QED BY <1>1, <1>4

(* Behind a full table none has room.                                      *)
LEMMA FullHeld ==
  ASSUME NEW jar, NEW i \in Nat, NEW n \in Nat, i <= n, NEW list, HoldsTo(jar, list, i),
         Ordinal(jar, i) = MaxCookies, i = n \/ Counts(jar, i + 1)
  PROVE  HoldsTo(jar, list, n)
  <1>1. ASSUME NEW j \in 1 .. n, Counts(jar, j), Ordinal(jar, j) <= MaxCookies PROVE j \in 1 .. i
    <2> SUFFICES ASSUME j > i PROVE FALSE
      OBVIOUS
    <2>1. i + 1 <= j /\ i + 1 \in Nat /\ j \in Nat /\ i # n
      OBVIOUS
    <2>2. Ordinal(jar, i + 1) <= Ordinal(jar, j)
      BY <2>1, OrdinalGrows
    <2>3. Ordinal(jar, i + 1) = MaxCookies + 1
      BY <2>1, OrdinalFacts
    <2>4. Ordinal(jar, j) \in Nat /\ MaxCookies \in Nat
      BY <2>1, OrdinalFacts, FieldsAssumption
    <2> QED BY <1>1, <2>2, <2>3, <2>4
  <1>2. \A j \in 1 .. i : j \in 1 .. n
    OBVIOUS
  <1> QED BY <1>1, <1>2, Zenon DEF HoldsTo


LEMMA LoopStep ==
  ASSUME NEW jar, Writes(jar), NEW i \in Nat, NEW c, LoopOK(jar, i, c)
  PROVE  LoopOK(jar, i + 1, CookieRound(Written(jar), c))
  <1> DEFINE s == Written(jar)
             n == Len(jar)
             d == CookieRound(s, c)
             counts == Counts(jar, i + 1)
             l == c.list
             more == Append(l, jar[i + 1])
  <1>1. n \in Nat /\ s \in Seq(Char)
    <2>1. n \in Nat
      BY TextFacts, Zenon
    <2>2. n \in 0 .. n
      BY <2>1
    <2> QED BY <2>1, <2>2, TextStays, Zenon
  <1> HIDE DEF s
  <1>2. RoundOK(s, d)
    BY <1>1, RoundKeeps, Zenon DEF LoopOK, s
  <1>3. CASE c.done
    <2>1. d = c
      BY <1>3, Zenon DEF CookieRound
    <2> HIDE DEF d
    <2>2. c.ok /\ HoldsTo(jar, c.list, n)
      BY <1>3, Zenon DEF LoopOK
    <2> QED BY <1>2, <1>3, <2>1, <2>2, Zenon DEF LoopOK, d, s
  <1>4. CASE ~ c.done
    <2>1. i < n /\ c.at = From(WrittenTo(jar), i + 1) /\ Len(l) = Ordinal(jar, i) /\ HoldsTo(jar, l, i)
      BY <1>4, Zenon DEF LoopOK
    <2>2. i + 1 \in 1 .. n /\ (i + 1 = n \/ i + 1 < n)
      BY <1>1, <2>1
    <2>3. l \in Seq(CookieRecord) /\ Len(l) <= MaxCookies /\ Len(l) \in Nat
      BY DEF LoopOK, RoundOK
    <2>4. jar[i + 1] \in CookieRecord
      BY <2>2 DEF Writes
    <2>5. jar[i + 1] = [key |-> jar[i + 1].key, value |-> jar[i + 1].value]
      BY <2>4 DEF CookieRecord
    <2>6. d = [at |-> From(WrittenTo(jar), (i + 1) + 1), ok |-> TRUE,
               done |-> i + 1 = n \/ (counts /\ Len(l) = MaxCookies),
               list |-> IF counts /\ Len(l) < MaxCookies THEN more ELSE l]
      BY <1>4, <2>1, <2>2, <2>5, RoundReads, ZenonT(60) DEF s
    <2> HIDE DEF d, n, counts, l
    <2>7. /\ d.ok /\ d.at = From(WrittenTo(jar), (i + 1) + 1)
          /\ d.done <=> i + 1 = n \/ (counts /\ Len(l) = MaxCookies)
          /\ d.list = IF counts /\ Len(l) < MaxCookies THEN more ELSE l
      BY <2>6
    <2>8. CASE counts /\ Len(l) < MaxCookies
      <3>1. d.list = more
        BY <2>7, <2>8
      <3>2. d.done <=> i + 1 = n
        BY <2>7, <2>8
      <3>3. HoldsTo(jar, more, i + 1) /\ Len(more) = Ordinal(jar, i + 1)
        BY <2>1, <2>3, <2>4, <2>8, MoreHeld DEF counts
      <3> HIDE DEF more
      <3> QED BY <1>2, <2>2, <2>7, <3>1, <3>2, <3>3, Zenon DEF LoopOK, n, d, s
    <2>9. CASE counts /\ ~ (Len(l) < MaxCookies)
      <3>1. Len(l) = MaxCookies
        BY <2>3, <2>9, FieldsAssumption
      <3>2. d.list = l /\ d.done
        BY <2>7, <2>9, <3>1
      <3>3. HoldsTo(jar, l, n)
        <4>1. i <= n /\ n \in Nat /\ Ordinal(jar, i) = MaxCookies
          BY <1>1, <2>1, <3>1 DEF n
        <4>2. HoldsTo(jar, l, i) /\ Counts(jar, i + 1)
          BY <2>1, <2>9 DEF counts
        <4> QED BY <4>1, <4>2, FullHeld
      <3> QED BY <1>2, <2>7, <3>2, <3>3, Zenon DEF LoopOK, n, d, s
    <2>10. CASE ~ counts
      <3>1. d.list = l /\ (d.done <=> i + 1 = n)
        BY <2>7, <2>10
      <3>2. HoldsTo(jar, l, i + 1) /\ Ordinal(jar, i + 1) = Ordinal(jar, i)
        BY <2>1, <2>10, SameHeld DEF counts
      <3>3. Len(l) = Ordinal(jar, i + 1)
        BY <2>1, <3>2
      <3> QED BY <1>2, <2>2, <2>7, <3>1, <3>2, <3>3, Zenon DEF LoopOK, n, d, s
    <2> QED BY <2>8, <2>9, <2>10
  <1> QED BY <1>3, <1>4

LEMMA JarParsed ==
  ASSUME NEW jar, Writes(jar), Len(jar) > 0
  PROVE  LET c == ParseCookies(Written(jar))
         IN  c.ok /\ HoldsTo(jar, c.list, Len(jar))
  <1> DEFINE s == Written(jar)
             t == WrittenTo(jar)
             rounds == CookieRounds(s)
             n == Len(s) + 1
             P == {i \in Nat : i <= n => LoopOK(jar, i, rounds[i])}
  <1>1. Len(jar) \in Nat /\ t[Len(jar)] \in Seq(Char) /\ Len(t[Len(jar)]) >= Len(jar)
    <2>1. Len(jar) \in Nat
      BY TextFacts, Zenon
    <2>2. Len(jar) \in 0 .. Len(jar)
      BY <2>1
    <2> QED BY <2>1, <2>2, TextFacts, Zenon
  <1>2. s \in Seq(Char) /\ Len(s) >= Len(jar) /\ s = t[Len(jar)]
    BY <1>1 DEF Written
  <1> HIDE DEF s, t
  <1>3. n \in Nat /\ n > Len(jar) /\ Len(s) \in Nat
    BY <1>1, <1>2
  <1>4. rounds[0] = FirstRound /\ \A i \in 1 .. n : rounds[i] = CookieRound(s, rounds[i - 1])
    BY <1>3, RoundsFacts
  <1> HIDE DEF rounds, n
  <1>5. 0 \in P
    <2>1. <<>> \in Seq(CookieRecord) /\ Len(<<>>) = 0
      OBVIOUS
    <2>2. RoundOK(s, FirstRound)
      BY <1>2, <2>1, FieldsAssumption DEF FirstRound, RoundOK
    <2>3. /\ FirstRound.ok /\ ~ FirstRound.done /\ FirstRound.at = 1 /\ FirstRound.list = <<>>
      BY DEF FirstRound
    <2>4. From(WrittenTo(jar), 0 + 1) = 1
      BY DEF From
    <2>5. Ordinal(jar, 0) = 0 /\ 0 < Len(jar)
      BY OrdinalFacts
    <2>6. HoldsTo(jar, <<>>, 0)
      BY <2>1 DEF HoldsTo
    <2>7. LoopOK(jar, 0, FirstRound)
      BY <2>1, <2>2, <2>3, <2>4, <2>5, <2>6, Zenon DEF LoopOK, s
    <2> QED BY <1>4, <2>7
  <1>6. ASSUME NEW i \in Nat, i \in P PROVE i + 1 \in P
    <2>1. CASE i + 1 <= n
      <3>1. i <= n /\ i + 1 \in 1 .. n /\ (i + 1) - 1 = i
        BY <1>3, <2>1
      <3>2. rounds[i + 1] = CookieRound(s, rounds[i])
        BY <1>4, <3>1
      <3>3. LoopOK(jar, i, rounds[i])
        BY <1>6, <3>1
      <3>4. LoopOK(jar, i + 1, rounds[i + 1])
        BY <3>2, <3>3, LoopStep, Zenon DEF s
      <3> QED BY <3>4
    <2>2. CASE ~ (i + 1 <= n)
      BY <2>2
    <2> QED BY <2>1, <2>2
  <1>7. Nat \subseteq P
    <2> HIDE DEF P
    <2> QED BY <1>5, <1>6, Induction
  <1>8. LoopOK(jar, n, rounds[n])
    BY <1>3, <1>7
  <1>9. rounds[n] = ParseCookies(s)
    BY DEF ParseCookies, rounds, n
  <1>10. ~ (n < Len(jar))
    BY <1>1, <1>3
  <1> QED BY <1>8, <1>9, <1>10, Zenon DEF LoopOK, s

-----------------------------------------------------------------------------
(* The table, and what an endpoint is told of it.                          *)
Slot == CookieRecord \union {Stale}
Slots(f) == DOMAIN f = FieldNames /\ f.table \in Seq(Slot) /\ Len(f.table) = MaxCookies

LEMMA StoredFacts ==
  ASSUME NEW h \in Seq(Char)
  PROVE  /\ Stored(h) \in Seq(CookieRecord) /\ Len(Stored(h)) <= MaxCookies
         /\ \A m \in 1 .. Len(Stored(h)) : Within(Stored(h)[m].value, h)
  <1> DEFINE c == ParseCookies(h)
  <1>1. RoundOK(h, c)
    BY ParsedFacts
  <1> HIDE DEF c
  <1>2. /\ c.list \in Seq(CookieRecord) /\ Len(c.list) <= MaxCookies
        /\ \A m \in 1 .. Len(c.list) : Within(c.list[m].value, h)
    BY <1>1 DEF RoundOK
  <1>3. /\ <<>> \in Seq(CookieRecord) /\ Len(<<>>) <= MaxCookies
        /\ \A m \in 1 .. Len(<<>>) : FALSE
    BY FieldsAssumption
  <1>4. Stored(h) = IF h # <<>> /\ c.ok THEN c.list ELSE <<>>
    BY DEF Stored, c
  <1>5. CASE h # <<>> /\ c.ok
    <2>1. Stored(h) = c.list
      BY <1>4, <1>5
    <2> QED BY <1>2, <2>1
  <1>6. CASE ~ (h # <<>> /\ c.ok)
    <2>1. Stored(h) = <<>>
      BY <1>4, <1>6
    <2> QED BY <1>3, <2>1
  <1> QED BY <1>5, <1>6

LEMMA Prepended ==
  ASSUME NEW S, NEW list \in Seq(S), NEW old \in Seq(S), NEW n \in Nat,
         Len(old) = n, Len(list) <= n
  PROVE  LET new == list \o SubSeq(old, Len(list) + 1, n)
         IN  /\ new \in Seq(S) /\ Len(new) = n
             /\ \A i \in 1 .. Len(list) : new[i] = list[i]
  <1> DEFINE l == Len(list)
             rest == SubSeq(old, l + 1, n)
  <1>1. l \in Nat /\ l <= n
    OBVIOUS
  <1> HIDE DEF l
  <1>2. rest \in Seq(S) /\ Len(rest) = n - l
    BY <1>1
  <1> HIDE DEF rest
  <1>3. list \o rest \in Seq(S) /\ Len(list \o rest) = l + (n - l)
    BY <1>2 DEF l
  <1>4. \A i \in 1 .. l : (list \o rest)[i] = list[i]
    BY <1>2 DEF l
  <1>5. l + (n - l) = n
    BY <1>1
  <1> QED BY <1>3, <1>4, <1>5 DEF l, rest

LEMMA RefreshedFacts ==
  ASSUME NEW f, Slots(f), f.num = 0, f.fresh \in Seq(Char), f.fresh # <<>>
  PROVE  LET g == Refreshed(f)
             stored == Stored(f.fresh)
         IN  /\ Slots(g) /\ g.fresh = <<>> /\ g.num = Len(stored)
             /\ \A i \in 1 .. Len(stored) : g.table[i] = stored[i]
  <1> DEFINE h == f.fresh
             parsed == ParseCookies(h)
             list == parsed.list
             n == Len(list)
             table == list \o SubSeq(f.table, n + 1, MaxCookies)
             num == IF parsed.ok THEN n ELSE 0
             f1 == [f EXCEPT !.fresh = <<>>]
             f2 == [f1 EXCEPT !.num = IF parsed.ok THEN n ELSE @]
             f3 == [f2 EXCEPT !.table = list \o SubSeq(@, n + 1, MaxCookies)]
             g == Refreshed(f)
             stored == Stored(h)
  <1>1. g = f3
    BY DEF Refreshed
  <1>2. list \in Seq(CookieRecord) /\ n <= MaxCookies
    BY ParsedFacts, Zenon DEF RoundOK
  <1> HIDE DEF parsed, g
  <1>3. /\ DOMAIN f1 = FieldNames /\ f1.fresh = <<>> /\ f1.num = 0 /\ f1.table = f.table
    BY DEF Slots, FieldNames
  <1> HIDE DEF f1, n
  <1>4. /\ DOMAIN f2 = FieldNames /\ f2.fresh = <<>> /\ f2.num = num /\ f2.table = f.table
    BY <1>3 DEF FieldNames
  <1> HIDE DEF f2, num
  <1>5. /\ DOMAIN f3 = FieldNames /\ f3.fresh = <<>> /\ f3.num = num /\ f3.table = table
    BY <1>4 DEF FieldNames
  <1> HIDE DEF f3, table
  <1>6. /\ table \in Seq(Slot) /\ Len(table) = MaxCookies /\ \A i \in 1 .. n : table[i] = list[i]
    <2>1. list \in Seq(Slot)
      BY <1>2 DEF Slot
    <2>2. f.table \in Seq(Slot) /\ Len(f.table) = MaxCookies /\ MaxCookies \in Nat
      BY FieldsAssumption DEF Slots
    <2> HIDE DEF list
    <2> QED BY <1>2, <2>1, <2>2, Prepended DEF table, n
  <1>7. stored = IF parsed.ok THEN list ELSE <<>>
    BY DEF Stored, parsed
  <1>8. num = Len(stored) /\ \A i \in 1 .. Len(stored) : table[i] = stored[i]
    <2> HIDE DEF stored
    <2>1. CASE parsed.ok
      BY <1>6, <1>7, <2>1 DEF num, n
    <2>2. CASE ~ parsed.ok
      <3>1. stored = <<>>
        BY <1>7, <2>2
      <3> QED BY <2>2, <3>1 DEF num
    <2> QED BY <2>1, <2>2
  <1> QED BY <1>1, <1>5, <1>6, <1>8 DEF Slots, g

LEMMA AskFacts ==
  ASSUME NEW f, Slots(f), NEW h \in Seq(Char), Carries(f, h), NEW key
  PROVE  LET c == GetCookie(f, key)
             hits == Namesakes(Stored(h), key)
         IN  /\ Slots(c.fields) /\ Carries(c.fields, h)
             /\ c.found <=> hits # {}
             /\ c.found => c.value = Stored(h)[Min(hits)].value
  <1> DEFINE g == IF f.fresh = <<>> THEN f ELSE Refreshed(f)
             stored == Stored(h)
             n == Len(stored)
             Full(e) == /\ Slots(e) /\ e.fresh = <<>> /\ e.num = n
                        /\ \A i \in 1 .. n : e.table[i] = stored[i]
  <1>1. DOMAIN stored = 1 .. n
    BY StoredFacts
  <1>2. \/ f.fresh = h /\ f.num = 0
        \/ f.fresh = <<>> /\ f.num = n /\ \A i \in 1 .. n : f.table[i] = stored[i]
    BY <1>1 DEF Carries
  <1>3. Full(g)
    <2>1. CASE f.fresh = <<>>
      <3>1. g = f
        BY <2>1
      <3>2. CASE f.fresh = h /\ f.num = 0
        <4>1. stored = <<>>
          BY <2>1, <3>2 DEF Stored
        <4>2. n = 0
          BY <4>1
        <4> HIDE DEF g, n, stored
        <4>3. \A i \in 1 .. n : f.table[i] = stored[i]
          BY <4>2
        <4> QED BY <2>1, <3>1, <3>2, <4>2, <4>3
      <3>3. CASE f.fresh = <<>> /\ f.num = n /\ \A i \in 1 .. n : f.table[i] = stored[i]
        <4> HIDE DEF g, n, stored
        <4> QED BY <3>1, <3>3
      <3> QED BY <1>2, <3>2, <3>3
    <2>2. CASE f.fresh # <<>>
      <3>1. g = Refreshed(f) /\ f.fresh = h /\ f.num = 0
        BY <1>2, <2>2
      <3> HIDE DEF g
      <3> QED BY <2>2, <3>1, RefreshedFacts
    <2> QED BY <2>1, <2>2
  <1> HIDE DEF g
  <1>4. Carries(g, h)
    BY <1>1, <1>3 DEF Carries
  <1> DEFINE hits == { i \in 1 .. g.num : g.table[i].key = key }
             mine == Namesakes(stored, key)
  <1>5. hits = mine
    <2> HIDE DEF n, stored
    <2>1. g.num = n /\ \A i \in 1 .. n : g.table[i] = stored[i]
      BY <1>3
    <2> QED BY <1>1, <2>1 DEF Namesakes
  <1>6. /\ GetCookie(f, key).fields = g
        /\ GetCookie(f, key).found = (hits # {})
        /\ GetCookie(f, key).value = IF hits = {} THEN <<>> ELSE g.table[Min(hits)].value
    BY Zenon DEF GetCookie, g
  <1>7. mine # {} => g.table[Min(mine)] = stored[Min(mine)]
    <2> SUFFICES ASSUME mine # {} PROVE g.table[Min(mine)] = stored[Min(mine)]
      OBVIOUS
    <2>1. mine \subseteq 1 .. n
      BY <1>1 DEF Namesakes
    <2>2. mine \subseteq Nat
      BY <2>1
    <2> HIDE DEF mine, n, stored
    <2>3. Min(mine) \in 1 .. n
      BY <2>1, <2>2, MinFacts
    <2> QED BY <1>3, <2>3
  <1> HIDE DEF hits, mine
  <1>8. GetCookie(f, key).found <=> mine # {}
    BY <1>5, <1>6
  <1>9. mine # {} => GetCookie(f, key).value = stored[Min(mine)].value
    <2> HIDE DEF stored
    <2> QED BY <1>5, <1>6, <1>7
  <1> QED BY <1>3, <1>4, <1>6, <1>8, <1>9, Zenon DEF mine

(* What the parser kept of a jar is found where it is in the jar.          *)
LEMMA JarFound ==
  ASSUME NEW jar, Writes(jar), NEW key
  PROVE  LET stored == Stored(Written(jar))
             hits == Namesakes(stored, key)
             meant == Meant(jar, key)
         IN  /\ hits # {} <=> meant # {}
             /\ hits # {} => stored[Min(hits)].value = jar[Min(meant)].value
  <1> DEFINE stored == Stored(Written(jar))
             hits == Namesakes(stored, key)
             meant == Meant(jar, key)
             n == Len(jar)
             o(j) == Ordinal(jar, j)
  <1>1. n \in Nat /\ DOMAIN jar = 1 .. n
    BY DEF Writes
  <1>2. \A j : j \in meant <=> j \in 1 .. n /\ Counts(jar, j) /\ o(j) <= MaxCookies /\ jar[j].key = key
    BY <1>1 DEF Meant, Kept, Ordinal
  <1>3. CASE n = 0
    <2>1. Written(jar) = <<>>
      <3>1. WrittenTo(jar)[0] = <<>>
        BY <1>1, WrittenFacts
      <3> QED BY <1>3, <3>1 DEF Written
    <2>2. stored = <<>>
      BY <2>1 DEF Stored
    <2>3. DOMAIN stored = {}
      BY <2>2
    <2> HIDE DEF stored
    <2>4. hits = {}
      BY <2>3 DEF Namesakes
    <2>5. meant = {}
      <3> HIDE DEF meant
      <3> QED BY <1>2, <1>3
    <2> HIDE DEF hits, meant
    <2> QED BY <2>4, <2>5 DEF hits, meant, stored
  <1>4. CASE n # 0
    <2> DEFINE c == ParseCookies(Written(jar))
    <2>1. c.ok /\ HoldsTo(jar, c.list, n)
      <3>1. Len(jar) > 0
        BY <1>1, <1>4
      <3> QED BY <3>1, JarParsed, Zenon
    <2>2. stored = c.list
      <3>1. n \in 0 .. n /\ n > 0
        BY <1>1, <1>4
      <3>2. WrittenTo(jar)[n] \in Seq(Char) /\ Len(WrittenTo(jar)[n]) >= n
        BY <3>1, TextFacts, Zenon
      <3>3. Written(jar) # <<>>
        BY <3>1, <3>2 DEF Written
      <3> QED BY <2>1, <3>3 DEF Stored
    <2>3. stored \in Seq(CookieRecord) /\ Len(stored) <= MaxCookies
      <3>1. Written(jar) \in Seq(Char)
        <4>1. n \in 0 .. n
          BY <1>1
        <4> QED BY <4>1, TextStays, Zenon
      <3> QED BY <3>1, StoredFacts
    <2>4. HoldsTo(jar, stored, n)
      BY <2>1, <2>2
    <2> HIDE DEF c, stored
    <2>5. \A m : m \in hits <=> m \in 1 .. Len(stored) /\ stored[m].key = key
      BY <2>3 DEF Namesakes
    <2> HIDE DEF hits, meant
    <2>6. \A j \in meant : j \in Nat /\ o(j) \in hits /\ stored[o(j)] = jar[j]
      BY <1>2, <2>4, <2>5 DEF HoldsTo
    <2>7. \A m \in hits : m \in Nat /\ \E j \in meant : o(j) = m
      <3> SUFFICES ASSUME NEW m \in hits PROVE m \in Nat /\ \E j \in meant : o(j) = m
        OBVIOUS
      <3>1. m \in 1 .. Len(stored) /\ stored[m].key = key
        BY <2>5
      <3>2. PICK j \in 1 .. n : Counts(jar, j) /\ o(j) = m
        BY <2>4, <3>1 DEF HoldsTo
      <3>3. m <= MaxCookies
        BY <2>3, <3>1, FieldsAssumption
      <3>4. stored[m] = jar[j]
        BY <2>4, <3>2, <3>3 DEF HoldsTo
      <3>5. j \in meant
        <4> HIDE DEF o
        <4> QED BY <1>2, <3>1, <3>2, <3>3, <3>4
      <3> QED BY <3>1, <3>2, <3>5
    <2>8. hits # {} <=> meant # {}
      BY <2>6, <2>7
    <2>9. ASSUME hits # {} PROVE stored[Min(hits)].value = jar[Min(meant)].value
      <3> DEFINE h == Min(hits)
                 m == Min(meant)
      <3>1. h \in hits /\ \A y \in hits : h <= y
        <4>1. hits \subseteq Nat
          BY <2>7
        <4> QED BY <2>9, <4>1, MinFacts
      <3>2. m \in meant /\ \A y \in meant : m <= y
        <4>1. meant \subseteq Nat
          BY <2>6
        <4> QED BY <2>8, <2>9, <4>1, MinFacts
      <3> HIDE DEF h, m
      <3>3. PICK j \in meant : o(j) = h
        BY <2>7, <3>1
      <3>4. m <= j /\ m \in Nat /\ j \in Nat
        BY <2>6, <3>2
      <3>5. o(m) <= h
        BY <3>3, <3>4, OrdinalGrows
      <3>6. h <= o(m) /\ h \in Nat /\ o(m) \in Nat
        BY <2>6, <2>7, <3>1, <3>2
      <3> HIDE DEF o
      <3>7. o(m) = h
        BY <3>5, <3>6
      <3>8. stored[h] = jar[m]
        BY <2>6, <3>2, <3>7
      <3> QED BY <3>8 DEF h, m
    <2> QED BY <2>8, <2>9 DEF hits, meant, stored
  <1> QED BY <1>3, <1>4


LEMMA JarWrites ==
  ASSUME NEW r \in Requests, Writable(r.jar)
  PROVE  Writes(r.jar)
  <1> DEFINE jar == r.jar
             Sent == [key : Seq(STRING), value : Seq(STRING)]
  <1>1. jar \in Seq(Sent)
    BY RequestAssumption DEF Request
  <1>2. \A i \in DOMAIN jar :
          /\ Equals \notin Range(jar[i].key) /\ Semicolon \notin Range(jar[i].value)
          /\ jar[i].key = <<>> \/ Head(jar[i].key) # Blank
    BY Zenon DEF Writable, Equals, Semicolon, Blank
  <1> HIDE DEF jar
  <1>3. \A i \in 1 .. Len(jar) : jar[i].key \in Seq(STRING) /\ jar[i].value \in Seq(STRING)
                                 /\ jar[i] \in CookieRecord
    <2> SUFFICES ASSUME NEW i \in 1 .. Len(jar)
                 PROVE  jar[i].key \in Seq(STRING) /\ jar[i].value \in Seq(STRING)
                        /\ jar[i] \in CookieRecord
      OBVIOUS
    <2>1. jar[i] \in Sent
      <3> HIDE DEF Sent
      <3> QED BY <1>1
    <2>2. jar[i] = [key |-> jar[i].key, value |-> jar[i].value]
          /\ jar[i].key \in Seq(STRING) /\ jar[i].value \in Seq(STRING)
      BY <2>1
    <2>3. jar[i].key \in Seq(Char) /\ jar[i].value \in Seq(Char)
      BY <2>2 DEF Char
    <2> QED BY <2>2, <2>3 DEF CookieRecord
  <1>4. jar \in Seq(CookieRecord) /\ DOMAIN jar = 1 .. Len(jar)
    <2> HIDE DEF Sent
    <2>1. \A i \in 1 .. Len(jar) : jar[i] \in CookieRecord
      BY <1>3
    <2> QED BY <1>1, <2>1
  <1>5. ASSUME NEW i \in 1 .. Len(jar)
        PROVE  /\ \A x \in 1 .. Len(jar[i].key) : jar[i].key[x] # Equals
               /\ Len(jar[i].key) > 0 => jar[i].key[1] # Blank
               /\ \A x \in 1 .. Len(jar[i].value) : jar[i].value[x] # Semicolon
    <2> DEFINE key == jar[i].key
               value == jar[i].value
    <2>1. key \in Seq(STRING) /\ value \in Seq(STRING)
      BY <1>3
    <2>2. Equals \notin Range(key) /\ Semicolon \notin Range(value) /\ (key = <<>> \/ Head(key) # Blank)
      BY <1>2, <1>4
    <2> HIDE DEF key, value
    <2>3. \A x \in 1 .. Len(key) : key[x] # Equals
      BY <2>1, <2>2 DEF Range
    <2>4. Len(key) > 0 => key[1] # Blank
      BY <2>1, <2>2
    <2>5. \A x \in 1 .. Len(value) : value[x] # Semicolon
      BY <2>1, <2>2 DEF Range
    <2> QED BY <2>3, <2>4, <2>5 DEF key, value
  <1> QED BY <1>4, <1>5 DEF Writes, jar

LEMMA HeaderFacts ==
  ASSUME NEW r \in Requests
  PROVE  r.cookies \in Seq(Char)
  <1>1. r.cookies \in Seq(STRING)
    BY RequestAssumption DEF Request
  <1> QED BY <1>1 DEF Char

LEMMA NoFieldsFacts == Slots(NoFields) /\ NoFields.num = 0
  <1> DEFINE table == [i \in 1 .. MaxCookies |-> Stale]
  <1>1. MaxCookies \in Nat
    BY FieldsAssumption
  <1>2. table \in Seq(Slot) /\ Len(table) = MaxCookies
    BY <1>1 DEF Slot
  <1> HIDE DEF table
  <1>3. NoFields = [fresh |-> <<>>, num |-> 0, range |-> <<>>, table |-> table]
    BY DEF NoFields, table
  <1> QED BY <1>2, <1>3 DEF Slots, FieldNames

LEMMA NotedFacts ==
  ASSUME NEW f, Slots(f), f.num = 0, NEW h, NEW range
  PROVE  Slots(Noted(f, h, range)) /\ Carries(Noted(f, h, range), h)
  <1> DEFINE f1 == [f EXCEPT !.fresh = h]
             f2 == [f1 EXCEPT !.range = range]
  <1>1. DOMAIN f1 = FieldNames /\ f1.fresh = h /\ f1.num = 0 /\ f1.table = f.table
    BY DEF Slots, FieldNames
  <1> HIDE DEF f1
  <1>2. DOMAIN f2 = FieldNames /\ f2.fresh = h /\ f2.num = 0 /\ f2.table = f.table
    BY <1>1 DEF FieldNames
  <1>3. Noted(f, h, range) = f2
    BY DEF Noted, f1
  <1> HIDE DEF f2
  <1> QED BY <1>2, <1>3 DEF Slots, Carries

SameCookies(f, g) ==
  /\ DOMAIN g = DOMAIN f /\ g.fresh = f.fresh /\ g.num = f.num /\ g.table = f.table

LEMMA CookiesStay ==
  ASSUME CookiesOK, Slots(fields), SameCookies(fields, fields'),
         phase # "recv", phase' # "recv", request' = request,
         answer' = answer \/ answer'.of # "cookie"
  PROVE  CookiesOK' /\ Slots(fields)'
  <1>1. Slots(fields)'
    BY DEF Slots, SameCookies
  <1>2. Carries(fields', request.cookies)
    BY DEF CookiesOK, Carries, SameCookies
  <1> QED BY <1>1, <1>2 DEF CookiesOK


(* Asking for the range leaves the cookies alone.                          *)
LEMMA RangeAlone ==
  ASSUME NEW f, DOMAIN f = FieldNames, NEW range
  PROVE  SameCookies(f, [f EXCEPT !.range = range])
  BY DEF SameCookies, FieldNames

LEMMA CookiesInit == Init => CookiesOK /\ Slots(fields)
  <1> SUFFICES ASSUME Init PROVE CookiesOK /\ Slots(fields)
    OBVIOUS
  <1>1. phase = "recv" /\ answer = NoAnswer /\ fields = NoFields
    BY DEF Init, TreeInit
  <1>2. answer.of # "cookie"
    BY <1>1 DEF NoAnswer
  <1> QED BY <1>1, <1>2, NoFieldsFacts DEF CookiesOK

LEMMA CookiesStep ==
  ASSUME Base, AnswerOK, CookiesOK, Slots(fields), [Next]_vars
  PROVE  CookiesOK' /\ Slots(fields)'
  <1>1. DOMAIN fields = FieldNames
    BY DEF Slots
  <1>2. ASSUME fields' = fields, phase # "recv", phase' # "recv", request' = request, answer' = answer
        PROVE  CookiesOK' /\ Slots(fields)'
    <2>1. SameCookies(fields, fields')
      BY <1>2 DEF SameCookies
    <2> QED BY <1>2, <2>1, CookiesStay
  <1>3. CASE ReceiveRequest
    <2>1. PICK r \in Requests : Receive(r) /\ fields' = Noted(fields, r.cookies, r.range)
      BY <1>3, Zenon DEF ReceiveRequest
    <2>2. phase = "recv" /\ phase' = "parse" /\ request' = r /\ answer' = answer
      BY <1>3, <2>1 DEF Receive, ReceiveRequest, Base, ControlOK
    <2>3. answer = NoAnswer /\ fields.num = 0
      BY <2>2 DEF AnswerOK, CookiesOK
    <2>4. answer'.of # "cookie"
      BY <2>2, <2>3 DEF NoAnswer
    <2>5. Slots(fields') /\ Carries(fields', r.cookies)
      BY <2>1, <2>3, NotedFacts
    <2> QED BY <2>2, <2>4, <2>5 DEF CookiesOK
  <1>4. CASE Walk
    <2>1. phase = "parse" /\ phase' # "recv" /\ request' = request /\ answer' = answer /\ fields' = fields
      BY <1>4 DEF Walk, Hit, Descend, fieldVars
    <2> QED BY <1>2, <2>1
  <1>5. CASE RefuseMethod
    <2>1. phase = "parse" /\ phase' # "recv" /\ request' = request /\ answer' = answer /\ fields' = fields
      BY <1>5 DEF RefuseMethod, MethodRefused, fieldVars
    <2> QED BY <1>2, <2>1
  <1>6. ASSUME NEW hdrs, Static(hdrs), phase # "recv", phase' # "recv", request' = request
        PROVE  CookiesOK' /\ Slots(fields)'
    <2>1. PICK range : fields' = [fields EXCEPT !.range = range] /\ answer' = answer
      BY <1>6, Zenon DEF Static
    <2> QED BY <1>1, <1>6, <2>1, RangeAlone, CookiesStay
  <1>7. CASE ServeStatic
    <2>1. phase = "parse" /\ phase' # "recv" /\ request' = request /\ Static(0)
      BY <1>7 DEF ServeStatic, NoMatch
    <2> QED BY <1>6, <2>1
  <1>8. CASE EndpointAsksCookie
    <2>1. PICK key : /\ answer' = [of |-> "cookie", key |-> key, found |-> GetCookie(fields, key).found,
                                   value |-> GetCookie(fields, key).value]
                     /\ fields' = GetCookie(fields, key).fields
      BY <1>8, Zenon DEF EndpointAsksCookie
    <2>2. phase = "serve" /\ phase' = phase /\ request' = request
      BY <1>8, Zenon DEF EndpointAsksCookie, treeVars
    <2>3. request \in Requests /\ Carries(fields, request.cookies)
      BY <2>2 DEF Base, ControlOK, CookiesOK
    <2> DEFINE c == GetCookie(fields, key)
               h == request.cookies
               hits == Namesakes(Stored(h), key)
    <2>4. /\ Slots(c.fields) /\ Carries(c.fields, h)
          /\ c.found <=> hits # {}
          /\ c.found => c.value = Stored(h)[Min(hits)].value
      BY <2>3, HeaderFacts, AskFacts
    <2> HIDE DEF c
    <2>5. answer'.key = key /\ answer'.found = c.found /\ answer'.value = c.value
      BY <2>1 DEF c
    <2>6. Slots(fields') /\ Carries(fields', request'.cookies)
      BY <2>1, <2>2, <2>4 DEF c
    <2> QED BY <2>2, <2>4, <2>5, <2>6 DEF CookiesOK
  <1>9. CASE EndpointAsksRange
    <2>1. /\ phase = "serve" /\ phase' = phase /\ request' = request
          /\ answer' = [of |-> "range", kind |-> ParseRange(fields.range).kind,
                        from |-> ParseRange(fields.range).from, to |-> ParseRange(fields.range).to]
      BY <1>9, Zenon DEF EndpointAsksRange, treeVars
    <2>2. PICK range : fields' = [fields EXCEPT !.range = range]
      BY <1>9, Zenon DEF EndpointAsksRange
    <2>3. answer'.of # "cookie"
      BY <2>1
    <2>4. phase # "recv" /\ phase' # "recv" /\ request' = request
      BY <2>1
    <2> QED BY <1>1, <2>2, <2>3, <2>4, RangeAlone, CookiesStay
  <1>10. CASE EndpointWaits \/ EndpointAnswers
    <2>1. phase = "serve" /\ phase' # "recv" /\ request' = request /\ answer' = answer /\ fields' = fields
      BY <1>10 DEF EndpointWaits, EndpointAnswers, Call, fieldVars
    <2> QED BY <1>2, <2>1
  <1>11. CASE EndpointServesFile
    <2>1. phase = "serve" /\ phase' # "recv" /\ request' = request /\ Static(request.reply.hdrs)
      BY <1>11 DEF EndpointServesFile, Call
    <2> QED BY <1>6, <2>1
  <1>12. CASE Prepare
    <2>1. phase = "prepare" /\ phase' = "send" /\ request' = request /\ answer' = answer /\ fields' = fields
      BY <1>12 DEF Prepare, fieldVars
    <2> QED BY <1>2, <2>1
  <1>13. CASE Done
    <2>1. answer' = NoAnswer /\ fields' = NoFields /\ phase' = "recv"
      BY <1>13 DEF Done, NextTransaction, Forget
    <2>2. answer'.of # "cookie"
      BY <2>1 DEF NoAnswer
    <2> QED BY <2>1, <2>2, NoFieldsFacts DEF CookiesOK
  <1>14. CASE UNCHANGED vars
    <2>1. UNCHANGED <<phase, request, answer, fields>>
      BY <1>14 DEF vars, treeVars, fieldVars
    <2> QED BY <2>1 DEF CookiesOK
  <1> QED BY <1>3, <1>4, <1>5, <1>7, <1>8, <1>9, <1>10, <1>11, <1>12, <1>13, <1>14 DEF Next

(* Whatever was asked before, in this request or an earlier one, an        *)
(* endpoint is given the first cookie of that name for which its client    *)
(* had room, and never one that is not in its header                       *)
(* (kitserv_api_get_request_cookie, kitserv_http_parse_cookies).           *)
THEOREM CookieIsRight == Spec => []CookieRight
  <1>1. Init => CookiesOK /\ Slots(fields)
    BY CookiesInit
  <1>2. Base /\ AnswerOK /\ CookiesOK /\ Slots(fields) /\ [Next]_vars => CookiesOK' /\ Slots(fields)'
    BY CookiesStep
  <1>3. IInv => Base /\ AnswerOK
    BY DEF IInv
  <1>4. Base /\ AnswerOK /\ CookiesOK => CookieRight
    <2> SUFFICES ASSUME Base, AnswerOK, CookiesOK, answer.of = "cookie"
                 PROVE  IF Writable(request.jar) /\ request.cookies = Written(request.jar)
                          THEN LET meant == Meant(request.jar, answer.key)
                               IN  /\ answer.found <=> meant # {}
                                   /\ answer.found => answer.value = request.jar[Min(meant)].value
                          ELSE answer.found => Within(answer.value, request.cookies)
      BY Zenon DEF CookieRight
    <2> DEFINE h == request.cookies
               stored == Stored(h)
               hits == Namesakes(stored, answer.key)
               meant == Meant(request.jar, answer.key)
    <2>1. phase # "recv"
      BY DEF AnswerOK, NoAnswer
    <2>2. request \in Requests
      BY <2>1 DEF Base, ControlOK
    <2>3. /\ answer.found <=> hits # {}
          /\ answer.found => answer.value = stored[Min(hits)].value
      BY DEF CookiesOK
    <2>4. CASE Writable(request.jar) /\ h = Written(request.jar)
      <3>1. Writes(request.jar)
        BY <2>2, <2>4, JarWrites
      <3>2. /\ hits # {} <=> meant # {}
            /\ hits # {} => stored[Min(hits)].value = request.jar[Min(meant)].value
        BY <2>4, <3>1, JarFound
      <3> HIDE DEF hits, meant, stored
      <3>3. /\ answer.found <=> meant # {}
            /\ answer.found => answer.value = request.jar[Min(meant)].value
        BY <2>3, <3>2
      <3> QED BY <2>4, <3>3, Zenon DEF meant
    <2>5. CASE ~ (Writable(request.jar) /\ h = Written(request.jar))
      <3>1. h \in Seq(Char)
        BY <2>2, HeaderFacts
      <3>2. stored \in Seq(CookieRecord) /\ \A m \in 1 .. Len(stored) : Within(stored[m].value, h)
        BY <3>1, StoredFacts
      <3> HIDE DEF stored
      <3>3. hits \subseteq 1 .. Len(stored) /\ hits \subseteq Nat
        BY <3>2 DEF Namesakes
      <3> HIDE DEF hits
      <3>4. answer.found => Within(answer.value, h)
        BY <2>3, <3>2, <3>3, MinFacts
      <3> QED BY <2>5, <3>4, Zenon
    <2> QED BY <2>4, <2>5
  <1> QED BY <1>1, <1>2, <1>3, <1>4, Invariance, PTL DEF Spec
=============================================================================
