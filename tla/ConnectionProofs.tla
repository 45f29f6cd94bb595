-------------------------- MODULE ConnectionProofs --------------------------
(***************************************************************************)
(* Serving a connection implements Connection, for every sequence of       *)
(* requests and every size of the buffers: each step of the worker or the  *)
(* peer begins, delivers, cuts or closes as Connection allows, or is none  *)
(* the peer can see.  The steps rest on IInv and on PromiseOK.             *)
(***************************************************************************)
EXTENDS ServeClientProofs

-----------------------------------------------------------------------------
(* A sequence that grows has what it was for a prefix.                     *)
LEMMA GrowsFacts ==
  ASSUME NEW S, NEW s \in Seq(S), NEW t \in Seq(S)
  PROVE  /\ Abstract!IsPrefix(s, s \o t)
         /\ t # <<>> => Abstract!IsStrictPrefix(s, s \o t)
  <1>1. /\ s \o t \in Seq(S) /\ Len(s \o t) = Len(s) + Len(t)
        /\ Len(s) \in Nat /\ Len(t) \in Nat
        /\ \A k \in 1 .. Len(s) : (s \o t)[k] = s[k]
    BY JoinFacts, LenProperties
  <1> DEFINE st == s \o t
  <1>2. st \in Seq(S) /\ Len(s) <= Len(st) /\ \A k \in 1 .. Len(s) : st[k] = s[k]
    BY <1>1
  <1> HIDE DEF st
  <1>3. /\ First(s, Len(s)) \in Seq(S) /\ Len(First(s, Len(s))) = Len(s)
        /\ \A k \in 1 .. Len(s) : First(s, Len(s))[k] = s[k]
    BY <1>1, FirstFacts, SMTT(60)
  <1>4. /\ First(st, Len(s)) \in Seq(S) /\ Len(First(st, Len(s))) = Len(s)
        /\ \A k \in 1 .. Len(s) : First(st, Len(s))[k] = s[k]
    BY <1>1, <1>2, FirstFacts
  <1>5. First(s, Len(s)) = First(st, Len(s))
    BY <1>3, <1>4, SeqEqual, SMTT(60)
  <1>6. Abstract!IsPrefix(s, st)
    BY <1>2, <1>5, SMTT(60) DEF Abstract!IsPrefix, First
  <1>7. t # <<>> => s # st
    BY ConcatEqualIffEmpty DEF st
  <1> QED BY <1>6, <1>7 DEF Abstract!IsStrictPrefix, st

LEMMA Assembled ==
  ASSUME NEW S, NEW f \in Seq(S), NEW g \in Seq(S), NEW h \in Seq(S),
         Len(h) = Len(f) + Len(g),
         \A k \in 1 .. Len(f) : f[k] = h[k],
         \A k \in 1 .. Len(g) : g[k] = h[Len(f) + k]
  PROVE  h = f \o g
  <1>1. Len(f) \in Nat /\ Len(g) \in Nat
    BY LenProperties
  <1>2. /\ f \o g \in Seq(S) /\ Len(f \o g) = Len(f) + Len(g)
        /\ \A k \in 1 .. Len(f) : (f \o g)[k] = f[k]
        /\ \A k \in 1 .. Len(g) : (f \o g)[Len(f) + k] = g[k]
    BY JoinFacts
  <1> DEFINE fg == f \o g
  <1> HIDE DEF fg
  <1>3. ASSUME NEW k \in 1 .. Len(h) PROVE h[k] = fg[k]
    <2>1. CASE k <= Len(f)
      <3>1. k \in 1 .. Len(f)
        BY <1>1, <2>1
      <3> QED BY <1>2, <3>1 DEF fg
    <2>2. CASE k > Len(f)
      <3>1. k - Len(f) \in 1 .. Len(g) /\ k = Len(f) + (k - Len(f))
        BY <1>1, <2>2
      <3>2. fg[Len(f) + (k - Len(f))] = g[k - Len(f)]
        BY <1>2, <3>1 DEF fg
      <3>3. h[Len(f) + (k - Len(f))] = g[k - Len(f)]
        BY <3>1
      <3> QED BY <3>1, <3>2, <3>3, SMTT(60)
    <2> QED BY <1>1, <2>1, <2>2, SMTT(60)
  <1>4. fg \in Seq(S) /\ Len(fg) = Len(h)
    BY <1>2 DEF fg
  <1>5. h = fg
    BY <1>3, <1>4, SeqEqual
  <1> QED BY <1>5 DEF fg

(* The response of the last unit that is due.                              *)
LEMMA BegunFacts ==
  /\ due = <<>> => Abstract!begun = 0
  /\ due # <<>> => Abstract!begun = due[Len(due)][1]
  BY DEF Abstract!begun, Abstract!Last

LEMMA EndsWith ==
  ASSUME NEW S, NEW s \in Seq(S), NEW t \in Seq(S), t # <<>>
  PROVE  s \o t # <<>> /\ (s \o t)[Len(s \o t)] = t[Len(t)] /\ Len(t) \in Nat \ {0}
  <1>1. Len(t) \in Nat \ {0} /\ Len(s) \in Nat
    BY EmptySeq, LenProperties
  <1>2. Len(s \o t) = Len(s) + Len(t) /\ (s \o t)[Len(s) + Len(t)] = t[Len(t)]
    BY <1>1, JoinFacts
  <1>3. s \o t # <<>>
    BY ConcatEqualIffEmpty, SMTT(60)
  <1> QED BY <1>1, <1>2, <1>3

-----------------------------------------------------------------------------
(* What the buffers hold, unit by unit.                                    *)
LEMMA HeadUnitAt ==
  ASSUME cur \in 1 .. N, NEW bufs \in [1 .. 3 -> [base : Nat, len : Nat]]
  PROVE  LET a == bufs[1].len
             b == bufs[2].len
             c == bufs[3].len
         IN  /\ \A k \in 1 .. a : HeadUnits(bufs)[k] = <<cur, 1, bufs[1].base + k>>
             /\ \A k \in 1 .. b : HeadUnits(bufs)[a + k] = <<cur, 2, bufs[2].base + k>>
             /\ \A k \in 1 .. c : HeadUnits(bufs)[a + b + k] = <<cur, 3, bufs[3].base + k>>
  <1> DEFINE A == BufUnits(1, bufs[1])
             B == BufUnits(2, bufs[2])
             C == BufUnits(3, bufs[3])
             a == bufs[1].len
             b == bufs[2].len
             c == bufs[3].len
  <1>1. a \in Nat /\ b \in Nat /\ c \in Nat
    OBVIOUS
  <1>2. /\ A \in Seq(OutUnit) /\ Len(A) = a
        /\ B \in Seq(OutUnit) /\ Len(B) = b
        /\ C \in Seq(OutUnit) /\ Len(C) = c
    BY SMTT(60), BufUnitsFacts
  <1>3. /\ \A k \in 1 .. a : A[k] = <<cur, 1, bufs[1].base + k>>
        /\ \A k \in 1 .. b : B[k] = <<cur, 2, bufs[2].base + k>>
        /\ \A k \in 1 .. c : C[k] = <<cur, 3, bufs[3].base + k>>
    BY <1>1 DEF BufUnits
  <1>4. HeadUnits(bufs) = (A \o B) \o C
    BY DEF HeadUnits
  <1> HIDE DEF A, B, C, a, b, c
  <1> DEFINE AB == A \o B
  <1>5. /\ AB \in Seq(OutUnit) /\ Len(AB) = a + b
        /\ \A k \in 1 .. a : AB[k] = A[k]
        /\ \A k \in 1 .. b : AB[a + k] = B[k]
    <2>1. A \in Seq(OutUnit) /\ B \in Seq(OutUnit)
      BY <1>2
    <2>2. /\ AB \in Seq(OutUnit) /\ Len(AB) = Len(A) + Len(B)
          /\ \A k \in 1 .. Len(A) : AB[k] = A[k]
          /\ \A k \in 1 .. Len(B) : AB[Len(A) + k] = B[k]
      BY <2>1, JoinFacts
    <2> QED BY <1>2, <2>2
  <1> HIDE DEF AB
  <1>6. /\ \A k \in 1 .. a + b : (AB \o C)[k] = AB[k]
        /\ \A k \in 1 .. c : (AB \o C)[(a + b) + k] = C[k]
    <2>1. AB \in Seq(OutUnit) /\ C \in Seq(OutUnit)
      BY <1>2, <1>5
    <2>2. /\ \A k \in 1 .. Len(AB) : (AB \o C)[k] = AB[k]
          /\ \A k \in 1 .. Len(C) : (AB \o C)[Len(AB) + k] = C[k]
      BY <2>1, JoinFacts
    <2> QED BY <1>2, <1>5, <2>2, ZenonT(60)
  <1>7. HeadUnits(bufs) = AB \o C
    BY <1>4 DEF AB
  <1> DEFINE H == HeadUnits(bufs)
  <1>8. /\ \A k \in 1 .. a + b : H[k] = AB[k]
        /\ \A k \in 1 .. c : H[(a + b) + k] = C[k]
    BY <1>6, <1>7
  <1> HIDE DEF H
  <1>9. \A k \in 1 .. a : H[k] = <<cur, 1, bufs[1].base + k>>
    <2>1. \A k \in 1 .. a : k \in 1 .. a + b
      BY <1>1
    <2> QED BY <1>3, <1>5, <1>8, <2>1
  <1>10. \A k \in 1 .. b : H[a + k] = <<cur, 2, bufs[2].base + k>>
    <2>1. \A k \in 1 .. b : a + k \in 1 .. a + b
      BY <1>1
    <2> QED BY <1>3, <1>5, <1>8, <2>1, ZenonT(60)
  <1>11. \A k \in 1 .. c : H[a + b + k] = <<cur, 3, bufs[3].base + k>>
    BY <1>3, <1>8
  <1> QED BY <1>9, <1>10, <1>11 DEF H, a, b, c

(* A writev that takes everything leaves nothing, one that stops in the    *)
(* first unsent buffer leaves the rest of that and the buffers after it.   *)
LEMMA AdvanceWhere ==
  ASSUME NEW bufs \in [1 .. 3 -> [base : Nat, len : Nat]], NEW rc \in Nat
  PROVE  LET new == Advance(bufs, rc)
         IN  /\ (\A i \in 1 .. 3 : bufs[i].len <= rc) => \A i \in 1 .. 3 : new[i].len = 0
             /\ \A i \in 1 .. 3 :
                  bufs[i].len > rc /\ (\A j \in 1 .. i - 1 : bufs[j].len = 0) =>
                    /\ \A j \in 1 .. i - 1 : new[j].len = 0
                    /\ new[i].base = bufs[i].base + rc /\ new[i].len = bufs[i].len - rc
                    /\ \A j \in i + 1 .. 3 : new[j] = bufs[j]
  <1> DEFINE stop == {i \in 1 .. 3 : bufs[i].len > rc}
             last == IF stop = {} THEN 4 ELSE CHOOSE i \in stop : \A j \in stop : i <= j
             new == Advance(bufs, rc)
  <1>1. new = [i \in 1 .. 3 |->
                 CASE i < last -> [base |-> bufs[i].base + rc, len |-> 0]
                   [] i = last -> [base |-> bufs[i].base + rc, len |-> bufs[i].len - rc]
                   [] i > last -> bufs[i]]
    BY DEF Advance
  <1>2. \A i \in 1 .. 3 : bufs[i].len \in Nat
    OBVIOUS
  <1>3. (\A i \in 1 .. 3 : bufs[i].len <= rc) => last = 4
    <2>1. ASSUME \A i \in 1 .. 3 : bufs[i].len <= rc PROVE stop = {}
      BY <1>2, <2>1
    <2> QED BY <2>1
  <1>4. ASSUME NEW i \in 1 .. 3, bufs[i].len > rc, \A j \in 1 .. i - 1 : bufs[j].len = 0
        PROVE  last = i
    <2>1. i \in stop
      BY <1>4
    <2>2. \A j \in stop : i <= j
      BY <1>2, <1>4
    <2>3. \A h \in stop : (\A j \in stop : h <= j) => h = i
      BY <2>1, <2>2
    <2>4. stop # {}
      BY <2>1
    <2> HIDE DEF stop
    <2> QED BY <2>1, <2>2, <2>3, <2>4
  <1> HIDE DEF last, new
  <1>5. last = 4 => \A i \in 1 .. 3 : new[i].len = 0
    BY <1>1
  <1>6. ASSUME NEW i \in 1 .. 3, last = i
        PROVE  /\ \A j \in 1 .. i - 1 : new[j].len = 0
               /\ new[i].base = bufs[i].base + rc /\ new[i].len = bufs[i].len - rc
               /\ \A j \in i + 1 .. 3 : new[j] = bufs[j]
    <2>1. ASSUME NEW j \in 1 .. i - 1 PROVE new[j].len = 0
      BY <1>1, <1>6, <2>1
    <2>2. new[i] = [base |-> bufs[i].base + rc, len |-> bufs[i].len - rc]
      BY <1>1, <1>6
    <2>3. ASSUME NEW j \in i + 1 .. 3 PROVE new[j] = bufs[j]
      BY <1>1, <1>6, <2>3
    <2> QED BY <2>1, <2>2, <2>3, SMTT(60)
  <1> QED BY <1>3, <1>4, <1>5, <1>6, SMTT(60) DEF new

LEMMA WritevLeaves ==
  ASSUME cur \in 1 .. N, NEW bufs \in [1 .. 3 -> [base : Nat, len : Nat]],
         NEW rc \in Writable(bufs), ~ Splits, TxSpace \in Nat
  PROVE  LET new == Advance(bufs, rc)
             h == HeadUnits(bufs)
         IN  /\ new \in [1 .. 3 -> [base : Nat, len : Nat]]
             /\ Len(HeadUnits(new)) = Len(h) - rc
             /\ \A k \in 1 .. Len(h) - rc : HeadUnits(new)[k] = h[rc + k]
  <1> DEFINE new == Advance(bufs, rc)
             h == HeadUnits(bufs)
             g == HeadUnits(new)
             a == bufs[1].len
             b == bufs[2].len
             c == bufs[3].len
             d == new[1].len
             e == new[2].len
             f == new[3].len
  <1>1. a \in Nat /\ b \in Nat /\ c \in Nat /\ \A i \in 1 .. 3 : bufs[i].base \in Nat
    OBVIOUS
  <1>2. Len(h) = a + b + c
    BY HeadUnitsFacts
  <1>3. rc \in Nat \ {0} /\ (rc = Len(h) \/ (rc < Len(h) /\ rc < FirstUnsent(bufs)))
    <2> DEFINE u == FirstUnsent(bufs)
    <2> HIDE DEF h, u
    <2>1. rc \in {n \in 1 .. TxSpace :
                    \/ n = Len(h)
                    \/ n < Len(h) /\ (Splits \/ n < u)}
      BY Zenon DEF Writable, h, u
    <2>2. rc \in 1 .. TxSpace /\ (rc = Len(h) \/ (rc < Len(h) /\ (Splits \/ rc < u)))
      BY <2>1
    <2>3. rc = Len(h) \/ (rc < Len(h) /\ rc < u)
      BY <2>2
    <2> QED BY <2>2, <2>3 DEF u
  <1>4. new \in [1 .. 3 -> [base : Nat, len : Nat]]
    BY <1>3, AdvanceFacts
  <1>5. Len(g) = d + e + f
    BY <1>4, HeadUnitsFacts
  <1>6. /\ \A k \in 1 .. a : h[k] = <<cur, 1, bufs[1].base + k>>
        /\ \A k \in 1 .. b : h[a + k] = <<cur, 2, bufs[2].base + k>>
        /\ \A k \in 1 .. c : h[a + b + k] = <<cur, 3, bufs[3].base + k>>
    BY HeadUnitAt
  <1>7. /\ \A k \in 1 .. d : g[k] = <<cur, 1, new[1].base + k>>
        /\ \A k \in 1 .. e : g[d + k] = <<cur, 2, new[2].base + k>>
        /\ \A k \in 1 .. f : g[d + e + k] = <<cur, 3, new[3].base + k>>
    BY <1>4, HeadUnitAt
  <1>8. /\ (a <= rc /\ b <= rc /\ c <= rc) => d = 0 /\ e = 0 /\ f = 0
        /\ a > rc => /\ new[1].base = bufs[1].base + rc /\ d = a - rc
                     /\ new[2].base = bufs[2].base /\ e = b
                     /\ new[3].base = bufs[3].base /\ f = c
        /\ b > rc /\ a = 0 => /\ new[2].base = bufs[2].base + rc /\ d = 0 /\ e = b - rc
                              /\ new[3].base = bufs[3].base /\ f = c
        /\ c > rc /\ a = 0 /\ b = 0 =>
             /\ d = 0 /\ e = 0
             /\ new[3].base = bufs[3].base + rc /\ f = c - rc
    <2>1. /\ (\A i \in 1 .. 3 : bufs[i].len <= rc) => \A i \in 1 .. 3 : new[i].len = 0
          /\ \A i \in 1 .. 3 :
               bufs[i].len > rc /\ (\A j \in 1 .. i - 1 : bufs[j].len = 0) =>
                 /\ \A j \in 1 .. i - 1 : new[j].len = 0
                 /\ new[i].base = bufs[i].base + rc /\ new[i].len = bufs[i].len - rc
                 /\ \A j \in i + 1 .. 3 : new[j] = bufs[j]
      BY <1>3, AdvanceWhere
    <2> HIDE DEF new
    <2>2. (a <= rc /\ b <= rc /\ c <= rc) => d = 0 /\ e = 0 /\ f = 0
      BY <2>1
    <2>3. a > rc => /\ new[1].base = bufs[1].base + rc /\ d = a - rc
                    /\ new[2].base = bufs[2].base /\ e = b
                    /\ new[3].base = bufs[3].base /\ f = c
      BY <2>1
    <2>4. b > rc /\ a = 0 => /\ new[2].base = bufs[2].base + rc /\ d = 0 /\ e = b - rc
                             /\ new[3].base = bufs[3].base /\ f = c
      BY <2>1
    <2>5. c > rc /\ a = 0 /\ b = 0 =>
            /\ d = 0 /\ e = 0
            /\ new[3].base = bufs[3].base + rc /\ f = c - rc
      BY <2>1
    <2> QED BY <2>2, <2>3, <2>4, <2>5
  <1>9. /\ a > 0 => FirstUnsent(bufs) = a
        /\ a = 0 /\ b > 0 => FirstUnsent(bufs) = b
        /\ a = 0 /\ b = 0 /\ c > 0 => FirstUnsent(bufs) = c
    <2> DEFINE P(j) == bufs[j].len > 0 /\ \A k \in 1 .. j - 1 : bufs[k].len = 0
    <2>1. FirstUnsent(bufs) = bufs[CHOOSE j \in 1 .. 3 : P(j)].len
      BY DEF FirstUnsent
    <2>2. ASSUME NEW i \in 1 .. 3, P(i) PROVE FirstUnsent(bufs) = bufs[i].len
      <3>1. \A j \in 1 .. 3 : P(j) => j = i
        BY <1>1, <2>2
      <3> HIDE DEF P
      <3>2. (CHOOSE j \in 1 .. 3 : P(j)) = i
        BY <2>2, <3>1
      <3> QED BY <2>1, <3>2
    <2>3. a > 0 => P(1)
      OBVIOUS
    <2>4. a = 0 /\ b > 0 => P(2)
      OBVIOUS
    <2>5. a = 0 /\ b = 0 /\ c > 0 => P(3)
      OBVIOUS
    <2> HIDE DEF P
    <2> QED BY <2>2, <2>3, <2>4, <2>5
  <1> SUFFICES Len(g) = Len(h) - rc /\ \A k \in 1 .. Len(h) - rc : g[k] = h[rc + k]
    BY <1>4
  <1> HIDE DEF a, b, c, d, e, f
  <1>10. CASE rc = Len(h)
    <2>1. a <= rc /\ b <= rc /\ c <= rc
      BY <1>1, <1>2, <1>10
    <2>2. Len(g) = 0
      BY <1>5, <1>8, <2>1
    <2> HIDE DEF h, g
    <2>3. Len(g) = Len(h) - rc /\ 1 .. Len(h) - rc = {}
      BY <1>3, <1>10, <2>2
    <2> QED BY <2>3
  <1> HIDE DEF new, h, g
  <1>11. CASE a > rc
    <2>1. /\ new[1].base = bufs[1].base + rc /\ d = a - rc
          /\ new[2].base = bufs[2].base /\ new[3].base = bufs[3].base /\ e = b /\ f = c
      BY <1>8, <1>11
    <2>2. Len(g) = Len(h) - rc
      <3>1. Len(h) = a + b + c /\ Len(g) = (a - rc) + b + c
        BY <1>2, <1>5, <2>1
      <3>2. (a - rc) + b + c = (a + b + c) - rc
        BY <1>1, <1>3
      <3> QED BY <3>1, <3>2
    <2>3. ASSUME NEW k \in 1 .. a - rc PROVE g[k] = h[rc + k]
      <3>1. rc + k \in 1 .. a /\ k \in Int
        BY <1>1, <1>3
      <3>2. g[k] = <<cur, 1, bufs[1].base + rc + k>>
        BY <1>7, <2>1
      <3>3. h[rc + k] = <<cur, 1, bufs[1].base + (rc + k)>>
        BY <1>6, <3>1
      <3>4. bufs[1].base + rc + k = bufs[1].base + (rc + k)
        BY <1>1, <1>3, <3>1, SMTT(60)
      <3> QED BY <3>2, <3>3, <3>4
    <2>4. ASSUME NEW k \in 1 .. b PROVE g[(a - rc) + k] = h[rc + ((a - rc) + k)]
      <3>1. g[(a - rc) + k] = <<cur, 2, bufs[2].base + k>>
        BY <1>7, <2>1
      <3>2. h[a + k] = <<cur, 2, bufs[2].base + k>>
        BY <1>6
      <3>3. a + k = rc + ((a - rc) + k)
        BY <1>1, <1>3
      <3> QED BY <3>1, <3>2, <3>3
    <2>5. ASSUME NEW k \in 1 .. c PROVE g[(a - rc) + b + k] = h[rc + ((a - rc) + b + k)]
      <3>1. g[(a - rc) + b + k] = <<cur, 3, bufs[3].base + k>>
        BY <1>7, <2>1
      <3>2. h[a + b + k] = <<cur, 3, bufs[3].base + k>>
        BY <1>6
      <3>3. a + b + k = rc + ((a - rc) + b + k)
        BY <1>1, <1>3
      <3> QED BY <3>1, <3>2, <3>3
    <2>6. ASSUME NEW k \in 1 .. Len(h) - rc PROVE g[k] = h[rc + k]
      <3>1. \/ k \in 1 .. a - rc
            \/ k - (a - rc) \in 1 .. b /\ k = (a - rc) + (k - (a - rc))
            \/ k - (a - rc) - b \in 1 .. c /\ k = (a - rc) + b + (k - (a - rc) - b)
        BY <1>1, <1>2, <1>3
      <3> QED BY <2>3, <2>4, <2>5, <3>1
    <2> QED BY <2>2, <2>6
  <1>12. CASE a = 0 /\ b > rc
    <2>1. /\ d = 0 /\ new[2].base = bufs[2].base + rc /\ e = b - rc
          /\ new[3].base = bufs[3].base /\ f = c
      BY <1>8, <1>12
    <2>2. Len(g) = Len(h) - rc
      BY SMTT(60), <1>1, <1>2, <1>3, <1>5, <1>12, <2>1
    <2>3. ASSUME NEW k \in 1 .. b - rc PROVE g[k] = h[rc + k]
      <3>1. rc + k \in 1 .. b /\ k \in Int
        BY <1>1, <1>3
      <3>2. g[0 + k] = <<cur, 2, bufs[2].base + rc + k>>
        BY <1>7, <2>1
      <3>3. h[0 + (rc + k)] = <<cur, 2, bufs[2].base + (rc + k)>>
        BY <1>6, <1>12, <3>1
      <3>4. /\ bufs[2].base + rc + k = bufs[2].base + (rc + k)
            /\ 0 + k = k /\ 0 + (rc + k) = rc + k
        BY <1>1, <1>3, <3>1, SMTT(60)
      <3> QED BY <3>2, <3>3, <3>4
    <2>4. ASSUME NEW k \in 1 .. c PROVE g[(b - rc) + k] = h[rc + ((b - rc) + k)]
      <3>1. g[0 + (b - rc) + k] = <<cur, 3, bufs[3].base + k>>
        BY <1>7, <2>1
      <3>2. h[0 + b + k] = <<cur, 3, bufs[3].base + k>>
        BY <1>6, <1>12
      <3>3. 0 + b + k = rc + ((b - rc) + k) /\ 0 + (b - rc) + k = (b - rc) + k
        BY <1>1, <1>3
      <3> QED BY <3>1, <3>2, <3>3
    <2>5. ASSUME NEW k \in 1 .. Len(h) - rc PROVE g[k] = h[rc + k]
      <3>1. \/ k \in 1 .. b - rc
            \/ k - (b - rc) \in 1 .. c /\ k = (b - rc) + (k - (b - rc))
        BY <1>1, <1>2, <1>3, <1>12
      <3> QED BY <2>3, <2>4, <3>1
    <2> QED BY <2>2, <2>5
  <1>13. CASE a = 0 /\ b = 0 /\ c > rc
    <2>1. /\ d = 0 /\ e = 0
          /\ new[3].base = bufs[3].base + rc /\ f = c - rc
      BY <1>8, <1>13
    <2>2. Len(g) = Len(h) - rc
      BY <1>1, <1>2, <1>3, <1>5, <1>13, <2>1
    <2>3. ASSUME NEW k \in 1 .. c - rc PROVE g[k] = h[rc + k]
      <3>1. rc + k \in 1 .. c /\ k \in Int
        BY <1>1, <1>3
      <3>2. g[0 + 0 + k] = <<cur, 3, bufs[3].base + rc + k>>
        BY <1>7, <2>1
      <3>3. h[0 + 0 + (rc + k)] = <<cur, 3, bufs[3].base + (rc + k)>>
        BY <1>6, <1>13, <3>1
      <3>4. /\ bufs[3].base + rc + k = bufs[3].base + (rc + k)
            /\ 0 + 0 + k = k /\ 0 + 0 + (rc + k) = rc + k
        BY <1>1, <1>3, <3>1, SMTT(60)
      <3> QED BY <3>2, <3>3, <3>4
    <2>4. Len(h) - rc = c - rc
      BY <1>1, <1>2, <1>3, <1>13
    <2> QED BY <2>2, <2>3, <2>4
  <1>14. rc = Len(h) \/ a > rc \/ (a = 0 /\ b > rc) \/ (a = 0 /\ b = 0 /\ c > rc)
    BY <1>1, <1>2, <1>3, <1>9, SMTT(60)
  <1> QED BY <1>10, <1>11, <1>12, <1>13, <1>14

LEMMA HeadUnitsOwn ==
  ASSUME cur \in 1 .. N, NEW bufs \in [1 .. 3 -> [base : Nat, len : Nat]],
         NEW k \in 1 .. Len(HeadUnits(bufs))
  PROVE  HeadUnits(bufs)[k][1] = cur
  <1> DEFINE h == HeadUnits(bufs)
             a == bufs[1].len
             b == bufs[2].len
             c == bufs[3].len
  <1>1. a \in Nat /\ b \in Nat /\ c \in Nat /\ Len(h) = a + b + c
    BY HeadUnitsFacts, SMTT(60)
  <1>2. /\ \A j \in 1 .. a : h[j] = <<cur, 1, bufs[1].base + j>>
        /\ \A j \in 1 .. b : h[a + j] = <<cur, 2, bufs[2].base + j>>
        /\ \A j \in 1 .. c : h[a + b + j] = <<cur, 3, bufs[3].base + j>>
    BY HeadUnitAt
  <1>3. k \in 1 .. Len(h)
    OBVIOUS
  <1> HIDE DEF h, a, b, c
  <1>4. \/ k \in 1 .. a
        \/ k - a \in 1 .. b /\ k = a + (k - a)
        \/ k - a - b \in 1 .. c /\ k = a + b + (k - a - b)
    BY <1>1, <1>3
  <1>5. h[k][1] = cur
    BY <1>2, <1>4, SMTT(60)
  <1> QED BY <1>5 DEF h

(* The units of a step that serves the same request.                       *)
LEMMA UnitsPrimed ==
  ASSUME served' = served
  PROVE  /\ cur' = cur
         /\ HeadUnits(resp.bufs)' = HeadUnits(resp'.bufs)
         /\ FileUnits(resp)' = FileUnits(resp')
         /\ SendsFile(resp)' = SendsFile(resp')
  BY DEF cur, HeadUnits, BufUnits, FileUnits, SendsFile

LEMMA FileOfResponse ==
  ASSUME IInv, Sending, Alive, pc # "close"
  PROVE  /\ cur \in 1 .. N /\ resp \in ResponseRecord
         /\ SendsFile(resp) => resp.fd = cur /\ resp.pos <= resp.end + 1
         /\ FileUnits(resp) \in Seq(OutUnit)
  <1>1. /\ N \in Nat /\ served \in 0 .. N /\ resp \in ResponseRecord /\ served < N
    BY RequestFacts DEF IInv, TypeOK, ControlOK, Sending, N
  <1>2. cur \in 1 .. N
    BY <1>1 DEF cur
  <1>3. SendsFile(resp) => resp.fd = cur
    BY DEF SendsFile, IInv, FileOwned
  <1>4. resp.fd = cur => resp.pos <= resp.end + 1
    BY DEF IInv, ResponseOK, Sending
  <1> QED BY <1>1, <1>2, <1>3, <1>4, FileUnitsFacts

(* Writing delivers the front of what is pending.                          *)
LEMMA WritevDelivers ==
  ASSUME IInv, Writev, ~ Splits
  PROVE  \E f \in Seq(OutUnit) :
           /\ f # <<>> /\ f[Len(f)][1] = cur /\ wire' = wire \o f
           /\ Pending' \in Seq(OutUnit) /\ Pending = f \o Pending'
  <1>1. PICK rc \in Nat :
          /\ rc > 0 /\ rc <= Len(HeadUnits(resp.bufs))
          /\ HeadUnits(resp.bufs) \in Seq(OutUnit) /\ cur \in 1 .. N
          /\ wire' = wire \o First(HeadUnits(resp.bufs), rc)
          /\ rc \in Writable(resp.bufs)
          /\ resp' = [resp EXCEPT !.bufs = Advance(resp.bufs, rc)]
          /\ IF AllSent(Advance(resp.bufs, rc))
               THEN req' = [req EXCEPT !.state = "SEND_FILE"] /\ pc' = "sendfile"
               ELSE UNCHANGED <<req, pc>>
    BY WritevUnits
  <1>2. /\ pc = "send" /\ req.state = "SEND" /\ served' = served
        /\ req \in RequestRecord /\ resp \in ResponseRecord /\ txq \in 0 .. TxCap /\ TxCap \in Nat
    BY BufferAssumption DEF Writev, IInv, ControlOK, TypeOK
  <1> DEFINE bufs == resp.bufs
             new == Advance(bufs, rc)
             h == HeadUnits(bufs)
             g == HeadUnits(new)
             F == FileUnits(resp)
             f == First(h, rc)
  <1>3. bufs \in [1 .. 3 -> [base : Nat, len : Nat]] /\ TxSpace \in Nat
    BY <1>2 DEF ResponseRecord, TxSpace
  <1>4. /\ new \in [1 .. 3 -> [base : Nat, len : Nat]]
        /\ Len(g) = Len(h) - rc
        /\ \A k \in 1 .. Len(h) - rc : g[k] = h[rc + k]
    BY <1>1, <1>3, WritevLeaves
  <1>5. resp'.bufs = new /\ FileUnits(resp') = F
    BY <1>1, <1>2, <1>4 DEF ResponseRecord, FileUnits, SendsFile
  <1>6. h \in Seq(OutUnit) /\ g \in Seq(OutUnit)
    BY <1>1, <1>4, HeadUnitsFacts
  <1>7. F \in Seq(OutUnit)
    BY <1>2, FileOfResponse DEF Sending, Alive
  <1>8. new[1].len = 0 /\ new[2].len = 0 /\ new[3].len = 0 => g = <<>>
    BY <1>1, <1>4, <1>6, HeadUnitsFacts, EmptySeq, SMTT(60)
  <1>9. /\ f \in Seq(OutUnit) /\ Len(f) = rc /\ \A k \in 1 .. rc : f[k] = h[k]
    BY <1>1, <1>6, FirstFacts
  <1>10. h = f \o g
    <2>1. Len(h) \in Nat
      BY <1>6, LenProperties
    <2> HIDE DEF f, g, h, new, F
    <2>2. Len(h) = Len(f) + Len(g)
      BY <1>4, <1>9, <2>1
    <2>3. \A k \in 1 .. Len(g) : g[k] = h[Len(f) + k]
      BY <1>4, <1>9
    <2>4. \A k \in 1 .. Len(f) : f[k] = h[k]
      BY <1>9
    <2> QED BY <1>6, <1>9, <2>2, <2>3, <2>4, Assembled
  <1>11. f # <<>> /\ f[Len(f)][1] = cur
    <2>1. rc \in 1 .. Len(h) /\ f[rc] = h[rc]
      BY <1>1, <1>6, <1>9, LenProperties
    <2>2. h[rc][1] = cur
      BY <1>1, <1>3, <2>1, HeadUnitsOwn
    <2> HIDE DEF f, h
    <2> QED BY <1>1, <1>9, <2>1, <2>2, EmptySeq
  <1>12. Pending = h \o F
    BY <1>2 DEF Pending
  <1>13. Pending' = g \o F
    <2>1. /\ HeadUnits(resp.bufs)' = g /\ FileUnits(resp)' = F
      BY <1>2, <1>5, UnitsPrimed
    <2>2. CASE AllSent(new)
      <3>1. req'.state = "SEND_FILE"
        BY <1>1, <1>2, <2>2 DEF RequestRecord
      <3>2. Pending' = FileUnits(resp)'
        BY <3>1 DEF Pending
      <3>3. g = <<>>
        BY <1>8, <2>2 DEF AllSent
      <3> HIDE DEF g, F
      <3>4. <<>> \o F = F
        BY <1>7, ConcatEmptySeq
      <3> QED BY <2>1, <3>2, <3>3, <3>4
    <2>3. CASE ~ AllSent(new)
      <3>1. req'.state = "SEND"
        BY <1>1, <1>2, <2>3
      <3> QED BY <2>1, <3>1 DEF Pending
    <2> QED BY <2>2, <2>3
  <1> HIDE DEF h, g, F, f, new, bufs
  <1>14. Pending' \in Seq(OutUnit)
    BY <1>6, <1>7, <1>13, JoinFacts
  <1>15. Pending = f \o Pending'
    <2>1. (f \o g) \o F = f \o (g \o F)
      BY <1>6, <1>7, <1>9, ConcatAssociative, SMTT(60)
    <2> QED BY <1>10, <1>12, <1>13, <2>1
  <1>16. wire' = wire \o f
    BY <1>1 DEF f, h, bufs
  <1> QED BY <1>9, <1>11, <1>14, <1>15, <1>16

LEMMA SendFileDelivers ==
  ASSUME IInv, SendFile
  PROVE  \E f \in Seq(OutUnit) :
           /\ f # <<>> /\ f[Len(f)][1] = cur /\ wire' = wire \o f
           /\ Pending' \in Seq(OutUnit) /\ Pending = f \o Pending'
  <1>1. PICK rc \in Nat, f \in Seq(OutUnit) :
          /\ rc > 0 /\ rc <= Left /\ cur \in 1 .. N /\ SendsFile(resp) /\ resp.fd = cur
          /\ Len(f) = rc /\ \A k \in 1 .. rc : f[k] = <<cur, 4, resp.pos + k>>
          /\ wire' = wire \o f
          /\ LET t == [resp EXCEPT !.pos = @ + rc]
             IN  IF t.pos > t.end THEN FileSent(t) ELSE resp' = t /\ UNCHANGED <<req, pc, files>>
    BY SendFileUnits
  <1>2. /\ pc = "sendfile" /\ req.state = "SEND_FILE" /\ served' = served
        /\ req \in RequestRecord /\ resp \in ResponseRecord
    BY DEF SendFile, IInv, ControlOK, TypeOK
  <1> DEFINE t == [resp EXCEPT !.pos = @ + rc]
             F == FileUnits(resp)
             g == Pending'
  <1>3. /\ resp.pos \in Nat /\ resp.end \in Int /\ Left = resp.end - resp.pos + 1
        /\ t.pos = resp.pos + rc /\ t.end = resp.end /\ t.fd = resp.fd /\ t \in ResponseRecord
    <2>1. /\ resp.pos \in Nat /\ resp.end \in Int /\ rc \in Nat
          /\ Left = resp.end - resp.pos + 1
      BY <1>2 DEF ResponseRecord, Left
    <2>2. resp.pos + rc \in Nat
      BY <2>1
    <2>3. /\ t.pos = resp.pos + rc /\ t.end = resp.end /\ t.fd = resp.fd /\ t \in ResponseRecord
      BY <1>2, <2>2 DEF ResponseRecord
    <2> QED BY <2>1, <2>3
  <1>4. IF t.pos > t.end THEN FileSent(t) ELSE resp' = t /\ UNCHANGED <<req, pc, files>>
    BY <1>1
  <1> HIDE DEF t
  <1>5. /\ F \in Seq(OutUnit) /\ Len(F) = Left
        /\ \A k \in 1 .. Left : F[k] = <<cur, 4, resp.pos + k>>
    <2>1. resp.pos <= resp.end + 1
      BY <1>1, <1>3
    <2> QED BY <1>1, <1>2, <1>3, <2>1, FileUnitsFacts
  <1>6. Pending = F
    BY <1>2 DEF Pending
  <1>7. f # <<>> /\ f[Len(f)][1] = cur
    BY <1>1, EmptySeq
  <1>8. /\ g \in Seq(OutUnit) /\ Len(g) = Left - rc
        /\ \A k \in 1 .. Left - rc : g[k] = <<cur, 4, resp.pos + rc + k>>
    <2>1. CASE t.pos > t.end
      <3>1. req'.state = "DONE"
        BY <1>2, <1>4, <2>1 DEF FileSent, RequestRecord
      <3>2. g = <<>>
        BY <3>1 DEF Pending
      <3>3. Left - rc = 0
        BY <1>1, <1>3, <2>1
      <3> HIDE DEF g
      <3>4. g \in Seq(OutUnit) /\ Len(g) = 0
        BY <3>2, EmptySeq
      <3> QED BY <3>3, <3>4
    <2>2. CASE ~ (t.pos > t.end)
      <3>1. resp' = t /\ req' = req
        BY <1>4, <2>2
      <3>2. g = FileUnits(resp)'
        BY <1>2, <3>1 DEF Pending
      <3>3. g = FileUnits(t) /\ SendsFile(t)
        BY <1>1, <1>2, <1>3, <3>1, <3>2, UnitsPrimed DEF SendsFile
      <3>4. t.pos <= t.end + 1
        BY <1>1, <1>3, <2>2
      <3> HIDE DEF g
      <3>5. /\ g \in Seq(OutUnit) /\ Len(g) = t.end - t.pos + 1
            /\ \A k \in 1 .. t.end - t.pos + 1 : g[k] = <<cur, 4, t.pos + k>>
        BY <1>1, <1>3, <3>3, <3>4, FileUnitsFacts
      <3>6. t.end - t.pos + 1 = Left - rc
        BY <1>1, <1>3
      <3> QED BY <1>3, <3>5, <3>6
    <2> QED BY <2>1, <2>2
  <1> HIDE DEF F, g
  <1>9. F = f \o g
    <2>1. Left \in Int
      BY <1>3
    <2>2. Len(F) = Len(f) + Len(g)
      BY <1>1, <1>5, <1>8, <2>1
    <2>3. ASSUME NEW k \in 1 .. Len(f) PROVE f[k] = F[k]
      <3>1. k \in 1 .. rc /\ k \in 1 .. Left
        BY <1>1, <2>1
      <3>2. f[k] = <<cur, 4, resp.pos + k>>
        BY <1>1, <3>1
      <3>3. F[k] = <<cur, 4, resp.pos + k>>
        BY <1>5, <3>1
      <3> QED BY <3>2, <3>3
    <2>4. ASSUME NEW k \in 1 .. Len(g) PROVE g[k] = F[Len(f) + k]
      <3>1. k \in 1 .. Left - rc /\ rc + k \in 1 .. Left
        BY <1>1, <1>8, <2>1, SMTT(60)
      <3>2. g[k] = <<cur, 4, resp.pos + rc + k>> /\ F[rc + k] = <<cur, 4, resp.pos + (rc + k)>>
        BY <1>5, <1>8, <3>1
      <3>3. resp.pos + rc + k = resp.pos + (rc + k)
        BY <1>1, <1>3, <3>1
      <3> QED BY <1>1, <3>2, <3>3
    <2> QED BY <1>5, <1>8, <2>2, <2>3, <2>4, Assembled
  <1> QED BY <1>1, <1>6, <1>7, <1>8, <1>9 DEF g

-----------------------------------------------------------------------------
(* A response is begun when enough of its request has arrived, and         *)
(* followed by another one only if it does not end the connection.         *)
LEMMA NeedMet ==
  ASSUME IInv, PrepareOk
  PROVE  Needed(cur) \in Int /\ Needed(cur) <= sent
  <1>1. /\ pc = "prepare" /\ Alive /\ resp.status # HANGUP /\ cur \in 1 .. N
    <2>1. pc = "prepare" /\ PrepareResponse(resp, Requests[cur].method).rc = 0
      BY DEF PrepareOk
    <2>2. resp.status # HANGUP
      <3>1. resp \in ResponseRecord /\ resp.pos = 0
        BY <2>1 DEF IInv, TypeOK, ResponseOK
      <3>2. resp.status = HANGUP => PrepareResponse(resp, Requests[cur].method).rc = -1
        BY <3>1, PrepareFacts
      <3> QED BY <2>1, <3>2
    <2>3. cur \in 1 .. N
      BY PreparedFacts
    <2> QED BY <2>1, <2>2, <2>3, SMTT(60) DEF Alive
  <1>2. /\ Base(cur) \in Nat /\ Held <= sent /\ sent \in Nat /\ Held \in Nat
        /\ Len(req_headers) \in Nat /\ Len(got) \in Nat
        /\ Base(cur) + Len(req_headers) <= Held
    BY <1>1, CurFacts DEF IInv
  <1>3. Requests[cur].hdr \in Nat /\ Requests[cur].reads \in Nat /\ BufSz \in Nat
    BY <1>1, RequestFacts, BufferAssumption
  <1>4. req_headers # <<>> => Len(req_headers) >= 1
    BY <1>2, EmptySeq DEF IInv, TypeOK
  <1>5. \/ Answered
        \/ resp.status = BadRequest /\ Spoiled(cur) /\ req_headers # <<>>
        \/ Len(req_headers) = BufSz /\ (Spoiled(cur) \/ Requests[cur].hdr > BufSz)
    BY <1>1 DEF IInv, ResponseOK, Refused
  <1>6. BufSz >= 1
    BY BufferAssumption
  <1>7. CASE Answered
    <2>1. /\ ~ Spoiled(cur) /\ Requests[cur].hdr = req.payload
          /\ req.payload + req.payload_len = Len(req_headers)
          /\ Len(got) = Requests[cur].reads
          /\ req.payload_pos <= req.payload_len
          /\ req.payload_len \in Nat /\ req.payload_pos \in Nat /\ req.payload \in Nat
      BY <1>7, ServingFacts DEF Answered
    <2>2. Len(req_headers) <= BufSz
      BY DEF IInv, TypeOK
    <2>3. Needed(cur) = Base(cur) + (Requests[cur].hdr + Requests[cur].reads)
      <3>1. ~ (Requests[cur].hdr > BufSz)
        BY <1>2, <1>3, <2>1, <2>2, SMTT(60)
      <3> QED BY <2>1, <3>1 DEF Needed
    <2>4. Held = Base(cur) + Len(req_headers) + Len(got) - req.payload_pos
      BY DEF Held
    <2> HIDE DEF Held, cur
    <2>5. Base(cur) + (Requests[cur].hdr + Requests[cur].reads) <= Held
      BY SMTT(60), <1>2, <1>3, <2>1, <2>4
    <2> QED BY <1>2, <1>3, <2>3, <2>5, SMTT(60)
  <1>8. CASE Spoiled(cur) /\ Len(req_headers) >= 1
    <2>1. Needed(cur) = Base(cur) + 1
      BY <1>8 DEF Needed
    <2> HIDE DEF Held, cur
    <2> QED BY <1>2, <1>8, <2>1
  <1>9. CASE Len(req_headers) = BufSz /\ Requests[cur].hdr > BufSz /\ ~ Spoiled(cur)
    <2>1. Needed(cur) = Base(cur) + BufSz
      BY <1>9 DEF Needed
    <2> HIDE DEF Held, cur
    <2> QED BY <1>2, <1>3, <1>9, <2>1
  <1> QED BY <1>4, <1>5, <1>6, <1>7, <1>8, <1>9

LEMMA GoesOn ==
  ASSUME IInv, Finalize
  PROVE  ~ Ends(cur) /\ served' = cur /\ cur \in 1 .. N /\ req.state = "DONE"
  <1>1. /\ pc = "done" /\ ~ LastOne /\ served' = cur /\ req.state = "DONE"
    BY DEF Finalize, cur, IInv, ControlOK
  <1>2. Answered /\ ~ Overruns(Requests[cur])
    BY <1>1 DEF LastOne, IInv, ResponseOK
  <1>3. /\ ~ Spoiled(cur) /\ req.payload = Requests[cur].hdr /\ req.payload_len \in Nat
        /\ req.payload \in Nat
        /\ req.payload + req.payload_len = Len(req_headers) /\ cur \in 1 .. N
    BY <1>2, ServingFacts DEF Answered
  <1>4. Len(req_headers) <= BufSz /\ BufSz \in Nat
    BY BufferAssumption DEF IInv, TypeOK
  <1>5. ~ (Requests[cur].hdr > BufSz)
    BY <1>3, <1>4
  <1>6. ~ StatusIsError(Requests[cur].reply.status) /\ ~ Requests[cur].v10
    BY <1>1, <1>2 DEF LastOne, Answered
  <1> QED BY <1>1, <1>2, <1>3, <1>5, <1>6 DEF Ends

LEMMA PreparedBegins ==
  ASSUME IInv, PromiseOK, PrepareOk
  PROVE  /\ Abstract!Begin /\ PromiseOK'
  <1>1. /\ cur \in 1 .. N /\ resp' \in ResponseRecord /\ resp'.pos = 0
        /\ resp'.bufs[1].len = StartLen /\ Alive /\ req.state = "PREPARE_RESPONSE"
        /\ resp'.fd > 0 => resp'.fd = cur /\ resp'.end >= -1
        /\ due' = due \o HeadUnits(resp'.bufs) \o FileUnits(resp')
        /\ req'.state = "SEND" /\ pc' = "send"
        /\ UNCHANGED <<sent, served, wire>>
    BY PreparedFacts DEF netvars
  <1>2. due \in Seq(OutUnit) /\ wire \in Seq(OutUnit) /\ N \in Nat /\ served \in 0 .. N
    BY RequestFacts DEF IInv, TypeOK, N
  <1> DEFINE h == HeadUnits(resp'.bufs)
             F == FileUnits(resp')
             hF == h \o F
             bufs == resp'.bufs
  <1>3. bufs \in [1 .. 3 -> [base : Nat, len : Nat]]
    BY <1>1 DEF ResponseRecord
  <1>4. h \in Seq(OutUnit) /\ Len(h) = bufs[1].len + bufs[2].len + bufs[3].len
    BY <1>1, <1>3, HeadUnitsFacts
  <1>5. Len(h) > 0
    <2> HIDE DEF h
    <2>1. bufs[1].len \in Nat \ {0} /\ bufs[2].len \in Nat /\ bufs[3].len \in Nat
      BY <1>1, <1>3, SMTT(60) DEF StartLen
    <2> HIDE DEF bufs
    <2> QED BY SMTT(60), <1>4, <2>1
  <1>6. \A k \in 1 .. Len(h) : h[k][1] = cur
    BY <1>1, <1>3, HeadUnitsOwn
  <1>7. SendsFile(resp') => resp'.pos <= resp'.end + 1
    BY SMTT(60), <1>1 DEF SendsFile, ResponseRecord
  <1>8. /\ F \in Seq(OutUnit)
        /\ \A k \in 1 .. Len(F) : F[k][1] = cur
    <2>1. /\ F \in Seq(OutUnit)
          /\ SendsFile(resp') => /\ Len(F) = resp'.end - resp'.pos + 1
                                 /\ \A k \in 1 .. resp'.end - resp'.pos + 1 :
                                      F[k] = <<cur, 4, resp'.pos + k>>
          /\ ~ SendsFile(resp') => F = <<>>
      BY <1>1, <1>7, FileUnitsFacts
    <2> HIDE DEF F
    <2>2. CASE SendsFile(resp')
      BY <2>1, <2>2
    <2>3. CASE ~ SendsFile(resp')
      BY <2>1, <2>3, EmptySeq
    <2> QED BY <2>1, <2>2, <2>3
  <1>9. Pending' = hF
    <2>1. HeadUnits(resp.bufs)' = h /\ FileUnits(resp)' = F
      BY <1>1, UnitsPrimed
    <2>2. Pending' = HeadUnits(resp.bufs)' \o FileUnits(resp)'
      BY <1>1 DEF Pending
    <2> HIDE DEF h, F
    <2> QED BY <2>1, <2>2
  <1>10. due' = (due \o h) \o F
    BY <1>1
  <1> HIDE DEF h, F
  <1>11. /\ hF \in Seq(OutUnit) /\ Len(hF) = Len(h) + Len(F)
         /\ Len(hF) > 0 /\ hF # <<>>
    <2>1. hF \in Seq(OutUnit) /\ Len(hF) = Len(h) + Len(F)
      BY <1>4, <1>8, JoinFacts
    <2>2. Len(h) \in Nat /\ Len(F) \in Nat
      BY <1>4, <1>8, LenProperties
    <2> HIDE DEF hF
    <2> QED BY <1>5, <2>1, <2>2, EmptySeq
  <1>12. \A k \in 1 .. Len(hF) : hF[k][1] = cur
    <2>1. /\ \A k \in 1 .. Len(h) : hF[k] = h[k]
          /\ \A k \in Len(h) + 1 .. Len(h) + Len(F) : hF[k] = F[k - Len(h)]
      BY <1>4, <1>8, JoinFacts, SMTT(60)
    <2>2. Len(h) \in Nat /\ Len(F) \in Nat /\ Len(hF) = Len(h) + Len(F)
      BY <1>4, <1>8, <1>11, LenProperties
    <2> HIDE DEF hF, bufs
    <2>3. ASSUME NEW k \in 1 .. Len(hF) PROVE hF[k][1] = cur
      <3>1. CASE k <= Len(h)
        <4>1. k \in 1 .. Len(h)
          BY <2>2, <3>1
        <4> QED BY <1>6, <2>1, <4>1
      <3>2. CASE k > Len(h)
        <4>1. k \in Len(h) + 1 .. Len(h) + Len(F) /\ k - Len(h) \in 1 .. Len(F)
          BY <2>2, <3>2
        <4> QED BY <1>8, <2>1, <4>1
      <3> QED BY <2>2, <3>1, <3>2
    <2> QED BY <2>3
  <1>13. due' = due \o hF
    <2>1. due \in Seq(OutUnit) /\ h \in Seq(OutUnit) /\ F \in Seq(OutUnit)
      BY <1>2, <1>4, <1>8
    <2>2. (due \o h) \o F = due \o (h \o F)
      BY <2>1, ConcatAssociative, SMTT(60)
    <2> QED BY <1>10, <2>2
  <1>14. due = wire
    <2>1. Pending = <<>>
      BY <1>1 DEF Pending
    <2>2. due = wire \o <<>>
      BY <1>1, <2>1 DEF PromiseOK
    <2> QED BY <1>2, <2>2, ConcatEmptySeq
  <1> HIDE DEF hF, bufs
  <1>15. /\ due' \in Seq(OutUnit) /\ Len(due') = Len(due) + Len(hF)
         /\ \A k \in 1 .. Len(hF) : due'[Len(due) + k] = hF[k]
         /\ \A k \in Len(due) + 1 .. Len(due) + Len(hF) : due'[k] = hF[k - Len(due)]
    <2>1. due \in Seq(OutUnit) /\ hF \in Seq(OutUnit)
      BY <1>2, <1>11
    <2>2. /\ due \o hF \in Seq(OutUnit) /\ Len(due \o hF) = Len(due) + Len(hF)
          /\ \A k \in 1 .. Len(hF) : (due \o hF)[Len(due) + k] = hF[k]
          /\ \A k \in Len(due) + 1 .. Len(due) + Len(hF) : (due \o hF)[k] = hF[k - Len(due)]
      BY <2>1, JoinFacts
    <2> QED BY <1>13, <2>2
  <1>16. Len(due) \in Nat /\ Len(hF) \in Nat /\ served \in Nat /\ served + 1 = cur
    BY <1>2, <1>11, LenProperties DEF cur
  <1>17. Abstract!begun = served /\ (served > 0 => ~ Ends(served))
    BY <1>1 DEF PromiseOK, Sending
  <1>18. Abstract!Begin
    <2>1. Abstract!IsStrictPrefix(due, due')
      BY <1>2, <1>11, <1>13, GrowsFacts
    <2>2. \A k \in Len(due) + 1 .. Len(due') : due'[k][1] = Abstract!begun + 1
      <3>1. ASSUME NEW k \in Len(due) + 1 .. Len(due') PROVE due'[k][1] = cur
        <4>1. k \in Len(due) + 1 .. Len(due) + Len(hF) /\ k - Len(due) \in 1 .. Len(hF)
          BY <1>15, <1>16
        <4> QED BY <1>12, <1>15, <4>1
      <3> QED BY <1>16, <1>17, <3>1
    <2>3. Abstract!begun \notin {i \in 1 .. Len(Requests) : Ends(i)}
      BY <1>16, <1>17
    <2>4. cur \in DOMAIN [i \in 1 .. Len(Requests) |-> Needed(i)]
          /\ [i \in 1 .. Len(Requests) |-> Needed(i)][cur] <= sent
      BY <1>1, NeedMet DEF N
    <2>5. Abstract!Whole
      BY <1>14 DEF Abstract!Whole
    <2> QED BY <1>1, <1>16, <1>17, <2>1, <2>2, <2>3, <2>4, <2>5 DEF Abstract!Begin, Alive
  <1>19. PromiseOK'
    <2>1. due' = wire' \o Pending'
      BY <1>1, <1>9, <1>13, <1>14
    <2>2. Abstract!begun' = cur'
      <3>1. due' # <<>>
        BY <1>11, <1>15, <1>16, EmptySeq
      <3>2. due'[Len(due')][1] = cur
        BY <1>11, <1>12, <1>15, <1>16
      <3>3. cur' = cur
        BY <1>1 DEF cur
      <3>4. (due # <<>> => Abstract!begun = due[Len(due)][1])'
        BY BegunFacts, PTL
      <3> QED BY <3>1, <3>2, <3>3, <3>4
    <2>3. (served > 0 => ~ Ends(served))'
      BY <1>1, <1>17 DEF Ends, Spoiled, UnreadBefore
    <2> QED BY <1>1, <2>1, <2>2, <2>3 DEF PromiseOK, Sending
  <1> QED BY <1>18, <1>19

-----------------------------------------------------------------------------
(* What is due stays due until the next response is begun.                 *)
LEMMA BegunKept ==
  ASSUME due' = due
  PROVE  Abstract!begun' = Abstract!begun
  BY DEF Abstract!begun, Abstract!Last

LEMMA EndsKept ==
  ASSUME served' = served
  PROVE  /\ cur' = cur
         /\ (served > 0 => ~ Ends(served))' <=> (served > 0 => ~ Ends(served))
  BY DEF cur, Ends, Spoiled, UnreadBefore

(* A step that leaves what is pending, due and served has promised nothing. *)
LEMMA NothingPromised ==
  ASSUME PromiseOK, UNCHANGED <<due, wire, served>>, Alive' => Alive,
         Pending' = Pending, Sending' <=> Sending,
         req'.state = "SEND_FILE" => req.state = "SEND_FILE"
  PROVE  PromiseOK'
  <1>1. Abstract!begun' = Abstract!begun
    BY BegunKept
  <1>2. /\ cur' = cur
        /\ (served > 0 => ~ Ends(served))' <=> (served > 0 => ~ Ends(served))
    BY EndsKept
  <1>3. ASSUME Alive PROVE due' = wire' \o Pending'
    BY <1>3 DEF PromiseOK
  <1>4. ASSUME Alive PROVE Abstract!begun' = IF Sending' THEN cur' ELSE served'
    BY <1>1, <1>2, <1>4 DEF PromiseOK
  <1>5. ASSUME Alive, req'.state = "SEND_FILE"
        PROVE  wire' # <<>> /\ wire'[Len(wire')][1] = cur'
    BY <1>2, <1>5 DEF PromiseOK
  <1>6. ASSUME Alive PROVE (served > 0 => ~ Ends(served))'
    BY <1>2, <1>6 DEF PromiseOK
  <1> QED BY <1>3, <1>4, <1>5, <1>6 DEF PromiseOK

LEMMA WritingDelivers ==
  ASSUME IInv, PromiseOK, Writev \/ SendFile, ~ Splits
  PROVE  Abstract!Deliver /\ PromiseOK'
  <1>1. PICK f \in Seq(OutUnit) :
           /\ f # <<>> /\ f[Len(f)][1] = cur /\ wire' = wire \o f
           /\ Pending' \in Seq(OutUnit) /\ Pending = f \o Pending'
    BY WritevDelivers, SendFileDelivers
  <1>2. /\ UNCHANGED <<sent, due, served>> /\ Alive /\ pc \in {"send", "sendfile"}
        /\ req.state \in {"SEND", "SEND_FILE"}
        /\ req'.state \in {"SEND", "SEND_FILE", "DONE"} /\ Alive'
    <2>1. CASE Writev
      <3>1. /\ pc' \in {"send", "sendfile"} /\ req.state = "SEND" /\ pc = "send"
            /\ req'.state \in {"SEND", "SEND_FILE"} /\ UNCHANGED <<sent, due>>
        BY <2>1, WritevFacts
      <3> QED BY <2>1, <3>1 DEF Writev, Alive
    <2>2. CASE SendFile
      <3>1. /\ \/ req' = req /\ pc' = pc
               \/ pc' = "done" /\ req'.state = "DONE"
            /\ pc = "sendfile" /\ req.state = "SEND_FILE" /\ UNCHANGED <<sent, due>>
        BY <2>2, SendFileFacts
      <3> QED BY <2>2, <3>1 DEF SendFile, Alive
    <2> QED BY <2>1, <2>2
  <1>3. wire \in Seq(OutUnit) /\ due \in Seq(OutUnit)
    BY DEF IInv, TypeOK
  <1>4. due = wire' \o Pending'
    <2>1. due = wire \o Pending
      BY <1>2 DEF PromiseOK
    <2>2. (wire \o f) \o Pending' = wire \o (f \o Pending')
      BY <1>1, <1>3, ConcatAssociative, SMTT(60)
    <2> QED BY <1>1, <2>1, <2>2
  <1>5. wire' \in Seq(OutUnit)
    BY <1>1, <1>3, JoinFacts
  <1>6. Abstract!Deliver
    <2>1. Abstract!IsStrictPrefix(wire, wire')
      BY <1>1, <1>3, GrowsFacts
    <2>2. Abstract!IsPrefix(wire', due)
      BY <1>1, <1>4, <1>5, GrowsFacts
    <2> QED BY <1>2, <2>1, <2>2 DEF Abstract!Deliver, Alive
  <1>7. wire' # <<>> /\ wire'[Len(wire')][1] = cur
    BY <1>1, <1>3, EndsWith
  <1>8. /\ cur' = cur /\ Abstract!begun' = Abstract!begun
        /\ (served > 0 => ~ Ends(served))' <=> (served > 0 => ~ Ends(served))
    BY <1>2, BegunKept, EndsKept
  <1>9. Abstract!begun = cur /\ (served > 0 => ~ Ends(served))
    BY <1>2 DEF PromiseOK, Sending
  <1>10. due' = wire' \o Pending'
    BY <1>2, <1>4
  <1>11. Abstract!begun' = IF Sending' THEN cur' ELSE served'
    BY <1>2, <1>8, <1>9 DEF Sending
  <1>12. (served > 0 => ~ Ends(served))'
    BY <1>8, <1>9
  <1> QED BY <1>6, <1>7, <1>8, <1>10, <1>11, <1>12 DEF PromiseOK

(* A file that has shrunk cuts its response short.                         *)
LEMMA ShortCuts ==
  ASSUME IInv, PromiseOK, SendFileShort
  PROVE  Abstract!Cut /\ PromiseOK'
  <1>1. /\ pc = "sendfile" /\ SendsFile(resp) /\ Left > 0 /\ Requests[cur].reply.shrinks
        /\ req' = [req EXCEPT !.state = "DONE"] /\ pc' = "done"
        /\ due' = wire /\ UNCHANGED <<sent, served, wire>>
    BY DEF SendFileShort, netvars
  <1>2. /\ Alive /\ Alive' /\ req.state = "SEND_FILE" /\ req'.state = "DONE"
        /\ wire \in Seq(OutUnit)
    BY <1>1 DEF IInv, ControlOK, TypeOK, Alive, RequestRecord
  <1>3. /\ cur \in 1 .. N /\ resp \in ResponseRecord
        /\ SendsFile(resp) => resp.pos <= resp.end + 1
    BY <1>1, <1>2, FileOfResponse DEF Sending
  <1>4. FileUnits(resp) \in Seq(OutUnit) /\ Len(FileUnits(resp)) = Left
    BY <1>1, <1>3, FileUnitsFacts DEF Left
  <1>5. Pending = FileUnits(resp) /\ Pending' = <<>>
    BY <1>2 DEF Pending
  <1>6. Abstract!begun = cur /\ due = wire \o Pending /\ wire # <<>>
        /\ wire[Len(wire)][1] = cur /\ (served > 0 => ~ Ends(served))
    BY <1>2 DEF PromiseOK, Sending
  <1>7. due # wire
    <2>1. FileUnits(resp) # <<>>
      BY <1>1, <1>4, EmptySeq
    <2> QED BY <1>2, <1>4, <1>5, <1>6, <2>1, ConcatEqualIffEmpty
  <1>8. Abstract!Cut
    BY <1>1, <1>2, <1>3, <1>6, <1>7 DEF Abstract!Cut, Abstract!Whole, Alive, N
  <1>9. PromiseOK'
    <2>1. due' = wire' \o Pending'
      BY <1>1, <1>2, <1>5, ConcatEmptySeq
    <2>2. /\ cur' = cur
          /\ (served > 0 => ~ Ends(served))' <=> (served > 0 => ~ Ends(served))
      BY <1>1, EndsKept
    <2>3. (due # <<>> => Abstract!begun = due[Len(due)][1])'
      BY BegunFacts, PTL
    <2>4. Abstract!begun' = cur'
      BY <1>1, <1>6, <2>2, <2>3
    <2> QED BY <1>2, <1>6, <2>1, <2>2, <2>4 DEF PromiseOK, Sending
  <1> QED BY <1>8, <1>9

-----------------------------------------------------------------------------
(* The steps the peer cannot see.                                          *)
LEMMA QuietPromises ==
  ASSUME IInv, PromiseOK, Quiet
  PROVE  PromiseOK' /\ UNCHANGED <<due, wire>> /\ Alive' = Alive
  <1>1. /\ UNCHANGED <<req, resp, due, wire, served>> /\ (Alive' <=> Alive)
    BY QuietFacts DEF outvars
  <1>2. Pending' = Pending /\ (Sending' <=> Sending)
    BY <1>1, UnitsPrimed DEF Pending, Sending
  <1>3. PromiseOK'
    BY <1>1, <1>2, NothingPromised
  <1> QED BY <1>1, <1>3 DEF Alive

Before == {"READ", "SERVE", "PREPARE_RESPONSE"}
LEMMA ReadingPromises ==
  ASSUME PromiseOK, req.state \in Before, req'.state \in Before, Alive,
         UNCHANGED <<due, wire, served>>
  PROVE  PromiseOK'
  <1>1. Pending = <<>> /\ Pending' = <<>> /\ ~ Sending /\ ~ Sending'
    BY DEF Pending, Sending, Before
  <1> QED BY <1>1, NothingPromised DEF Before

Reads == \/ RecvData \/ RecvLeftover \/ RecvFull \/ RecvHangup \/ ServeStatic
         \/ HandlerAnswer \/ HandlerRead \/ PayloadData \/ PayloadError \/ PrepareFail
LEMMA ReadsPromise ==
  ASSUME IInv, PromiseOK, Reads
  PROVE  PromiseOK' /\ UNCHANGED <<sent, due, wire>> /\ Alive' = Alive
  <1>1. req \in RequestRecord /\ ControlOK
    BY DEF IInv, TypeOK
  <1> USE DEF netvars, outvars, callvars, Before, Alive
  <1>2. CASE RecvData \/ RecvLeftover
    <2>1. /\ UNCHANGED <<sent, due, wire, served>> /\ Alive /\ Alive'
          /\ req.state \in Before /\ req'.state \in Before
      BY <1>2, RecvRequest
    <2> QED BY <2>1, ReadingPromises
  <1>3. CASE RecvFull \/ PayloadError
    <2>1. /\ UNCHANGED <<sent, due, wire, served>> /\ Alive /\ pc' = "prepare"
          /\ req' = [req EXCEPT !.state = "PREPARE_RESPONSE"] /\ req.state \in Before
      BY <1>1, <1>3 DEF RecvFull, PayloadError, Prepare, ControlOK
    <2>2. req'.state \in Before
      BY <1>1, <2>1 DEF RequestRecord
    <2> QED BY <2>1, <2>2, ReadingPromises
  <1>4. CASE RecvHangup \/ PrepareFail
    <2>1. /\ UNCHANGED <<sent, due, wire, served>> /\ Alive /\ pc' = "close"
          /\ req' = req /\ req.state \in Before
      BY <1>1, <1>4 DEF RecvHangup, PrepareFail, Drop, ControlOK
    <2> QED BY <2>1, ReadingPromises
  <1>5. CASE ServeStatic \/ HandlerAnswer
    <2>1. /\ UNCHANGED <<sent, due, wire, served>> /\ Alive /\ Alive'
          /\ req.state \in Before /\ req'.state \in Before
      BY <1>5, ServedFacts
    <2> QED BY <2>1, ReadingPromises
  <1>6. CASE HandlerRead
    <2>1. /\ UNCHANGED <<sent, due, wire, served>> /\ pc = "handler"
          /\ pc' \in {"handler", "payload"} /\ req.state = "SERVE"
      BY <1>1, <1>6 DEF HandlerRead, ControlOK
    <2>2. PICK m : req' = [req EXCEPT !.payload_pos = @ + m]
      BY <1>6 DEF HandlerRead
    <2>3. req'.state = "SERVE"
      BY <1>1, <2>1, <2>2 DEF RequestRecord
    <2> QED BY <2>1, <2>3, ReadingPromises
  <1>7. CASE PayloadData
    <2>1. /\ UNCHANGED <<sent, due, wire, served, req>> /\ pc = "payload"
          /\ pc' \in {"handler", "payload"} /\ req.state = "SERVE"
      BY <1>1, <1>7 DEF PayloadData, ControlOK
    <2> QED BY <2>1, ReadingPromises
  <1> QED BY <1>2, <1>3, <1>4, <1>5, <1>6, <1>7 DEF Reads

LEMMA SentPromises ==
  ASSUME IInv, PromiseOK, SendFileNone \/ SendFileEmpty
  PROVE  PromiseOK' /\ UNCHANGED <<sent, due, wire>> /\ Alive' = Alive
  <1>1. /\ pc = "sendfile" /\ req.state = "SEND_FILE" /\ pc' = "done"
        /\ req' = [req EXCEPT !.state = "DONE"] /\ UNCHANGED <<sent, due, wire, served>>
        /\ SendsFile(resp) => Left = 0
    BY DEF SendFileNone, SendFileEmpty, FileSent, IInv, ControlOK, netvars, outvars
  <1>2. req'.state = "DONE" /\ Alive /\ Alive'
    BY <1>1 DEF IInv, TypeOK, RequestRecord, Alive
  <1>3. /\ cur \in 1 .. N /\ resp \in ResponseRecord
        /\ SendsFile(resp) => resp.pos <= resp.end + 1
    BY <1>1, <1>2, FileOfResponse DEF Sending
  <1>4. FileUnits(resp) = <<>>
    <2>1. /\ FileUnits(resp) \in Seq(OutUnit)
          /\ SendsFile(resp) => Len(FileUnits(resp)) = Left
          /\ ~ SendsFile(resp) => FileUnits(resp) = <<>>
      BY <1>3, FileUnitsFacts DEF Left
    <2> QED BY <1>1, <2>1, EmptySeq
  <1>5. Pending = <<>> /\ Pending' = <<>> /\ Sending /\ Sending'
    BY <1>1, <1>2, <1>4 DEF Pending, Sending
  <1>6. PromiseOK'
    BY <1>1, <1>2, <1>5, NothingPromised
  <1> QED BY <1>1, <1>2, <1>6 DEF Alive

LEMMA FinalizePromises ==
  ASSUME IInv, PromiseOK, Finalize
  PROVE  PromiseOK' /\ UNCHANGED <<sent, due, wire>> /\ Alive' = Alive
  <1>1. /\ ~ Ends(cur) /\ served' = cur /\ cur \in 1 .. N /\ req.state = "DONE"
    BY GoesOn
  <1>2. /\ pc = "done" /\ pc' = "recv" /\ req' = ZeroRequest
        /\ UNCHANGED <<sent, due, wire>>
    BY DEF Finalize, netvars
  <1>3. req'.state = "READ"
    BY <1>2, ZeroFacts
  <1>4. Pending = <<>> /\ Pending' = <<>> /\ Sending /\ ~ Sending'
    BY <1>1, <1>3 DEF Pending, Sending
  <1>5. Abstract!begun = cur /\ due = wire \o Pending
    BY <1>2, <1>4 DEF PromiseOK, Alive
  <1>6. Abstract!begun' = served'
    BY <1>1, <1>2, <1>5, BegunKept
  <1>7. ~ Ends(served)'
    BY <1>1, <1>2 DEF Ends, Spoiled, UnreadBefore, cur
  <1>8. PromiseOK'
    BY <1>2, <1>3, <1>4, <1>5, <1>6, <1>7 DEF PromiseOK
  <1> QED BY <1>2, <1>8 DEF Alive

-----------------------------------------------------------------------------
(* A step of the connection is one of the abstract connection, or leaves   *)
(* what the peer can see unchanged, and keeps PromiseOK.                   *)
LEMMA RefinementStep ==
  ASSUME ~ Splits, IInv, PromiseOK, [Next]_vars
  PROVE  [Abstract!Next]_Abstract!vars /\ PromiseOK'
  <1> USE DEF Abstract!vars
  <1>1. CASE PeerSend
    <2>1. PromiseOK' /\ UNCHANGED <<due, wire>> /\ Alive' = Alive
      BY <1>1, QuietPromises DEF Quiet, Peer
    <2>2. Alive /\ sent' = sent + 1
      BY <1>1 DEF PeerSend
    <2> QED BY <2>1, <2>2 DEF Abstract!Arrive, Abstract!Next
  <1>2. CASE Quiet /\ ~ PeerSend
    <2>1. PromiseOK' /\ UNCHANGED <<due, wire>> /\ Alive' = Alive
      BY <1>2, QuietPromises
    <2>2. UNCHANGED sent
      <3>1. CASE Peer
        BY <1>2, <3>1 DEF Peer, PeerShutdown, PeerReset, PeerReceive
      <3>2. CASE ~ Peer
        BY <1>2, <3>2 DEF Quiet, RecvBlock, ServeApi, PayloadPartial, PayloadBlock,
             PayloadEof, WritevBlock, WritevError, SendFileBlock, SendFileError,
             EndConnection, Event, vars, netvars
      <3> QED BY <3>1, <3>2
    <2> QED BY <2>1, <2>2
  <1>3. CASE Reads
    BY <1>3, ReadsPromise
  <1>4. CASE PrepareOk
    BY <1>4, PreparedBegins DEF Abstract!Next
  <1>5. CASE Writev \/ SendFile
    BY <1>5, WritingDelivers DEF Abstract!Next
  <1>6. CASE SendFileNone \/ SendFileEmpty
    BY <1>6, SentPromises
  <1>7. CASE SendFileShort
    BY <1>7, ShortCuts DEF Abstract!Next
  <1>8. CASE Finalize
    BY <1>8, FinalizePromises
  <1>9. CASE Close
    <2>1. pc = "close" /\ pc' = "closed" /\ UNCHANGED <<sent, due, wire>>
      BY <1>9 DEF Close, netvars, outvars
    <2>2. Alive /\ Alive' = FALSE
      BY <2>1 DEF Alive
    <2>3. PromiseOK'
      BY <2>2 DEF PromiseOK
    <2> QED BY <2>1, <2>2, <2>3, ZenonT(40) DEF Abstract!Close, Abstract!Next
  <1> QED BY <1>1, <1>2, <1>3, <1>4, <1>5, <1>6, <1>7, <1>8, <1>9
          DEF Quiet, Reads, Next, Worker, Recv, Serve, Payload, PrepareResp, Send,
              SendResponseFile

LEMMA RefinementInit == Init => Abstract!Init /\ PromiseOK
  <1> SUFFICES ASSUME Init PROVE Abstract!Init /\ PromiseOK
    OBVIOUS
  <1>1. /\ sent = 0 /\ due = <<>> /\ wire = <<>> /\ served = 0 /\ pc = "idle"
        /\ req.state = "READ"
    BY ZeroFacts DEF Init
  <1>2. Abstract!Init
    BY <1>1 DEF Abstract!Init, Alive
  <1>3. Pending = <<>> /\ ~ Sending
    BY <1>1 DEF Pending, Sending
  <1>4. due = wire \o Pending
    BY <1>1, <1>3, ConcatEmptySeq, EmptySeq
  <1>5. Abstract!begun = 0
    BY <1>1, BegunFacts
  <1> QED BY <1>1, <1>2, <1>3, <1>4, <1>5 DEF PromiseOK

(* What the buffers, the file and the wire hold together is what is due    *)
(* (kitserv_http_send_response, kitserv_http_send_response_file): nothing  *)
(* of a response is lost, repeated or sent out of order.                   *)
THEOREM NothingLost == ASSUME ~ Splits PROVE Spec => []PromiseOK
  <1>1. Spec => []IInv
    BY Invariant
  <1> QED BY <1>1, RefinementInit, RefinementStep, PTL DEF Spec

(* A connection answers its requests one by one, in order, each when       *)
(* enough of it is there, delivers a response whole before the next one,   *)
(* unless its file has shrunk, and nothing after a final one               *)
(* (kitserv_http_serve_client), where no write stops beyond the first      *)
(* unsent buffer.                                                          *)
THEOREM Refinement == ASSUME ~ Splits PROVE Spec => ConnectionSpec
  <1>1. Spec => []IInv
    BY Invariant
  <1>2. Spec => []PromiseOK
    BY NothingLost
  <1> QED BY <1>1, <1>2, RefinementInit, RefinementStep, PTL
          DEF Spec, ConnectionSpec, Abstract!Spec
=============================================================================
