------------------------- MODULE ServeClientProofs -------------------------
(***************************************************************************)
(* ServeClient's safety for every sequence of requests, every buffer size  *)
(* and every interleaving of the worker with the peer: no input is lost, a *)
(* handler sees its own payload, refusals are right, files are owned and   *)
(* closed, and no wakeup is lost.  The invariant is IInv: each lemma below *)
(* shows that a step keeps one of its parts.  Before that come the facts   *)
(* on the input: where the units of a request are in the stream, where a   *)
(* request begins reading, and what the pieces of a sequence hold.         *)
(***************************************************************************)
EXTENDS ServeClient, ResponseProofs, SequenceTheorems

-----------------------------------------------------------------------------
(* The requests and their places in the input.                             *)
N == Len(Requests)

LEMMA RequestFacts ==
  /\ N \in Nat
  /\ \A i \in 1 .. N :
       LET q == Requests[i]
       IN  /\ q.hdr \in Nat /\ q.hdr >= 1 /\ q.pay \in Nat /\ q.reads \in Nat
           /\ q.malformed \in BOOLEAN /\ q.v10 \in BOOLEAN
           /\ q.route \in {"static", "api"} /\ q.method \in {"GET", "HEAD", "POST"}
           /\ q.reads <= q.pay /\ (q.reads < q.pay => i < N)
           /\ q.route = "static" => q.reads = 0
           /\ q.reply.status \in Nat \ {UNSET, HANGUP}
           /\ q.reply.hdrs \in 0 .. MaxHeaders /\ q.reply.body \in Nat
           /\ q.reply.file \in Nat \union {NoFile} /\ q.reply.shrinks \in BOOLEAN
           /\ q.reply.keepHeaders \in BOOLEAN /\ q.reply.keepBody \in BOOLEAN
           /\ Size(i) \in Nat /\ Size(i) >= 1 /\ Size(i) = q.hdr + q.pay
           /\ Unread(q) = q.pay - q.reads
  <1>1. N \in Nat /\ \A i \in 1 .. N : Requests[i] \in Request
    BY RequestAssumption, LenProperties DEF N
  <1>2. ASSUME NEW i \in 1 .. N
        PROVE  LET q == Requests[i]
               IN  /\ q.hdr \in Nat \ {0} /\ q.pay \in Nat /\ q.reads \in Nat
                   /\ q.malformed \in BOOLEAN /\ q.v10 \in BOOLEAN
                   /\ q.route \in {"static", "api"} /\ q.method \in {"GET", "HEAD", "POST"}
                   /\ q.reply \in Reply
    BY <1>1 DEF Request
  <1>3. ASSUME NEW r \in Reply
        PROVE  /\ r.status \in Nat \ {UNSET, HANGUP}
               /\ r.hdrs \in 0 .. MaxHeaders /\ r.body \in Nat
               /\ r.file \in Nat \union {NoFile} /\ r.shrinks \in BOOLEAN
               /\ r.keepHeaders \in BOOLEAN /\ r.keepBody \in BOOLEAN
    BY DEF Reply
  <1>4. ASSUME NEW i \in 1 .. N
        PROVE  LET q == Requests[i]
               IN  /\ q.reads <= q.pay /\ (q.reads < q.pay => i < N)
                   /\ q.route = "static" => q.reads = 0
                   /\ Size(i) \in Nat /\ Size(i) >= 1 /\ Size(i) = q.hdr + q.pay
                   /\ Unread(q) = q.pay - q.reads
    <2> DEFINE q == Requests[i]
    <2>1. q.hdr \in Nat \ {0} /\ q.pay \in Nat /\ q.reads \in Nat
      BY <1>2
    <2>2. Size(i) = q.hdr + q.pay /\ Unread(q) = q.pay - q.reads
      BY DEF Size, Unread
    <2>3. /\ Unread(q) >= 0 /\ (Unread(q) > 0 => i < N)
          /\ q.route = "static" => q.reads = 0
      BY RequestAssumption DEF N
    <2> HIDE DEF q
    <2>4. /\ q.reads <= q.pay /\ (q.reads < q.pay => i < N)
          /\ Size(i) \in Nat /\ Size(i) >= 1
      BY <2>1, <2>2, <2>3
    <2> QED BY <2>2, <2>3, <2>4 DEF q
  <1> QED BY <1>1, <1>2, <1>3, <1>4

LEMMA StartFacts ==
  /\ Start \in [1 .. N + 1 -> Nat]
  /\ Start[1] = 0
  /\ \A i \in 1 .. N : Start[i + 1] = Start[i] + Size(i)
  <1> DEFINE D == 1 .. N + 1
             Body(g) == [i \in D |-> IF i = 1 THEN 0 ELSE g[i - 1] + Size(i - 1)]
             Upto(n) == {g \in [1 .. n + 1 -> Nat] :
                           /\ g[1] = 0
                           /\ \A i \in 1 .. n : g[i + 1] = g[i] + Size(i)}
             P == {n \in Nat : n <= N => Upto(n) # {}}
  <1>1. N \in Nat /\ \A i \in 1 .. N : Size(i) \in Nat
    BY RequestFacts
  <1>2. 0 \in P
    <2> DEFINE g == [i \in 1 .. 1 |-> 0]
    <2>1. g \in Upto(0)
      OBVIOUS
    <2> QED BY <2>1
  <1>3. ASSUME NEW n \in Nat, n \in P PROVE n + 1 \in P
    <2> SUFFICES ASSUME n + 1 <= N PROVE Upto(n + 1) # {}
      BY SMTT(60)
    <2>1. PICK g \in Upto(n) : TRUE
      BY <1>1, <1>3, SMTT(60)
    <2> DEFINE h == [i \in 1 .. n + 2 |-> IF i = n + 2 THEN g[n + 1] + Size(n + 1) ELSE g[i]]
    <2>2. h \in [1 .. n + 2 -> Nat]
      BY <1>1, <2>1
    <2>3. h[1] = 0 /\ \A i \in 1 .. n + 1 : h[i + 1] = h[i] + Size(i)
      BY <1>1, <2>1, SMTT(60)
    <2>4. h \in Upto(n + 1)
      BY <2>2, <2>3, SMTT(60)
    <2> QED BY <2>4
  <1>4. N \in P
    BY <1>1, <1>2, <1>3, Induction
  <1>5. PICK g \in Upto(N) : TRUE
    BY <1>1, <1>4, SMTT(60)
  <1>6. g = Body(g)
    <2>1. \A i \in D : g[i] = Body(g)[i]
      BY <1>1, <1>5
    <2> QED BY <1>1, <1>5, <2>1
  <1>7. Start = Body(Start)
    <2>1. \E h : h = [i \in 1 .. Len(Requests) + 1 |->
                       IF i = 1 THEN 0 ELSE h[i - 1] + Size(i - 1)]
      BY <1>6, Zenon DEF N
    <2>2. Start = [i \in 1 .. Len(Requests) + 1 |->
                    IF i = 1 THEN 0 ELSE Start[i - 1] + Size(i - 1)]
      BY <2>1, Zenon DEF Start
    <2> QED BY <2>2, Zenon DEF N
  <1> QED
    <2>1. DOMAIN Start = D /\ \A i \in D : Start[i] = IF i = 1 THEN 0 ELSE Start[i - 1] + Size(i - 1)
      BY <1>7
    <2> DEFINE Q == {n \in Nat : n <= N => Start[n + 1] \in Nat}
    <2>2. 0 \in Q
      BY <1>1, <2>1
    <2>3. ASSUME NEW n \in Nat, n \in Q PROVE n + 1 \in Q
      <3> SUFFICES ASSUME n + 1 <= N PROVE Start[n + 2] \in Nat
        OBVIOUS
      <3>1. n + 2 \in D /\ n + 1 \in 1 .. N /\ Start[n + 1] \in Nat
        BY <1>1, <2>3
      <3>2. Start[n + 2] = Start[n + 1] + Size(n + 1)
        BY <1>1, <2>1, <3>1, SMTT(60)
      <3> QED BY <1>1, <3>1, <3>2, SMTT(60)
    <2>4. \A n \in Nat : n \in Q
      BY <2>2, <2>3, Induction
    <2>5. \A i \in D : Start[i] \in Nat
      <3> SUFFICES ASSUME NEW i \in D PROVE Start[i] \in Nat
        OBVIOUS
      <3>1. i - 1 \in Nat /\ i - 1 <= N /\ (i - 1) + 1 = i
        BY <1>1
      <3>2. i - 1 \in Q
        BY <2>4, <3>1
      <3> QED BY <3>1, <3>2
    <2>6. \A i \in 1 .. N : Start[i + 1] = Start[i] + Size(i)
      BY <1>1, <2>1, SMTT(60)
    <2>7. Start \in [D -> Nat]
      <3>1. Start = [i \in D |-> Start[i]]
        BY <1>7, Zenon
      <3> QED BY <2>5, <3>1, Zenon
    <2>8. Start[1] = 0
      BY <1>1, <2>1
    <2> QED BY <2>6, <2>7, <2>8

(* A later request begins after an earlier one has ended.                  *)
LEMMA StartMonotone ==
  ASSUME NEW i \in 1 .. N + 1, NEW j \in 1 .. N + 1, i <= j
  PROVE  Start[i] <= Start[j]
  <1> DEFINE P == {n \in Nat : i + n <= N + 1 => Start[i] <= Start[i + n]}
  <1>1. N \in Nat /\ Start \in [1 .. N + 1 -> Nat]
        /\ \A k \in 1 .. N : Start[k + 1] = Start[k] + Size(k) /\ Size(k) \in Nat
    BY RequestFacts, StartFacts
  <1>2. 0 \in P
    BY <1>1
  <1>3. ASSUME NEW n \in Nat, n \in P PROVE n + 1 \in P
    <2> SUFFICES ASSUME i + n + 1 <= N + 1 PROVE Start[i] <= Start[i + n + 1]
      OBVIOUS
    <2>1. i + n \in 1 .. N /\ i + n \in 1 .. N + 1
      BY <1>1
    <2>2. Start[i] <= Start[i + n]
      BY <1>3, <2>1
    <2>3. Start[i + n + 1] = Start[i + n] + Size(i + n)
      BY <1>1, <2>1
    <2> QED BY <1>1, <2>1, <2>2, <2>3, SMTT(60)
  <1>4. j - i \in Nat /\ i + (j - i) = j
    BY <1>1
  <1>5. j - i \in P
    BY <1>2, <1>3, <1>4, Induction
  <1> QED BY <1>1, <1>4, <1>5

LEMMA TotalFacts == Total \in Nat /\ Total = Start[N + 1]
  <1>1. N \in Nat /\ Start \in [1 .. N + 1 -> Nat]
    BY RequestFacts, StartFacts
  <1>2. Total = Start[N + 1]
    BY DEF Total, N
  <1> HIDE DEF N
  <1>3. N + 1 \in 1 .. N + 1
    BY <1>1
  <1> QED BY <1>1, <1>2, <1>3

(* A place in the input belongs to one request.                            *)
Holder(n, j) == j \in 1 .. N /\ Start[j] < n /\ n <= Start[j + 1]

LEMMA HolderUnique ==
  ASSUME NEW n \in Nat, NEW i, NEW j, Holder(n, i), Holder(n, j)
  PROVE  i = j
  <1>1. ASSUME NEW a \in 1 .. N, NEW b \in 1 .. N, a < b, Holder(n, a), Holder(n, b)
        PROVE  FALSE
    <2>1. N \in Nat /\ a + 1 \in 1 .. N + 1 /\ b \in 1 .. N + 1 /\ a + 1 <= b
      BY <1>1, RequestFacts
    <2>2. Start[a + 1] <= Start[b] /\ Start[a + 1] \in Nat /\ Start[b] \in Nat
      BY <2>1, StartMonotone, StartFacts
    <2> QED BY <1>1, <2>2 DEF Holder
  <1>2. N \in Nat /\ i \in 1 .. N /\ j \in 1 .. N
    BY RequestFacts DEF Holder
  <1>3. CASE i < j
    BY <1>1, <1>2, <1>3
  <1>4. CASE j < i
    BY <1>1, <1>2, <1>4
  <1> QED BY <1>2, <1>3, <1>4

LEMMA StreamAt ==
  ASSUME NEW n \in 1 .. Total, NEW i, Holder(n, i)
  PROVE  Stream[n] = <<i, n - Start[i]>>
  <1>1. Total \in Nat /\ n \in Nat
    BY TotalFacts
  <1> DEFINE H == CHOOSE j \in 1 .. Len(Requests) : Start[j] < n /\ n <= Start[j + 1]
  <1>2. H = i
    <2>1. \E j \in 1 .. Len(Requests) : Start[j] < n /\ n <= Start[j + 1]
      BY DEF Holder, N
    <2>2. H \in 1 .. Len(Requests) /\ Start[H] < n /\ n <= Start[H + 1]
      BY <2>1, Zenon
    <2> HIDE DEF H
    <2>3. Holder(n, H)
      BY <2>2 DEF Holder, N
    <2> QED BY <1>1, <2>3, HolderUnique
  <1>3. Stream[n] = <<H, n - Start[H]>>
    BY Zenon DEF Stream
  <1> QED BY <1>2, <1>3

(* Unit k of request i, after all units of the requests before.            *)
LEMMA StreamUnit ==
  ASSUME NEW i \in 1 .. N, NEW k \in 1 .. Size(i)
  PROVE  /\ Start[i] + k \in 1 .. Total
         /\ Stream[Start[i] + k] = <<i, k>>
  <1>1. /\ N \in Nat /\ Start[i] \in Nat /\ Start[i + 1] = Start[i] + Size(i)
        /\ Size(i) \in Nat /\ Total \in Nat /\ Total = Start[N + 1]
    BY RequestFacts, StartFacts, TotalFacts
  <1>2. Start[i + 1] <= Total
    BY <1>1, StartMonotone
  <1>3. Start[i] + k \in 1 .. Total /\ Holder(Start[i] + k, i)
    BY <1>1, <1>2 DEF Holder
  <1>4. Stream[Start[i] + k] = <<i, (Start[i] + k) - Start[i]>>
    BY <1>3, StreamAt
  <1> QED BY <1>1, <1>3, <1>4

LEMMA StreamType == \A n \in 1 .. Total : Stream[n] \in InUnit
  <1> SUFFICES ASSUME NEW n \in 1 .. Total PROVE Stream[n] \in InUnit
    OBVIOUS
  <1>1. /\ N \in Nat /\ Total \in Nat /\ Total = Start[N + 1] /\ n \in Nat /\ n >= 1
        /\ Start \in [1 .. N + 1 -> Nat] /\ Start[1] = 0
    BY RequestFacts, StartFacts, TotalFacts
  <1> DEFINE T == {j \in 1 .. N + 1 : n <= Start[j]}
  <1>2. PICK x \in T : \A y \in T : x <= y
    <2>1. N + 1 \in T /\ T \subseteq Nat
      BY <1>1
    <2> HIDE DEF T
    <2> QED BY <2>1, LeastNatural
  <1>3. x \in 2 .. N + 1 /\ x - 1 \in 1 .. N /\ x - 1 \notin T
    BY <1>1, <1>2
  <1>4. Holder(n, x - 1)
    BY <1>1, <1>2, <1>3 DEF Holder
  <1>5. Stream[n] = <<x - 1, n - Start[x - 1]>>
    BY <1>4, StreamAt
  <1>6. n - Start[x - 1] \in Nat \ {0}
    BY <1>1, <1>3, <1>4 DEF Holder
  <1> QED BY <1>3, <1>5, <1>6 DEF InUnit, N

-----------------------------------------------------------------------------
(* Where the input of a request begins, counting what the one before left. *)
LEMMA BaseFacts ==
  ASSUME NEW i \in 1 .. N + 1
  PROVE  /\ Base(i) \in Nat /\ Base(i) <= Total
         /\ Base(N + 1) = Total
         /\ i = 1 => Base(i) = 0
         /\ i <= N => /\ UnreadBefore(i) \in Nat
                      /\ Base(i + 1) = Base(i) + UnreadBefore(i) + Requests[i].hdr + Requests[i].reads
  <1> DEFINE Rest(j) == IF j = 1 THEN 0 ELSE Unread(Requests[j - 1])
  <1>1. /\ N \in Nat /\ Total \in Nat /\ Total = Start[N + 1]
        /\ Start \in [1 .. N + 1 -> Nat] /\ Start[1] = 0
    BY RequestFacts, StartFacts, TotalFacts
  <1>2. \A j \in 1 .. N : /\ Start[j + 1] = Start[j] + Size(j)
                          /\ Unread(Requests[j]) = Requests[j].pay - Requests[j].reads
                          /\ Requests[j].pay \in Nat /\ Requests[j].reads \in Nat
                          /\ Requests[j].hdr \in Nat /\ Requests[j].reads <= Requests[j].pay
                          /\ Size(j) = Requests[j].hdr + Requests[j].pay
                          /\ (Requests[j].reads < Requests[j].pay => j < N)
    BY RequestFacts, StartFacts, SMTT(60)
  <1>3. \A j : UnreadBefore(j) = Rest(j) /\ Base(j) = Start[j] - Rest(j)
    BY DEF UnreadBefore, Base
  <1> HIDE DEF Rest
  <1>4. \A j \in 1 .. N + 1 : Rest(j) \in Nat /\ Start[j] - Rest(j) \in Nat
    <2> SUFFICES ASSUME NEW j \in 1 .. N + 1 PROVE Rest(j) \in Nat /\ Start[j] - Rest(j) \in Nat
      OBVIOUS
    <2>1. CASE j = 1
      BY <1>1, <2>1 DEF Rest
    <2>2. CASE j # 1
      <3>1. j - 1 \in 1 .. N /\ (j - 1) + 1 = j
        BY <1>1, <2>2
      <3>2. Rest(j) = Unread(Requests[j - 1])
        BY <2>2 DEF Rest
      <3>3. Start[j] = Start[j - 1] + Size(j - 1) /\ Start[j - 1] \in Nat
        BY <1>1, <1>2, <3>1
      <3> QED BY <1>2, <3>1, <3>2, <3>3
    <2> QED BY <2>1, <2>2
  <1>5. Rest(N + 1) = 0
    <2>1. CASE N = 0
      BY <2>1 DEF Rest
    <2>2. CASE N # 0
      <3>1. N \in 1 .. N /\ Rest(N + 1) = Unread(Requests[N])
        BY <1>1, <2>2 DEF Rest
      <3> QED BY <1>1, <1>2, <3>1, SMTT(60)
    <2> QED BY <2>1, <2>2
  <1>6. ASSUME i <= N
        PROVE  Start[i + 1] - Rest(i + 1)
                 = (Start[i] - Rest(i)) + Rest(i) + Requests[i].hdr + Requests[i].reads
    <2>1. i \in 1 .. N /\ Rest(i + 1) = Unread(Requests[i])
      BY <1>1, <1>6 DEF Rest
    <2>2. /\ Start[i + 1] = Start[i] + Size(i) /\ Start[i] \in Nat
          /\ Size(i) = Requests[i].hdr + Requests[i].pay
          /\ Unread(Requests[i]) = Requests[i].pay - Requests[i].reads
          /\ Requests[i].pay \in Nat /\ Requests[i].reads \in Nat /\ Requests[i].hdr \in Nat
      BY <1>1, <1>2, <2>1
    <2>3. Rest(i) \in Nat
      BY <1>4
    <2> QED BY <2>1, <2>2, <2>3
  <1>7. Start[i] <= Total
    BY <1>1, StartMonotone
  <1>8. i = 1 => Rest(i) = 0
    BY DEF Rest
  <1>9. Start[i] \in Nat /\ N + 1 \in 1 .. N + 1 /\ Rest(i) \in Nat
        /\ Start[i] - Rest(i) \in Nat
    BY <1>1, <1>4, SMTT(60)
  <1>10. Base(i) \in Nat /\ Base(i) <= Total /\ Base(i) = Start[i] - Rest(i)
    BY <1>1, <1>3, <1>7, <1>9, SMTT(60)
  <1>11. Base(N + 1) = Total
    BY <1>1, <1>3, <1>5
  <1>12. i = 1 => Base(i) = 0
    BY <1>1, <1>3, <1>8
  <1>13. UnreadBefore(i) \in Nat /\ UnreadBefore(i) = Rest(i)
    BY <1>3, <1>9
  <1>14. Base(i + 1) = Start[i + 1] - Rest(i + 1)
    BY <1>3
  <1> QED BY <1>6, <1>10, <1>11, <1>12, <1>13, <1>14

(* The first unit a request finds: its own, or payload of the one before.  *)
LEMMA FirstUnit ==
  ASSUME NEW i \in 1 .. N
  PROVE  /\ Base(i) < Total
         /\ UnreadBefore(i) = 0 => Base(i) = Start[i] /\ Stream[Base(i) + 1] = <<i, 1>>
         /\ UnreadBefore(i) > 0 =>
              \E j \in 1 .. N, k \in Nat : Stream[Base(i) + 1] = <<j, k>> /\ k # 1
  <1>1. /\ N \in Nat /\ Total \in Nat /\ Size(i) \in Nat /\ Size(i) >= 1
        /\ Start[i] \in Nat /\ UnreadBefore(i) \in Nat /\ Base(i) \in Nat
    BY RequestFacts, StartFacts, TotalFacts, BaseFacts
  <1>2. Base(i) = Start[i] - UnreadBefore(i)
    BY DEF Base
  <1>3. 1 \in 1 .. Size(i)
    BY <1>1
  <1>4. Start[i] + 1 \in 1 .. Total /\ Stream[Start[i] + 1] = <<i, 1>>
    BY <1>3, StreamUnit
  <1>5. ASSUME UnreadBefore(i) > 0
        PROVE  \E j \in 1 .. N, k \in Nat : Stream[Base(i) + 1] = <<j, k>> /\ k # 1
    <2>1. i # 1 /\ UnreadBefore(i) = Unread(Requests[i - 1])
      BY <1>5 DEF UnreadBefore
    <2> DEFINE j == i - 1
               k == Size(j) - Unread(Requests[j]) + 1
    <2>2. j \in 1 .. N /\ j + 1 = i
      BY <1>1, <2>1
    <2>3. /\ Size(j) = Requests[j].hdr + Requests[j].pay
          /\ Unread(Requests[j]) = Requests[j].pay - Requests[j].reads
          /\ Requests[j].hdr \in Nat /\ Requests[j].hdr >= 1
          /\ Requests[j].pay \in Nat /\ Requests[j].reads \in Nat
          /\ Start[j] \in Nat /\ Start[j + 1] = Start[j] + Size(j)
      <3>1. \A a \in 1 .. N :
              /\ Size(a) = Requests[a].hdr + Requests[a].pay
              /\ Unread(Requests[a]) = Requests[a].pay - Requests[a].reads
              /\ Requests[a].hdr \in Nat /\ Requests[a].hdr >= 1
              /\ Requests[a].pay \in Nat /\ Requests[a].reads \in Nat
        BY RequestFacts
      <3>2. \A a \in 1 .. N : Start[a] \in Nat /\ Start[a + 1] = Start[a] + Size(a)
        BY <1>1, StartFacts, SMTT(60)
      <3> HIDE DEF j
      <3> QED BY <2>2, <3>1, <3>2
    <2>4. k \in 1 .. Size(j) /\ k # 1 /\ Base(i) + 1 = Start[j] + k
      BY <1>1, <1>2, <1>5, <2>1, <2>2, <2>3
    <2>5. Stream[Start[j] + k] = <<j, k>>
      BY <2>2, <2>4, StreamUnit
    <2> QED BY <2>2, <2>4, <2>5
  <1> QED BY <1>1, <1>2, <1>4, <1>5
-----------------------------------------------------------------------------
(* Pieces of a sequence.                                                   *)
LEMMA Piece ==
  ASSUME NEW S, NEW s \in Seq(S), NEW a \in Nat, NEW n \in Nat, a + n <= Len(s)
  PROVE  /\ SubSeq(s, a + 1, a + n) \in Seq(S) /\ Len(SubSeq(s, a + 1, a + n)) = n
         /\ \A k \in 1 .. n : SubSeq(s, a + 1, a + n)[k] = s[a + k]
  <1>1. Len(s) \in Nat /\ \A k \in 1 .. Len(s) : s[k] \in S
    BY LenProperties, ElementOfSeq
  <1>2. \A k \in a + 1 .. a + n : s[k] \in S
    BY <1>1
  <1>3. a + 1 \in Int /\ a + n \in Int /\ (a + n) - (a + 1) + 1 = n
    OBVIOUS
  <1>4. /\ SubSeq(s, a + 1, a + n) \in Seq(S)
        /\ Len(SubSeq(s, a + 1, a + n)) = IF a + 1 <= a + n THEN n ELSE 0
        /\ \A k \in 1 .. n : SubSeq(s, a + 1, a + n)[k] = s[(a + 1) + k - 1]
    BY <1>2, <1>3, SubSeqProperties
  <1> QED BY <1>4

LEMMA FirstFacts ==
  ASSUME NEW S, NEW s \in Seq(S), NEW n \in Nat, n <= Len(s)
  PROVE  /\ First(s, n) \in Seq(S) /\ Len(First(s, n)) = n
         /\ \A k \in 1 .. n : First(s, n)[k] = s[k]
  <1>1. Len(s) \in Nat /\ \A k \in 1 .. n : s[k] \in S
    BY LenProperties, ElementOfSeq
  <1>2. /\ SubSeq(s, 1, n) \in Seq(S) /\ Len(SubSeq(s, 1, n)) = IF 1 <= n THEN n - 1 + 1 ELSE 0
        /\ \A k \in 1 .. n - 1 + 1 : SubSeq(s, 1, n)[k] = s[1 + k - 1]
    BY <1>1, SubSeqProperties
  <1> QED BY <1>2 DEF First

LEMMA AfterFacts ==
  ASSUME NEW S, NEW s \in Seq(S), NEW n \in Nat, n <= Len(s)
  PROVE  /\ After(s, n) \in Seq(S) /\ Len(After(s, n)) = Len(s) - n
         /\ \A k \in 1 .. Len(s) - n : After(s, n)[k] = s[n + k]
  <1>1. Len(s) \in Nat /\ n + 1 \in Int /\ \A k \in n + 1 .. Len(s) : s[k] \in S
    BY LenProperties, ElementOfSeq
  <1>2. /\ SubSeq(s, n + 1, Len(s)) \in Seq(S)
        /\ Len(SubSeq(s, n + 1, Len(s))) = IF n + 1 <= Len(s) THEN Len(s) - (n + 1) + 1 ELSE 0
        /\ \A k \in 1 .. Len(s) - (n + 1) + 1 : SubSeq(s, n + 1, Len(s))[k] = s[(n + 1) + k - 1]
    BY <1>1, SubSeqProperties
  <1> QED BY <1>1, <1>2 DEF After

LEMMA JoinFacts ==
  ASSUME NEW S, NEW s \in Seq(S), NEW t \in Seq(S)
  PROVE  /\ s \o t \in Seq(S) /\ Len(s \o t) = Len(s) + Len(t)
         /\ \A k \in 1 .. Len(s) : (s \o t)[k] = s[k]
         /\ \A k \in 1 .. Len(t) : (s \o t)[Len(s) + k] = t[k]
         /\ \A k \in Len(s) + 1 .. Len(s) + Len(t) : (s \o t)[k] = t[k - Len(s)]
  <1>1. Len(s) \in Nat /\ Len(t) \in Nat
    BY LenProperties
  <1>2. /\ s \o t \in Seq(S) /\ Len(s \o t) = Len(s) + Len(t)
        /\ \A k \in 1 .. Len(s) + Len(t) :
             (s \o t)[k] = IF k <= Len(s) THEN s[k] ELSE t[k - Len(s)]
    BY ConcatProperties
  <1>3. ASSUME NEW k \in 1 .. Len(t) PROVE (s \o t)[Len(s) + k] = t[k]
    BY <1>1, <1>2
  <1> QED BY <1>1, <1>2, <1>3

LEMMA TypedSeq ==
  ASSUME NEW S, NEW n \in Nat, NEW f, f = [k \in 1 .. n |-> f[k]], \A k \in 1 .. n : f[k] \in S
  PROVE  f \in Seq(S) /\ Len(f) = n
  <1>1. f \in [1 .. n -> S]
    BY Zenon
  <1>2. f \in Seq(S)
    BY <1>1, SeqDef
  <1> QED BY <1>1, <1>2, LenProperties

LEMMA MinFacts ==
  ASSUME NEW a \in Nat, NEW b \in Nat
  PROVE  Min2(a, b) \in Nat /\ Min2(a, b) <= a /\ Min2(a, b) <= b /\ Min2(a, b) \in {a, b}
  BY DEF Min2

-----------------------------------------------------------------------------
(* The head of a buffer that begins where request i begins reading: it is  *)
(* junk exactly if i is malformed or the request before left payload.      *)
LEMMA HeadFacts ==
  ASSUME NEW i \in 1 .. N, NEW buf \in Seq(InUnit), buf # <<>>, buf[1] = Stream[Base(i) + 1]
  PROVE  /\ Junk(buf) <=> Spoiled(i)
         /\ ~ Junk(buf) => HeadLen(buf) = Requests[i].hdr
  <1>1. UnreadBefore(i) \in Nat
    <2>1. i \in 1 .. N + 1 /\ i <= N
      BY RequestFacts
    <2> QED BY <2>1, BaseFacts
  <1>2. CASE UnreadBefore(i) > 0
    <2>1. PICK j \in 1 .. N, k \in Nat : buf[1] = <<j, k>> /\ k # 1
      BY <1>2, FirstUnit
    <2> QED BY <1>2, <2>1 DEF Junk, Spoiled
  <1>3. CASE UnreadBefore(i) = 0
    <2>1. buf[1] = <<i, 1>>
      BY <1>3, FirstUnit
    <2> QED BY <1>3, <2>1 DEF Junk, Spoiled, HeadLen
  <1> QED BY <1>1, <1>2, <1>3

(* What the fields of a request record are after an update.                *)
LEMMA StateSet ==
  ASSUME NEW r \in RequestRecord,
         NEW s \in {"READ", "SERVE", "PREPARE_RESPONSE", "SEND", "SEND_FILE", "DONE"}
  PROVE  LET u == [r EXCEPT !.state = s]
         IN  /\ u \in RequestRecord /\ u.state = s /\ u.iter = r.iter
             /\ u.payload = r.payload /\ u.payload_len = r.payload_len
             /\ u.payload_pos = r.payload_pos
  BY DEF RequestRecord

LEMMA ZeroFacts ==
  /\ ZeroRequest \in RequestRecord /\ ZeroRequest.state = "READ" /\ ZeroRequest.iter = Null
  /\ ZeroRequest.payload = 0 /\ ZeroRequest.payload_len = 0 /\ ZeroRequest.payload_pos = 0
  /\ ZeroResponse \in ResponseRecord /\ ZeroResponse.status = UNSET
  /\ ZeroResponse.fd = FdDisable /\ ZeroResponse.pos = 0
  <1>1. ZeroRequest \in RequestRecord
    BY BufferAssumption DEF ZeroRequest, RequestRecord, Null
  <1>2. NoBufs \in [1 .. 3 -> [base : Nat, len : Nat]]
    BY DEF NoBufs, NoBuf
  <1>3. ZeroResponse \in ResponseRecord
    BY <1>2, HeaderAssumption DEF ZeroResponse, ResponseRecord, UNSET, FdDisable
  <1> QED BY <1>1, <1>3 DEF ZeroRequest, ZeroResponse

(* Only a request there is can have sent anything that is still to be used. *)
LEMMA CurFacts ==
  ASSUME TypeOK, InputOK, Alive
  PROVE  /\ cur \in 1 .. N + 1 /\ Base(cur) \in Nat /\ Base(cur) <= Total
         /\ Len(req_headers) \in Nat /\ Len(got) \in Nat /\ Len(rx) \in Nat
         /\ Held \in Nat /\ Held <= sent /\ sent <= Total /\ sent \in Nat
         /\ peer # "reset" => Held + Len(rx) = sent
         /\ Base(cur) + Len(req_headers) <= Held
         /\ served = N => Held = Base(cur) /\ Held = Total /\ sent = Total
  <1>1. /\ N \in Nat /\ served \in 0 .. N /\ sent \in 0 .. Total /\ Total \in Nat
        /\ req.payload_pos \in Nat
    BY RequestFacts, TotalFacts, SMTT(60) DEF TypeOK, N, RequestRecord
  <1>2. Len(req_headers) \in Nat /\ Len(got) \in Nat /\ Len(rx) \in Nat
    BY LenProperties DEF TypeOK
  <1>3. cur \in 1 .. N + 1
    BY <1>1 DEF cur
  <1>4. /\ Base(cur) \in Nat /\ Base(cur) <= Total
        /\ served = N => Base(cur) = Total
    <2>1. served = N => cur = N + 1
      BY DEF cur
    <2>2. Base(N + 1) = Total /\ Base(cur) \in Nat /\ Base(cur) <= Total
      BY <1>3, BaseFacts
    <2> QED BY <2>1, <2>2
  <1>5. /\ req.payload_pos <= Len(got)
        /\ peer = "reset" => Held <= sent
        /\ peer # "reset" => Held + Len(rx) = sent
    BY DEF InputOK
  <1>6. Held = Base(cur) + Len(req_headers) + Len(got) - req.payload_pos
    BY DEF Held
  <1> HIDE DEF Held, cur
  <1>7. Held \in Nat /\ Base(cur) + Len(req_headers) <= Held
    BY <1>1, <1>2, <1>4, <1>5, <1>6, SMTT(60)
  <1>8. Held <= sent
    BY <1>1, <1>2, <1>5, <1>7
  <1> QED BY <1>1, <1>2, <1>3, <1>4, <1>5, <1>7, <1>8
(* One call of the parser on the buffer: it wants more, refuses what is    *)
(* junk, or accepts the head of the request being served.                  *)
LEMMA ParseFacts ==
  ASSUME TypeOK, NEW buf \in Seq(InUnit), Len(buf) <= BufSz, Parse(buf), pc = "recv",
         buf # <<>> => served < N /\ buf[1] = Stream[Base(cur) + 1]
  PROVE  /\ req' \in RequestRecord /\ req'.payload_pos = req.payload_pos
         /\ \/ /\ pc' = "recv" /\ resp' = resp /\ ~ Complete(buf)
               /\ req'.state = req.state /\ req'.iter = Len(buf)
               /\ req'.payload = req.payload /\ req'.payload_len = req.payload_len
            \/ /\ pc' = "prepare" /\ resp' = [resp EXCEPT !.status = BadRequest]
               /\ req'.state = "PREPARE_RESPONSE" /\ buf # <<>> /\ Spoiled(cur)
               /\ req'.payload = req.payload /\ req'.payload_len = req.payload_len
            \/ /\ pc' = "serve" /\ resp' = resp /\ buf # <<>> /\ ~ Spoiled(cur)
               /\ req'.state = "SERVE" /\ req'.payload = Requests[cur].hdr
               /\ req'.payload > 0 /\ req'.payload + req'.payload_len = Len(buf)
  <1>1. /\ req \in RequestRecord /\ N \in Nat /\ BufSz \in Nat /\ served \in 0 .. N
        /\ Len(buf) \in Nat
    BY RequestFacts, BufferAssumption, LenProperties DEF TypeOK, N
  <1>2. served < N => cur \in 1 .. N
    BY <1>1 DEF cur
  <1>3. buf # <<>> => /\ Junk(buf) <=> Spoiled(cur)
                      /\ ~ Junk(buf) => HeadLen(buf) = Requests[cur].hdr
    BY <1>2, HeadFacts
  <1>4. CASE ParseMore(buf)
    <2>1. Len(buf) \in {Null} \union 0 .. BufSz
      BY <1>1
    <2> QED BY <1>1, <1>4, <2>1 DEF ParseMore, RequestRecord
  <1>5. CASE ParseReject(buf)
    <2>1. buf # <<>> /\ Spoiled(cur)
      BY <1>3, <1>5 DEF ParseReject, Junk
    <2> QED BY <1>1, <1>5, <2>1, StateSet DEF ParseReject, Prepare
  <1>6. CASE ParseDone(buf)
    <2>1. buf # <<>> /\ ~ Spoiled(cur) /\ HeadLen(buf) = Requests[cur].hdr
          /\ HeadLen(buf) <= Len(buf)
      BY <1>3, <1>6 DEF ParseDone, Complete
    <2>2. HeadLen(buf) \in Nat /\ HeadLen(buf) > 0
      BY <1>2, <2>1, RequestFacts
    <2>3. HeadLen(buf) \in 0 .. BufSz /\ Len(buf) - HeadLen(buf) \in 0 .. BufSz
      BY <1>1, <2>1, <2>2
    <2>4. req' = [req EXCEPT !.state = "SERVE", !.payload = HeadLen(buf),
                             !.payload_len = Len(buf) - HeadLen(buf)]
      BY <1>6 DEF ParseDone
    <2>5. /\ req' \in RequestRecord /\ req'.state = "SERVE" /\ req'.payload = HeadLen(buf)
          /\ req'.payload_len = Len(buf) - HeadLen(buf)
          /\ req'.payload_pos = req.payload_pos
      <3> DEFINE a == HeadLen(buf)
                 b == Len(buf) - HeadLen(buf)
      <3>1. a \in 0 .. BufSz /\ b \in 0 .. BufSz /\ req' = [req EXCEPT !.state = "SERVE", !.payload = a, !.payload_len = b]
        BY <2>3, <2>4
      <3> HIDE DEF a, b
      <3>2. /\ req' \in RequestRecord /\ req'.state = "SERVE" /\ req'.payload = a
            /\ req'.payload_len = b /\ req'.payload_pos = req.payload_pos
        BY <1>1, <3>1 DEF RequestRecord
      <3> QED BY <3>2 DEF a, b
    <2>6. pc' = "serve" /\ resp' = resp
      BY <1>6 DEF ParseDone
    <2> QED BY <1>1, <2>1, <2>2, <2>5, <2>6, SMTT(60)
  <1> QED BY <1>4, <1>5, <1>6 DEF Parse

(* Before a request has been accepted all the input the connection has     *)
(* taken is in the header buffer.                                          *)
LEMMA ReadingFacts ==
  ASSUME IInv, Alive, req.state = "READ"
  PROVE  /\ ~ Accepted /\ got = <<>> /\ req.payload_pos = 0 /\ req.payload_len = 0
         /\ Len(got) = 0 /\ Held = Base(cur) + Len(req_headers)
         /\ req_headers # <<>> => served < N /\ req_headers[1] = Stream[Base(cur) + 1]
         /\ req_headers = <<>> <=> Len(req_headers) = 0
  <1>1. ~ Accepted /\ got = <<>> /\ req.payload_len = 0
    BY DEF IInv, PayloadOK
  <1>2. req.payload_pos = 0
    BY <1>1, SMTT(60) DEF IInv, TypeOK, RequestRecord
  <1>3. /\ cur \in 1 .. N + 1 /\ Base(cur) \in Nat /\ Len(req_headers) \in Nat
        /\ Held \in Nat /\ served = N => Held = Base(cur)
        /\ N \in Nat /\ served \in 0 .. N
    BY CurFacts, RequestFacts DEF IInv, TypeOK, N
  <1>4. Len(got) = 0
    BY <1>1
  <1>5. Held = Base(cur) + Len(req_headers)
    BY <1>2, <1>3, <1>4 DEF Held
  <1>6. req_headers = <<>> <=> Len(req_headers) = 0
    BY EmptySeq DEF IInv, TypeOK
  <1>7. ASSUME req_headers # <<>> PROVE served < N /\ req_headers[1] = Stream[Base(cur) + 1]
    <2>1. 1 \in 1 .. Len(req_headers) /\ served < N
      BY <1>3, <1>5, <1>6, <1>7
    <2> QED BY <2>1 DEF IInv, InputOK
  <1> QED BY <1>1, <1>2, <1>4, <1>5, <1>6, <1>7

(* What a read adds to it.                                                 *)
LEMMA RecvFacts ==
  ASSUME IInv, RecvData
  PROVE  /\ req_headers' \in Seq(InUnit) /\ Len(req_headers') <= BufSz
         /\ req_headers' # <<>> /\ served < N
         /\ \A k \in 1 .. Len(req_headers') : req_headers'[k] = Stream[Base(cur) + k]
         /\ rx' \in Seq(InUnit)
         /\ Base(cur) + Len(req_headers') + Len(rx') = sent
         /\ \A k \in 1 .. Len(rx') : rx'[k] = Stream[Base(cur) + Len(req_headers') + k]
         /\ Parse(req_headers')
  <1> DEFINE n == Min2(Len(rx), Space)
             L == Len(req_headers)
  <1>1. /\ Alive /\ req.state = "READ" /\ peer # "reset" /\ rx # <<>> /\ Space > 0
        /\ req_headers' = req_headers \o First(rx, n) /\ rx' = After(rx, n)
        /\ Parse(req_headers')
    BY DEF RecvData, IInv, ControlOK, Alive
  <1>2. /\ L \in Nat /\ Len(rx) \in Nat /\ Base(cur) \in Nat /\ N \in Nat /\ BufSz \in Nat
        /\ served \in 0 .. N /\ Held \in Nat /\ Held + Len(rx) = sent
        /\ Held = Base(cur) + L /\ L <= BufSz /\ Space = BufSz - L
        /\ served = N => sent = Held
    BY <1>1, CurFacts, ReadingFacts, RequestFacts, BufferAssumption DEF IInv, TypeOK, N, Space
  <1>3. rx \in Seq(InUnit) /\ req_headers \in Seq(InUnit) /\ Len(rx) > 0
    BY <1>1, <1>2, EmptySeq DEF IInv, TypeOK
  <1>4. n \in Nat /\ n <= Len(rx) /\ n <= BufSz - L /\ n > 0
    <2>1. Space \in Nat
      BY <1>1, <1>2
    <2>2. Min2(Len(rx), Space) \in Nat /\ Min2(Len(rx), Space) <= Len(rx)
          /\ Min2(Len(rx), Space) <= Space /\ Min2(Len(rx), Space) \in {Len(rx), Space}
      BY <1>2, <2>1, MinFacts
    <2> QED BY <1>1, <1>2, <1>3, <2>2
  <1> HIDE DEF n
  <1>5. /\ First(rx, n) \in Seq(InUnit) /\ Len(First(rx, n)) = n
        /\ \A k \in 1 .. n : First(rx, n)[k] = rx[k]
        /\ After(rx, n) \in Seq(InUnit) /\ Len(After(rx, n)) = Len(rx) - n
        /\ \A k \in 1 .. Len(rx) - n : After(rx, n)[k] = rx[n + k]
    BY <1>3, <1>4, FirstFacts, AfterFacts
  <1>6. /\ req_headers' \in Seq(InUnit) /\ Len(req_headers') = L + n
        /\ \A k \in 1 .. L : req_headers'[k] = req_headers[k]
        /\ \A k \in L + 1 .. L + n : req_headers'[k] = First(rx, n)[k - L]
    <2> DEFINE f == First(rx, n)
    <2>1. f \in Seq(InUnit) /\ Len(f) = n /\ req_headers' = req_headers \o f
      BY <1>1, <1>5
    <2> HIDE DEF f
    <2>2. /\ req_headers \o f \in Seq(InUnit) /\ Len(req_headers \o f) = L + Len(f)
          /\ \A k \in 1 .. L : (req_headers \o f)[k] = req_headers[k]
          /\ \A k \in L + 1 .. L + Len(f) : (req_headers \o f)[k] = f[k - L]
      BY ZenonT(60), <1>3, <2>1, JoinFacts
    <2> QED BY <2>1, <2>2 DEF f
  <1>7. /\ \A k \in 1 .. L : req_headers[k] = Stream[Base(cur) + k]
        /\ \A k \in 1 .. Len(rx) : rx[k] = Stream[Held + k]
    BY <1>1 DEF IInv, InputOK
  <1>8. served < N
    BY <1>2, <1>3
  <1>9. ASSUME NEW k \in 1 .. L + n PROVE req_headers'[k] = Stream[Base(cur) + k]
    <2>1. CASE k <= L
      BY <1>2, <1>6, <1>7, <2>1, SMTT(60)
    <2>2. CASE k > L
      <3>1. k \in L + 1 .. L + n /\ k - L \in 1 .. n /\ k - L \in 1 .. Len(rx)
        BY <1>2, <1>4, <2>2, SMTT(60)
      <3>2. req_headers'[k] = rx[k - L] /\ rx[k - L] = Stream[Held + (k - L)]
        BY <1>5, <1>6, <1>7, <3>1
      <3>3. Held + (k - L) = Base(cur) + k
        BY <1>2, <3>1, SMTT(60)
      <3> QED BY <3>2, <3>3
    <2> QED BY <1>2, <1>4, <2>1, <2>2
  <1>10. ASSUME NEW k \in 1 .. Len(rx) - n PROVE rx'[k] = Stream[Base(cur) + (L + n) + k]
    <2>1. n + k \in 1 .. Len(rx) /\ Held + (n + k) = Base(cur) + (L + n) + k
      BY <1>2, <1>4, SMTT(60)
    <2> QED BY <1>1, <1>5, <1>7, <2>1
  <1>11. Len(req_headers') <= BufSz /\ req_headers' # <<>>
    <2>1. L + n > 0 /\ L + n <= BufSz
      BY <1>2, <1>4
    <2> QED BY <1>6, <2>1, EmptySeq
  <1>12. Base(cur) + (L + n) + (Len(rx) - n) = sent
    BY <1>2, <1>4
  <1> QED BY <1>1, <1>5, <1>6, <1>8, <1>9, <1>10, <1>11, <1>12, SMTT(60)
(* What a reading step of the worker does to the request.                  *)
LEMMA RecvRequest ==
  ASSUME IInv, RecvData \/ RecvLeftover
  PROVE  /\ req' \in RequestRecord /\ req'.payload_pos = 0 /\ req.state = "READ" /\ pc = "recv"
         /\ UNCHANGED <<sent, peer, txq, nospace, edge, callvars, outvars>>
         /\ req_headers' \in Seq(InUnit) /\ Len(req_headers') <= BufSz
         /\ \/ /\ pc' = "recv" /\ resp' = resp /\ ~ Complete(req_headers')
               /\ req'.state = "READ" /\ req'.iter = Len(req_headers')
               /\ req'.payload = 0 /\ req'.payload_len = 0
            \/ /\ pc' = "prepare" /\ resp' = [resp EXCEPT !.status = BadRequest]
               /\ req'.state = "PREPARE_RESPONSE" /\ Spoiled(cur)
               /\ req'.payload = 0 /\ req'.payload_len = 0
               /\ req_headers' # <<>> /\ served < N
            \/ /\ pc' = "serve" /\ resp' = resp /\ ~ Spoiled(cur)
               /\ req'.state = "SERVE" /\ req'.payload = Requests[cur].hdr
               /\ req'.payload > 0 /\ req'.payload + req'.payload_len = Len(req_headers')
               /\ req_headers' # <<>> /\ served < N
  <1>1. pc = "recv" /\ Alive /\ req.state = "READ"
    BY DEF RecvData, RecvLeftover, IInv, ControlOK, Alive
  <1>2. req.payload = 0 /\ req.payload_pos = 0 /\ req.payload_len = 0
    BY <1>1, ReadingFacts DEF Accepted
  <1>3. /\ UNCHANGED <<sent, peer, txq, nospace, edge, callvars, outvars>>
        /\ Parse(req_headers')
    <2>1. CASE RecvData
      BY <2>1 DEF RecvData
    <2>2. CASE RecvLeftover
      <3>1. /\ UNCHANGED <<sent, peer, txq, nospace, edge, callvars, outvars>>
            /\ Parse(req_headers) /\ req_headers' = req_headers
        BY <2>2 DEF RecvLeftover, netvars
      <3> QED BY <3>1
    <2> QED BY <2>1, <2>2
  <1>4. req_headers' \in Seq(InUnit) /\ Len(req_headers') <= BufSz
    BY RecvFacts DEF RecvLeftover, IInv, TypeOK
  <1>5. req_headers' # <<>> => served < N /\ req_headers'[1] = Stream[Base(cur) + 1]
    <2>1. CASE RecvData
      <3>1. Len(req_headers') \in Nat /\ Len(req_headers') # 0
        BY <1>4, <2>1, RecvFacts, LenProperties, EmptySeq
      <3>2. 1 \in 1 .. Len(req_headers')
        BY <3>1
      <3> QED BY <2>1, <3>2, RecvFacts
    <2>2. CASE RecvLeftover
      BY <1>1, <2>2, ReadingFacts DEF RecvLeftover
    <2> QED BY <2>1, <2>2
  <1> DEFINE buf == req_headers'
  <1>6. /\ buf \in Seq(InUnit) /\ Len(buf) <= BufSz /\ Parse(buf)
        /\ buf # <<>> => served < N /\ buf[1] = Stream[Base(cur) + 1]
    BY <1>3, <1>4, <1>5
  <1>7. TypeOK
    BY DEF IInv
  <1> QED BY <1>1, <1>2, <1>3, <1>4, <1>5, <1>6, <1>7, ParseFacts

-----------------------------------------------------------------------------
(* Control: serve_client is entered where the transaction was left.        *)
LEMMA ControlStep ==
  ASSUME IInv, [Next]_vars
  PROVE  ControlOK'
  <1>1. /\ req \in RequestRecord /\ ControlOK /\ N \in Nat /\ served \in 0 .. N
        /\ pc \in {"idle", "recv", "serve", "handler", "payload", "prepare", "send",
                   "sendfile", "done", "close", "closed"}
    BY RequestFacts DEF IInv, TypeOK, N
  <1>2. CASE RecvData \/ RecvLeftover
    BY <1>1, <1>2, RecvRequest DEF ControlOK, N, outvars
  <1>3. CASE RecvFull
    <2>1. req_headers # <<>>
      <3>1. Len(req_headers) # 0
        BY <1>3, BufferAssumption DEF RecvFull, Space, IInv, TypeOK
      <3> QED BY <3>1
    <2>2. served < N
      BY <1>1, <1>3, <2>1, ReadingFacts DEF RecvFull, Alive, ControlOK
    <2> QED BY <1>1, <1>3, <2>2, StateSet DEF RecvFull, Prepare, ControlOK, outvars, N
  <1>4. CASE RecvBlock \/ RecvHangup
    BY <1>1, <1>4 DEF RecvBlock, RecvHangup, Block, Drop, ControlOK, outvars
  <1>5. CASE ServeStatic \/ HandlerAnswer
    <2>1. /\ req' = [req EXCEPT !.state = "PREPARE_RESPONSE"] /\ pc' = "prepare"
          /\ pc \in {"serve", "handler"} /\ served' = served
      BY <1>5 DEF ServeStatic, HandlerAnswer, Served, Prepare
    <2> QED BY <1>1, <2>1, StateSet DEF ControlOK
  <1>6. CASE HandlerRead
    BY <1>1, <1>6 DEF HandlerRead, ControlOK, RequestRecord, outvars
  <1>7. CASE ServeApi \/ PayloadData \/ PayloadPartial \/ PayloadBlock \/ PayloadEof
    BY <1>1, <1>7 DEF ServeApi, PayloadData, PayloadPartial, PayloadBlock, PayloadEof, Block,
       ControlOK, outvars
  <1>8. CASE PayloadError \/ PrepareOk
    <2>1. \/ /\ req' = [req EXCEPT !.state = "PREPARE_RESPONSE"] /\ pc' = "prepare"
             /\ pc = "payload" /\ served' = served
          \/ /\ req' = [req EXCEPT !.state = "SEND"] /\ pc' = "send"
             /\ pc = "prepare" /\ served' = served
      BY <1>8 DEF PayloadError, PrepareOk, Prepare, outvars
    <2> QED BY <1>1, <2>1, StateSet, SMTT(60) DEF ControlOK, RequestRecord
  <1>9. CASE PrepareFail \/ SendFileError \/ EndConnection
    BY <1>1, <1>9 DEF PrepareFail, SendFileError, EndConnection, Drop, ControlOK, outvars
  <1>10. CASE Writev
    <2>1. /\ pc = "send" /\ served' = served
          /\ \/ req' = [req EXCEPT !.state = "SEND_FILE"] /\ pc' = "sendfile"
             \/ req' = req /\ pc' = pc
      BY <1>10 DEF Writev
    <2>2. \/ req'.state = "SEND_FILE" /\ pc' = "sendfile"
          \/ req'.state = req.state /\ pc' = pc
      BY <1>1, <2>1 DEF RequestRecord
    <2> QED BY <1>1, <2>1, <2>2 DEF ControlOK
  <1>11. CASE WritevBlock \/ WritevError \/ SendFileBlock
    BY <1>1, <1>11 DEF WritevBlock, WritevError, SendFileBlock, Block, ControlOK, outvars
  <1>12. CASE SendFile
    <2>1. /\ pc = "sendfile" /\ served' = served
          /\ \/ req' = [req EXCEPT !.state = "DONE"] /\ pc' = "done"
             \/ req' = req /\ pc' = pc
      BY <1>12 DEF SendFile, FileSent
    <2>2. \/ req'.state = "DONE" /\ pc' = "done"
          \/ req'.state = req.state /\ pc' = pc
      BY <1>1, <2>1 DEF RequestRecord
    <2> QED BY <1>1, <2>1, <2>2 DEF ControlOK
  <1>13. CASE SendFileNone \/ SendFileEmpty \/ SendFileShort
    <2>1. /\ pc = "sendfile" /\ served' = served
          /\ req' = [req EXCEPT !.state = "DONE"] /\ pc' = "done"
      BY <1>13 DEF SendFileNone, SendFileEmpty, SendFileShort, FileSent, outvars
    <2>2. req'.state = "DONE" /\ pc' = "done"
      BY <1>1, <2>1 DEF RequestRecord
    <2> QED BY <1>1, <2>1, <2>2 DEF ControlOK
  <1>14. CASE Finalize \/ Close
    BY <1>1, <1>14, ZeroFacts DEF Finalize, Close, ControlOK
  <1>15. CASE Event
    BY <1>1, <1>15 DEF Event, Enter, ControlOK, outvars
  <1>16. CASE Peer \/ UNCHANGED vars
    BY <1>1, <1>16 DEF Peer, PeerSend, PeerShutdown, PeerReset, PeerReceive, ControlOK, outvars, vars
  <1> QED BY <1>2, <1>3, <1>4, <1>5, <1>6, <1>7, <1>8, <1>9, <1>10, <1>11, <1>12, <1>13,
             <1>14, <1>15, <1>16, SMTT(60)
          DEF Next, Worker, Recv, Serve, Payload, PrepareResp, Send, SendResponseFile
(* Most steps leave the buffered input and the payload as they are.        *)
Moves == RecvData \/ RecvLeftover \/ HandlerRead \/ PayloadData \/ Finalize \/ Close
LEMMA Kept ==
  ASSUME IInv, [Next]_vars, ~ Moves
  PROVE  /\ req' \in RequestRecord /\ req'.iter = req.iter /\ req'.payload = req.payload
         /\ req'.payload_len = req.payload_len /\ req'.payload_pos = req.payload_pos
         /\ UNCHANGED <<req_headers, callvars, served>> /\ (Alive' <=> Alive)
         /\ req'.state = "READ" => req.state = "READ"
         /\ req'.state = "SERVE" => req.state = "SERVE"
  <1>1. /\ req \in RequestRecord
        /\ pc \in {"idle", "recv", "serve", "handler", "payload", "prepare", "send",
                   "sendfile", "done", "close", "closed"}
    BY DEF IInv, TypeOK
  <1> USE DEF outvars, callvars, netvars
  <1>2. CASE RecvFull
    <2>1. /\ req' = [req EXCEPT !.state = "PREPARE_RESPONSE"] /\ pc' = "prepare" /\ pc = "recv"
          /\ UNCHANGED <<req_headers, callvars, served>>
      BY <1>2 DEF RecvFull, Prepare
    <2> QED BY <1>1, <2>1 DEF RequestRecord, Alive
  <1>3. CASE RecvBlock \/ RecvHangup
    BY <1>1, <1>3 DEF RecvBlock, RecvHangup, Block, Drop, Alive
  <1>4. CASE ServeStatic \/ HandlerAnswer
    <2>1. /\ req' = [req EXCEPT !.state = "PREPARE_RESPONSE"] /\ pc' = "prepare"
          /\ pc \in {"serve", "handler"} /\ UNCHANGED <<req_headers, callvars, served>>
      BY <1>4 DEF ServeStatic, HandlerAnswer, Served, Prepare
    <2> QED BY <1>1, <2>1 DEF RequestRecord, Alive
  <1>5. CASE ServeApi \/ PayloadPartial \/ PayloadBlock \/ PayloadEof
    BY <1>1, <1>5 DEF ServeApi, PayloadPartial, PayloadBlock, PayloadEof, Block, Alive
  <1>6. CASE PayloadError \/ PrepareOk
    <2>1. /\ \/ req' = [req EXCEPT !.state = "PREPARE_RESPONSE"] /\ pc' = "prepare"
             \/ req' = [req EXCEPT !.state = "SEND"] /\ pc' = "send"
          /\ pc \in {"payload", "prepare"} /\ UNCHANGED <<req_headers, callvars, served>>
      BY <1>6 DEF PayloadError, PrepareOk, Prepare
    <2> QED BY <1>1, <2>1, SMTT(60) DEF RequestRecord, Alive
  <1>7. CASE PrepareFail \/ SendFileError \/ EndConnection
    BY <1>1, <1>7 DEF PrepareFail, SendFileError, EndConnection, Drop, Alive
  <1>8. CASE Writev
    <2>1. /\ \/ req' = [req EXCEPT !.state = "SEND_FILE"] /\ pc' = "sendfile"
             \/ req' = req /\ pc' = pc
          /\ pc = "send" /\ UNCHANGED <<req_headers, callvars, served>>
      BY <1>8 DEF Writev
    <2> QED BY <1>1, <2>1 DEF RequestRecord, Alive
  <1>9. CASE WritevBlock \/ WritevError \/ SendFileBlock
    BY <1>1, <1>9 DEF WritevBlock, WritevError, SendFileBlock, Block, Alive
  <1>10. CASE SendFile
    <2>1. /\ \/ req' = [req EXCEPT !.state = "DONE"] /\ pc' = "done"
             \/ req' = req /\ pc' = pc
          /\ pc = "sendfile" /\ UNCHANGED <<req_headers, callvars, served>>
      BY <1>10 DEF SendFile, FileSent
    <2> QED BY <1>1, <2>1 DEF RequestRecord, Alive
  <1>11. CASE SendFileNone \/ SendFileEmpty \/ SendFileShort
    <2>1. /\ req' = [req EXCEPT !.state = "DONE"] /\ pc' = "done"
          /\ pc = "sendfile" /\ UNCHANGED <<req_headers, callvars, served>>
      BY <1>11 DEF SendFileNone, SendFileEmpty, SendFileShort, FileSent
    <2> QED BY <1>1, <2>1 DEF RequestRecord, Alive
  <1>12. CASE Event
    BY <1>1, <1>12 DEF Event, Enter, Alive, IInv, ControlOK
  <1>13. CASE Peer \/ UNCHANGED vars
    BY <1>1, <1>13 DEF Peer, PeerSend, PeerShutdown, PeerReset, PeerReceive, Alive, vars
  <1> QED BY <1>2, <1>3, <1>4, <1>5, <1>6, <1>7, <1>8, <1>9, <1>10, <1>11, <1>12, <1>13
          DEF Moves, Next, Worker, Recv, Serve, Payload, PrepareResp, Send, SendResponseFile

LEMMA KeptInput ==
  ASSUME IInv, [Next]_vars, ~ Moves, ~ Peer
  PROVE  UNCHANGED <<sent, rx, peer>>
  <1> USE DEF outvars, callvars, netvars
  <1>1. CASE RecvFull \/ RecvBlock \/ RecvHangup
    BY <1>1 DEF RecvFull, RecvBlock, RecvHangup
  <1>2. CASE ServeStatic \/ HandlerAnswer \/ ServeApi
    BY <1>2 DEF ServeStatic, HandlerAnswer, ServeApi
  <1>3. CASE PayloadPartial \/ PayloadBlock \/ PayloadEof \/ PayloadError
    BY <1>3, SMTT(60) DEF PayloadPartial, PayloadBlock, PayloadEof, PayloadError
  <1>4. CASE PrepareOk \/ PrepareFail \/ EndConnection \/ Event
    BY <1>4 DEF PrepareOk, PrepareFail, EndConnection, Event
  <1>5. CASE Writev \/ WritevBlock \/ WritevError
    BY <1>5 DEF Writev, WritevBlock, WritevError
  <1>6. CASE SendFileNone \/ SendFile \/ SendFileEmpty \/ SendFileShort \/ SendFileBlock
             \/ SendFileError
    BY <1>6 DEF SendFileNone, SendFile, SendFileEmpty, SendFileShort, SendFileBlock, SendFileError
  <1>7. CASE UNCHANGED vars
    BY <1>7 DEF vars
  <1> QED BY <1>1, <1>2, <1>3, <1>4, <1>5, <1>6, <1>7
          DEF Moves, Next, Worker, Recv, Serve, Payload, PrepareResp, Send, SendResponseFile
-----------------------------------------------------------------------------
(* Input.  What a request that is served has read, wherever it came from.  *)
LEMMA ServingFacts ==
  ASSUME IInv, Accepted
  PROVE  /\ served < N => cur \in 1 .. N
         /\ req.payload = Requests[cur].hdr /\ ~ Spoiled(cur)
         /\ req.payload \in Nat /\ req.payload_len \in Nat /\ req.payload_pos \in Nat
         /\ req.payload_pos <= req.payload_len
         /\ req.payload + req.payload_len = Len(req_headers)
         /\ Len(got) <= Requests[cur].reads /\ Len(got) \in Nat
         /\ req.payload_pos < Len(got) => req.payload_pos = req.payload_len
         /\ \A k \in 1 .. req.payload_pos : got[k] = req_headers[req.payload + k]
         /\ Alive => req.payload_pos <= Len(got)
         /\ req_headers \in Seq(InUnit) /\ got \in Seq(InUnit) /\ rx \in Seq(InUnit)
         /\ req.state # "READ" /\ served < N
  <1>1. req \in RequestRecord /\ served \in 0 .. N /\ N \in Nat
    BY RequestFacts DEF IInv, TypeOK, N
  <1>2. req_headers \in Seq(InUnit) /\ got \in Seq(InUnit) /\ rx \in Seq(InUnit) /\ Len(got) \in Nat
    BY LenProperties DEF IInv, TypeOK
  <1>3. req.payload \in Nat /\ req.payload_len \in Nat /\ req.payload_pos \in Nat
    BY <1>1 DEF RequestRecord
  <1>4. req.payload_pos <= req.payload_len
    BY DEF IInv, TypeOK
  <1>5. req.state # "READ" /\ served < N
    BY DEF IInv, PayloadOK, ControlOK, N
  <1>6. Alive => req.payload_pos <= Len(got)
    BY DEF IInv, InputOK
  <1>7. /\ ~ Spoiled(cur) /\ req.payload = Requests[cur].hdr
        /\ req.payload + req.payload_len = Len(req_headers)
        /\ Len(got) <= Requests[cur].reads
        /\ req.payload_pos < Len(got) => req.payload_pos = req.payload_len
        /\ \A k \in 1 .. req.payload_pos : got[k] = req_headers[req.payload + k]
    BY DEF IInv, PayloadOK
  <1>8. cur \in 1 .. N
    BY <1>1, <1>5 DEF cur
  <1> QED BY <1>2, <1>3, <1>4, <1>5, <1>6, <1>7, <1>8

LEMMA HandlerReadFacts ==
  ASSUME IInv, HandlerRead
  PROVE  \E m \in Nat :
           /\ req' \in RequestRecord /\ req'.state = req.state /\ req'.iter = req.iter
           /\ req'.payload = req.payload /\ req'.payload_len = req.payload_len
           /\ req'.payload_pos = req.payload_pos + m /\ req.payload_pos + m <= req.payload_len
           /\ m > 0 => req.payload_pos = Len(got)
           /\ got' \in Seq(InUnit) /\ Len(got') = Len(got) + m /\ Len(got) + m <= Requests[cur].reads
           /\ \A k \in 1 .. Len(got) : got'[k] = got[k]
           /\ \A k \in Len(got) + 1 .. Len(got) + m :
                got'[k] = req_headers[req.payload + req.payload_pos + (k - Len(got))]
           /\ nbytes' \in Nat /\ written' \in Nat
           /\ \/ pc' = "handler"
              \/ /\ pc' = "payload" /\ nbytes' > 0
                 /\ nbytes' <= Requests[cur].reads - (Len(got) + m)
                 /\ req.payload_pos + m = req.payload_len
  <1>1. Accepted /\ Alive /\ pc = "handler"
    BY DEF HandlerRead, IInv, ControlOK, PayloadOK, Alive
  <1>2. /\ req \in RequestRecord /\ BufSz \in Nat /\ req.payload_len <= BufSz
        /\ Len(req_headers) \in Nat
    <2>1. req \in RequestRecord /\ BufSz \in Nat /\ Len(req_headers) \in Nat
      BY BufferAssumption, LenProperties DEF IInv, TypeOK
    <2> QED BY <2>1 DEF RequestRecord
  <1>3. /\ req.payload \in Nat /\ req.payload_len \in Nat /\ req.payload_pos \in Nat
        /\ req.payload_pos <= req.payload_len /\ req.payload_pos <= Len(got)
        /\ req.payload + req.payload_len = Len(req_headers)
        /\ Len(got) <= Requests[cur].reads /\ Len(got) \in Nat
        /\ req.payload_pos < Len(got) => req.payload_pos = req.payload_len
        /\ req_headers \in Seq(InUnit) /\ got \in Seq(InUnit) /\ cur \in 1 .. N
    BY <1>1, ServingFacts
  <1>4. Requests[cur].reads \in Nat
    BY <1>3, RequestFacts
  <1>5. PICK n \in 1 .. Wanted :
          LET m == Min2(n, Overread)
              p == req.payload + req.payload_pos
          IN  /\ got' = got \o SubSeq(req_headers, p + 1, p + m)
              /\ req' = [req EXCEPT !.payload_pos = @ + m]
              /\ nbytes' = n - m
              /\ written' = m
              /\ pc' = IF n > m THEN "payload" ELSE "handler"
    BY DEF HandlerRead
  <1>6. Wanted = Requests[cur].reads - Len(got) /\ Overread = req.payload_len - req.payload_pos
    BY DEF Wanted, Overread
  <1> DEFINE m == Min2(n, Overread)
             p == req.payload + req.payload_pos
             piece == SubSeq(req_headers, p + 1, p + m)
  <1>7. /\ n \in Nat /\ Overread \in Nat /\ m \in Nat /\ m <= n /\ m <= Overread
        /\ m \in {n, Overread} /\ p \in Nat /\ p + m <= Len(req_headers)
    <2>1. n \in Nat /\ Overread \in Nat /\ p \in Nat
      BY SMTT(60), <1>3, <1>4, <1>6
    <2>2. m \in Nat /\ m <= n /\ m <= Overread /\ m \in {n, Overread}
      BY <2>1, MinFacts
    <2> HIDE DEF m
    <2> QED BY SMTT(60), <1>2, <1>3, <1>6, <2>1, <2>2
  <1>8. /\ got' = got \o piece /\ req' = [req EXCEPT !.payload_pos = @ + m]
        /\ nbytes' = n - m /\ written' = m /\ pc' = IF n > m THEN "payload" ELSE "handler"
    BY <1>5
  <1> HIDE DEF m, p
  <1>9. /\ piece \in Seq(InUnit) /\ Len(piece) = m
        /\ \A k \in 1 .. m : piece[k] = req_headers[p + k]
    BY <1>3, <1>7, Piece, SMTT(60)
  <1> HIDE DEF piece
  <1>10. /\ got' \in Seq(InUnit) /\ Len(got') = Len(got) + m
         /\ \A k \in 1 .. Len(got) : got'[k] = got[k]
         /\ \A k \in Len(got) + 1 .. Len(got) + m : got'[k] = piece[k - Len(got)]
    <2>1. /\ got \o piece \in Seq(InUnit) /\ Len(got \o piece) = Len(got) + Len(piece)
          /\ \A k \in 1 .. Len(got) : (got \o piece)[k] = got[k]
          /\ \A k \in Len(got) + 1 .. Len(got) + Len(piece) : (got \o piece)[k] = piece[k - Len(got)]
      <3>1. got \in Seq(InUnit) /\ piece \in Seq(InUnit)
        BY <1>3, <1>9
      <3> QED BY <3>1, JoinFacts
    <2> QED BY <1>8, <1>9, <2>1
  <1>11. \A k \in Len(got) + 1 .. Len(got) + m :
           got'[k] = req_headers[req.payload + req.payload_pos + (k - Len(got))]
    <2> SUFFICES ASSUME NEW k \in Len(got) + 1 .. Len(got) + m
                 PROVE got'[k] = req_headers[req.payload + req.payload_pos + (k - Len(got))]
      OBVIOUS
    <2>1. k - Len(got) \in 1 .. m
      BY <1>3, <1>7
    <2> QED BY <1>9, <1>10, <2>1 DEF p
  <1>12. req.payload_pos + m <= req.payload_len /\ req.payload_pos + m \in 0 .. BufSz
    BY SMTT(60), <1>2, <1>3, <1>6, <1>7
  <1>13. /\ req' \in RequestRecord /\ req'.state = req.state /\ req'.iter = req.iter
         /\ req'.payload = req.payload /\ req'.payload_len = req.payload_len
         /\ req'.payload_pos = req.payload_pos + m
    BY <1>2, <1>8, <1>12 DEF RequestRecord
  <1>14. m > 0 => req.payload_pos = Len(got)
    BY <1>3, <1>6, <1>7
  <1>15. Len(got) + m <= Requests[cur].reads
    BY <1>3, <1>4, <1>6, <1>7, SMTT(60)
  <1>16. nbytes' \in Nat /\ written' \in Nat
    BY <1>7, <1>8
  <1>17. \/ pc' = "handler"
         \/ /\ pc' = "payload" /\ nbytes' > 0
            /\ nbytes' <= Requests[cur].reads - (Len(got) + m)
            /\ req.payload_pos + m = req.payload_len
    <2>1. CASE n > m
      <3>1. m = Overread /\ nbytes' > 0 /\ pc' = "payload"
        BY <1>7, <1>8, <2>1
      <3>2. nbytes' <= Requests[cur].reads - (Len(got) + m)
        BY SMTT(60), <1>3, <1>4, <1>6, <1>7, <1>8
      <3> QED BY <1>3, <1>6, <3>1, <3>2, SMTT(60)
    <2>2. CASE ~ (n > m)
      BY <1>8, <2>2
    <2> QED BY <2>1, <2>2
  <1> QED BY <1>7, <1>10, <1>11, <1>12, <1>13, <1>14, <1>15, <1>16, <1>17

LEMMA PayloadDataFacts ==
  ASSUME IInv, PayloadData
  PROVE  \E n \in Nat :
           /\ UNCHANGED <<sent, peer, req, req_headers, served>> /\ peer # "reset"
           /\ n <= Len(rx) /\ n <= nbytes /\ Accepted /\ Alive
           /\ rx' \in Seq(InUnit) /\ Len(rx') = Len(rx) - n
           /\ \A k \in 1 .. Len(rx) - n : rx'[k] = rx[n + k]
           /\ got' \in Seq(InUnit) /\ Len(got') = Len(got) + n
           /\ Len(got) + n <= Requests[cur].reads
           /\ \A k \in 1 .. Len(got) : got'[k] = got[k]
           /\ \A k \in Len(got) + 1 .. Len(got) + n : got'[k] = rx[k - Len(got)]
           /\ nbytes' = nbytes - n /\ nbytes' \in Nat /\ written' \in Nat
           /\ req.payload_pos = req.payload_len
           /\ nbytes' <= Requests[cur].reads - (Len(got) + n)
           /\ pc' \in {"handler", "payload"} /\ (pc' = "payload" => nbytes' > 0)
  <1>1. Accepted /\ Alive /\ pc = "payload" /\ peer # "reset"
    BY DEF PayloadData, IInv, ControlOK, PayloadOK, Alive
  <1>2. /\ nbytes \in Nat /\ written \in Nat /\ nbytes <= Wanted
        /\ req.payload_pos = req.payload_len
    BY <1>1 DEF IInv, TypeOK, PayloadOK
  <1>3. got \in Seq(InUnit) /\ rx \in Seq(InUnit) /\ Len(got) \in Nat /\ Len(rx) \in Nat
    BY LenProperties DEF IInv, TypeOK
  <1>4. Requests[cur].reads \in Nat /\ Wanted = Requests[cur].reads - Len(got)
    BY <1>1, ServingFacts, RequestFacts DEF Wanted
  <1> DEFINE n == Min2(Len(rx), nbytes)
  <1>5. n \in Nat /\ n <= Len(rx) /\ n <= nbytes
    BY <1>2, <1>3, MinFacts
  <1>6. /\ got' = got \o First(rx, n) /\ rx' = After(rx, n)
        /\ nbytes' = nbytes - n /\ written' = written + n
        /\ pc' = IF n < nbytes THEN "payload" ELSE "handler"
        /\ UNCHANGED <<sent, peer, req, req_headers, served>>
    BY DEF PayloadData, outvars
  <1> HIDE DEF n
  <1>7. /\ First(rx, n) \in Seq(InUnit) /\ Len(First(rx, n)) = n
        /\ \A k \in 1 .. n : First(rx, n)[k] = rx[k]
        /\ After(rx, n) \in Seq(InUnit) /\ Len(After(rx, n)) = Len(rx) - n
        /\ \A k \in 1 .. Len(rx) - n : After(rx, n)[k] = rx[n + k]
    <2>1. rx \in Seq(InUnit) /\ n \in Nat /\ n <= Len(rx)
      BY <1>3, <1>5
    <2>2. /\ First(rx, n) \in Seq(InUnit) /\ Len(First(rx, n)) = n
          /\ \A k \in 1 .. n : First(rx, n)[k] = rx[k]
      BY <2>1, FirstFacts
    <2>3. /\ After(rx, n) \in Seq(InUnit) /\ Len(After(rx, n)) = Len(rx) - n
          /\ \A k \in 1 .. Len(rx) - n : After(rx, n)[k] = rx[n + k]
      BY <2>1, AfterFacts
    <2> QED BY <2>2, <2>3
  <1>8. /\ got' \in Seq(InUnit) /\ Len(got') = Len(got) + n
        /\ \A k \in 1 .. Len(got) : got'[k] = got[k]
        /\ \A k \in Len(got) + 1 .. Len(got) + n : got'[k] = First(rx, n)[k - Len(got)]
    <2> DEFINE f == First(rx, n)
    <2>1. f \in Seq(InUnit) /\ Len(f) = n /\ got' = got \o f
      BY <1>6, <1>7
    <2> HIDE DEF f
    <2>2. /\ got \o f \in Seq(InUnit) /\ Len(got \o f) = Len(got) + Len(f)
          /\ \A k \in 1 .. Len(got) : (got \o f)[k] = got[k]
          /\ \A k \in Len(got) + 1 .. Len(got) + Len(f) : (got \o f)[k] = f[k - Len(got)]
      BY ZenonT(60), <1>3, <2>1, JoinFacts
    <2> QED BY <2>1, <2>2 DEF f
  <1>9. \A k \in Len(got) + 1 .. Len(got) + n : got'[k] = rx[k - Len(got)]
    <2> SUFFICES ASSUME NEW k \in Len(got) + 1 .. Len(got) + n PROVE got'[k] = rx[k - Len(got)]
      OBVIOUS
    <2>1. k - Len(got) \in 1 .. n
      BY <1>3, <1>5
    <2> QED BY <1>7, <1>8, <2>1
  <1>10. /\ Len(got) + n <= Requests[cur].reads /\ nbytes' \in Nat /\ written' \in Nat
         /\ nbytes' <= Requests[cur].reads - (Len(got) + n)
         /\ pc' \in {"handler", "payload"} /\ (pc' = "payload" => nbytes' > 0)
    BY SMTT(60), <1>2, <1>3, <1>4, <1>5, <1>6
  <1> QED BY <1>1, <1>2, <1>5, <1>6, <1>7, <1>8, <1>9, <1>10
LEMMA FinalizeFacts ==
  ASSUME IInv, Finalize
  PROVE  /\ Alive /\ cur \in 1 .. N /\ served' = served + 1
         /\ Answered /\ ~ Spoiled(cur) /\ ~ Overruns(Requests[cur])
         /\ Base(cur + 1) = Base(cur) + req.payload + Len(got)
         /\ req_headers' \in Seq(InUnit) /\ Len(req_headers') <= Len(req_headers)
         /\ Len(req_headers') = Len(req_headers) - (req.payload + req.payload_pos)
         /\ \A k \in 1 .. Len(req_headers') :
              req_headers'[k] = req_headers[req.payload + req.payload_pos + k]
         /\ Len(req_headers') = 0 \/ req.payload_pos = Len(got)
         /\ got' = <<>> /\ req' = ZeroRequest /\ resp' = ZeroResponse
         /\ UNCHANGED <<sent, rx, peer>>
  <1>1. /\ pc = "done" /\ ~ StatusIsError(resp.status) /\ req.state = "DONE" /\ Alive
        /\ req_headers' = Remaining
        /\ got' = <<>> /\ req' = ZeroRequest /\ resp' = ZeroResponse
        /\ served' = served + 1 /\ UNCHANGED <<sent, rx, peer>>
    BY DEF Finalize, LastOne, IInv, ControlOK, Alive, netvars
  <1>2. Answered /\ ~ Overruns(Requests[cur])
    BY <1>1 DEF IInv, ResponseOK
  <1>3. Accepted /\ Len(got) = Requests[cur].reads
    BY <1>2 DEF Answered
  <1>4. /\ cur \in 1 .. N /\ ~ Spoiled(cur) /\ req.payload = Requests[cur].hdr
        /\ req.payload \in Nat /\ req.payload_len \in Nat /\ req.payload_pos \in Nat
        /\ req.payload_pos <= req.payload_len
        /\ req.payload + req.payload_len = Len(req_headers)
        /\ Len(got) \in Nat /\ req.payload_pos <= Len(got)
        /\ req.payload_pos < Len(got) => req.payload_pos = req.payload_len
        /\ req_headers \in Seq(InUnit)
    BY <1>1, <1>3, ServingFacts
  <1>5. Base(cur + 1) = Base(cur) + req.payload + Len(got)
    <2>1. cur \in 1 .. N + 1 /\ cur <= N /\ N \in Nat
      BY <1>4, RequestFacts
    <2>2. /\ UnreadBefore(cur) \in Nat /\ Base(cur) \in Nat
          /\ Base(cur + 1) = Base(cur) + UnreadBefore(cur) + Requests[cur].hdr + Requests[cur].reads
      BY <2>1, BaseFacts
    <2>3. UnreadBefore(cur) = 0
      BY <1>4, <2>2 DEF Spoiled
    <2> QED BY <1>3, <1>4, <2>2, <2>3
  <1> DEFINE c == req.payload + req.payload_pos
  <1>6. c \in Nat /\ c <= Len(req_headers) /\ Len(req_headers) \in Nat
    BY <1>4
  <1>7. req_headers' = After(req_headers, c)
    BY <1>1 DEF Remaining
  <1> HIDE DEF c
  <1>8. /\ req_headers' \in Seq(InUnit) /\ Len(req_headers') = Len(req_headers) - c
        /\ \A k \in 1 .. Len(req_headers') : req_headers'[k] = req_headers[c + k]
    <2>1. req_headers \in Seq(InUnit) /\ c \in Nat /\ c <= Len(req_headers)
      BY <1>4, <1>6
    <2>2. /\ After(req_headers, c) \in Seq(InUnit) /\ Len(After(req_headers, c)) = Len(req_headers) - c
          /\ \A k \in 1 .. Len(req_headers) - c : After(req_headers, c)[k] = req_headers[c + k]
      BY <2>1, AfterFacts
    <2> QED BY <1>7, <2>2
  <1>9. Len(req_headers') = 0 \/ req.payload_pos = Len(got)
    BY <1>4, <1>8 DEF c
  <1> QED BY <1>1, <1>2, <1>4, <1>5, <1>6, <1>8, <1>9 DEF c

(* No step loses, repeats or reorders input.                               *)
LEMMA InputStep ==
  ASSUME IInv, [Next]_vars
  PROVE  InputOK'
  <1>1. /\ TypeOK /\ InputOK /\ sent \in Nat /\ req.payload_pos \in Nat
        /\ rx \in Seq(InUnit) /\ N \in Nat /\ served \in 0 .. N
    BY TotalFacts, RequestFacts DEF IInv, TypeOK, RequestRecord, N
  <1>2. Alive => /\ cur \in 1 .. N + 1 /\ Base(cur) \in Nat
                 /\ Len(req_headers) \in Nat /\ Len(got) \in Nat /\ Len(rx) \in Nat
                 /\ Held \in Nat /\ Held <= sent
                 /\ peer # "reset" => Held + Len(rx) = sent
                 /\ Held = Base(cur) + Len(req_headers) + Len(got) - req.payload_pos
    BY <1>1, CurFacts DEF Held
  <1>3. CASE ~ Moves
    <2>1. /\ UNCHANGED <<req_headers, got, served>> /\ req'.payload_pos = req.payload_pos
          /\ Alive' <=> Alive
      BY <1>3, Kept DEF callvars
    <2>2. Held' = Held /\ Base(cur)' = Base(cur)
      BY <2>1 DEF Held, cur, Base, UnreadBefore
    <2>3. CASE ~ Peer \/ PeerShutdown \/ PeerReceive
      <3>1. rx' = rx /\ sent' = sent /\ (peer' = "reset" <=> peer = "reset")
        BY <1>3, <2>3, KeptInput DEF PeerShutdown, PeerReceive, netvars
      <3> QED BY <1>1, <2>1, <2>2, <3>1 DEF InputOK
    <2>4. CASE PeerSend
      <3>1. /\ rx' = Append(rx, Stream[sent + 1]) /\ sent' = sent + 1 /\ peer' = peer
            /\ sent + 1 \in 1 .. Total /\ peer # "reset" /\ Alive
        BY <1>1, <2>4, TotalFacts, SMTT(60) DEF PeerSend, TypeOK
      <3>2. Stream[sent + 1] \in InUnit
        BY <3>1, StreamType
      <3>3. /\ Len(rx') = Len(rx) + 1 /\ rx'[Len(rx) + 1] = Stream[sent + 1]
            /\ \A k \in 1 .. Len(rx) : rx'[k] = rx[k]
        BY <1>1, <3>1, <3>2, AppendProperties
      <3>4. \A k \in 1 .. Len(rx') : rx'[k] = Stream[Held + k]
        <4> SUFFICES ASSUME NEW k \in 1 .. Len(rx') PROVE rx'[k] = Stream[Held + k]
          OBVIOUS
        <4>1. Len(rx) \in Nat /\ Held \in Nat /\ Held + Len(rx) = sent
          BY <1>2, <3>1
        <4>2. CASE k = Len(rx) + 1
          <5>1. Held + k = sent + 1
            BY <1>1, <4>1, <4>2
          <5> QED BY <3>3, <4>2, <5>1
        <4>3. CASE k \in 1 .. Len(rx)
          BY <1>1, <3>1, <3>3, <4>3 DEF InputOK
        <4> QED BY <3>3, <4>1, <4>2, <4>3
      <3>5. Held + Len(rx') = sent + 1
        BY SMTT(60), <1>1, <1>2, <3>1, <3>3
      <3> QED BY <1>1, <2>1, <2>2, <3>1, <3>4, <3>5 DEF InputOK
    <2>5. CASE PeerReset
      <3>1. peer' = "reset" /\ sent' = sent /\ Alive
        BY <2>5 DEF PeerReset
      <3> QED BY <1>1, <1>2, <2>1, <2>2, <3>1 DEF InputOK
    <2> QED BY <2>3, <2>4, <2>5 DEF Peer
  <1>4. CASE RecvData
    <2>1. /\ req'.payload_pos = 0 /\ got' = got /\ served' = served /\ sent' = sent /\ peer' = peer
          /\ req.state = "READ" /\ Alive /\ peer # "reset"
      BY <1>4, RecvRequest DEF callvars, outvars, RecvData, Alive
    <2>2. Len(got') = 0 /\ Base(cur)' = Base(cur)
      BY <2>1, ReadingFacts DEF cur, Base, UnreadBefore
    <2>3. /\ \A k \in 1 .. Len(req_headers') : req_headers'[k] = Stream[Base(cur) + k]
          /\ req_headers' \in Seq(InUnit) /\ rx' \in Seq(InUnit)
          /\ Base(cur) + Len(req_headers') + Len(rx') = sent
          /\ \A k \in 1 .. Len(rx') : rx'[k] = Stream[Base(cur) + Len(req_headers') + k]
      BY <1>4, RecvFacts
    <2>4. Len(req_headers') \in Nat /\ Len(rx') \in Nat
      BY <2>3, LenProperties
    <2>5. Held' = Base(cur) + Len(req_headers')
      BY <1>2, <2>1, <2>2, <2>4 DEF Held
    <2> QED BY <2>1, <2>2, <2>3, <2>5 DEF InputOK
  <1>5. CASE RecvLeftover
    <2>1. /\ req'.payload_pos = 0 /\ UNCHANGED <<got, served, sent, peer, rx, req_headers>>
          /\ req.state = "READ" /\ Alive
      BY <1>5, RecvRequest DEF callvars, outvars, RecvLeftover, Alive, netvars
    <2>2. req.payload_pos = 0
      BY <2>1, ReadingFacts
    <2>3. Held' = Held /\ Base(cur)' = Base(cur)
      BY <2>1, <2>2 DEF Held, cur, Base, UnreadBefore
    <2> QED BY <1>1, <2>1, <2>2, <2>3 DEF InputOK
  <1>6. CASE HandlerRead
    <2>1. /\ UNCHANGED <<served, sent, peer, rx, req_headers>> /\ Alive
      BY <1>6 DEF HandlerRead, Alive, netvars, outvars
    <2>2. PICK m \in Nat :
            /\ req'.payload_pos = req.payload_pos + m
            /\ m > 0 => req.payload_pos = Len(got)
            /\ Len(got') = Len(got) + m
            /\ \A k \in 1 .. Len(got) : got'[k] = got[k]
      BY <1>6, HandlerReadFacts
    <2>3. Base(cur)' = Base(cur)
      BY <2>1 DEF cur, Base, UnreadBefore
    <2>4. Held' = Base(cur)' + Len(req_headers)' + Len(got)' - req'.payload_pos
      BY DEF Held
    <2>5. Held' = Held
      BY SMTT(60), <1>1, <1>2, <2>1, <2>2, <2>3, <2>4
    <2>6. req'.payload_pos <= Len(got')
      BY <1>1, <1>2, <2>1, <2>2, SMTT(60) DEF InputOK
    <2>7. ASSUME NEW k \in req'.payload_pos + 1 .. Len(got')
          PROVE  got'[k] = Stream[Base(cur) + Len(req_headers) + k - req'.payload_pos]
      <3>1. m = 0 /\ k \in req.payload_pos + 1 .. Len(got) /\ req'.payload_pos = req.payload_pos
            /\ k \in 1 .. Len(got)
        <4>1. /\ req.payload_pos \in Nat /\ Len(got) \in Nat /\ Len(got') = Len(got) + m
              /\ req'.payload_pos = req.payload_pos + m
              /\ m > 0 => req.payload_pos = Len(got)
          BY <1>1, <1>2, <2>1, <2>2
        <4> QED BY <2>7, <4>1
      <3> QED BY <1>1, <2>1, <2>2, <3>1 DEF InputOK
    <2> QED BY <1>1, <2>1, <2>3, <2>5, <2>6, <2>7 DEF InputOK
  <1>7. CASE PayloadData
    <2>1. PICK n \in Nat :
            /\ UNCHANGED <<sent, peer, req, req_headers, served>> /\ peer # "reset"
            /\ n <= Len(rx) /\ Alive
            /\ Len(rx') = Len(rx) - n
            /\ \A k \in 1 .. Len(rx) - n : rx'[k] = rx[n + k]
            /\ Len(got') = Len(got) + n
            /\ \A k \in 1 .. Len(got) : got'[k] = got[k]
            /\ \A k \in Len(got) + 1 .. Len(got) + n : got'[k] = rx[k - Len(got)]
      BY <1>7, PayloadDataFacts
    <2>2. Base(cur)' = Base(cur)
      BY <2>1 DEF cur, Base, UnreadBefore
    <2>3. Held' = Held + n
      <3>1. Held' = Base(cur)' + Len(req_headers)' + Len(got)' - req'.payload_pos
        BY DEF Held
      <3> QED BY SMTT(60), <1>1, <1>2, <2>1, <2>2, <3>1
    <2>4. req.payload_pos <= Len(got') /\ Held' + Len(rx') = sent
      <3>1. /\ req.payload_pos <= Len(got) /\ Len(got) \in Nat /\ Len(rx) \in Nat
            /\ Held \in Nat /\ Held + Len(rx) = sent
        BY <1>1, <1>2, <2>1 DEF InputOK
      <3>2. Len(got') = Len(got) + n /\ Len(rx') = Len(rx) - n
        BY <2>1
      <3> QED BY <1>1, <2>3, <3>1, <3>2, SMTT(60)
    <2>5. \A k \in 1 .. Len(rx) : rx[k] = Stream[Held + k]
      BY <1>1, <2>1 DEF InputOK
    <2>6. ASSUME NEW k \in req.payload_pos + 1 .. Len(got')
          PROVE  got'[k] = Stream[Base(cur) + Len(req_headers) + k - req.payload_pos]
      <3>1. CASE k <= Len(got)
        <4>1. k \in req.payload_pos + 1 .. Len(got) /\ k \in 1 .. Len(got)
          BY SMTT(60), <1>1, <1>2, <2>1, <3>1
        <4> QED BY <1>1, <2>1, <4>1 DEF InputOK
      <3>2. CASE k > Len(got)
        <4>1. /\ k \in Len(got) + 1 .. Len(got) + n /\ k - Len(got) \in 1 .. Len(rx)
              /\ Held + (k - Len(got)) = Base(cur) + Len(req_headers) + k - req.payload_pos
          <5>1. /\ Len(got) \in Nat /\ Len(got') = Len(got) + n /\ n <= Len(rx) /\ Len(rx) \in Nat
                /\ Base(cur) \in Nat /\ Len(req_headers) \in Nat /\ req.payload_pos \in Nat
                /\ Held = Base(cur) + Len(req_headers) + Len(got) - req.payload_pos
            BY <1>1, <1>2, <2>1
          <5> QED BY SMTT(60), <2>6, <3>2, <5>1
        <4> QED BY <2>1, <2>5, <4>1
      <3> QED BY <1>1, <1>2, <2>1, <3>1, <3>2
    <2>7. ASSUME NEW k \in 1 .. Len(rx') PROVE rx'[k] = Stream[Held' + k]
      <3>1. n + k \in 1 .. Len(rx) /\ k \in 1 .. Len(rx) - n /\ Held + (n + k) = Held' + k
        BY <1>2, <2>1, <2>3, SMTT(60)
      <3> QED BY <2>1, <2>5, <3>1
    <2> QED BY <1>1, <2>1, <2>2, <2>4, <2>6, <2>7 DEF InputOK
  <1>8. CASE Finalize
    <2>1. /\ Alive /\ served' = served + 1
          /\ Base(cur + 1) = Base(cur) + req.payload + Len(got)
          /\ req_headers' \in Seq(InUnit)
          /\ Len(req_headers') = Len(req_headers) - (req.payload + req.payload_pos)
          /\ \A k \in 1 .. Len(req_headers') :
               req_headers'[k] = req_headers[req.payload + req.payload_pos + k]
          /\ Len(req_headers') = 0 \/ req.payload_pos = Len(got)
          /\ got' = <<>> /\ req' = ZeroRequest /\ UNCHANGED <<sent, rx, peer>>
      BY <1>8, FinalizeFacts
    <2>2. Len(got') = 0 /\ req'.payload_pos = 0 /\ Len(req_headers') \in Nat
      BY <2>1, ZeroFacts, LenProperties
    <2>3. req.payload \in Nat
      BY <1>1 DEF TypeOK, RequestRecord
    <2>4. Base(cur)' = Base(cur + 1)
      BY <1>1, <2>1 DEF cur, Base, UnreadBefore
    <2>5. Held' = Held
      <3>1. Held' = Base(cur)' + Len(req_headers)' + Len(got)' - req'.payload_pos
        BY DEF Held
      <3>2. /\ Base(cur)' = Base(cur) + req.payload + Len(got)
            /\ Len(req_headers') = Len(req_headers) - (req.payload + req.payload_pos)
            /\ Len(got') = 0 /\ req'.payload_pos = 0
        BY <2>1, <2>2, <2>4
      <3>3. /\ Base(cur) \in Nat /\ Len(req_headers) \in Nat /\ Len(got) \in Nat
            /\ req.payload_pos \in Nat
            /\ Held = Base(cur) + Len(req_headers) + Len(got) - req.payload_pos
        BY <1>1, <1>2, <2>1
      <3> QED BY SMTT(60), <2>3, <3>1, <3>2, <3>3
    <2>6. ASSUME NEW k \in 1 .. Len(req_headers') PROVE req_headers'[k] = Stream[Base(cur)' + k]
      <3>1. /\ req.payload_pos = Len(got)
            /\ req.payload + req.payload_pos + k \in 1 .. Len(req_headers)
            /\ Base(cur) + (req.payload + req.payload_pos + k) = Base(cur)' + k
        <4>1. /\ Base(cur)' = Base(cur) + req.payload + Len(got)
              /\ Len(req_headers') = Len(req_headers) - (req.payload + req.payload_pos)
              /\ Len(req_headers') = 0 \/ req.payload_pos = Len(got)
          BY <2>1, <2>4
        <4>2. /\ Base(cur) \in Nat /\ Len(req_headers) \in Nat /\ Len(got) \in Nat
              /\ req.payload_pos \in Nat
          BY <1>1, <1>2, <2>1
        <4> QED BY SMTT(60), <2>2, <2>3, <2>6, <4>1, <4>2
      <3>2. req_headers[req.payload + req.payload_pos + k]
              = Stream[Base(cur) + (req.payload + req.payload_pos + k)]
        BY <1>1, <2>1, <3>1 DEF InputOK
      <3> QED BY <2>1, <3>1, <3>2
    <2> QED BY <1>1, <2>1, <2>2, <2>5, <2>6 DEF InputOK
  <1>9. CASE Close
    BY <1>9 DEF Close, InputOK, Alive
  <1> QED BY <1>3, <1>4, <1>5, <1>6, <1>7, <1>8, <1>9 DEF Moves
-----------------------------------------------------------------------------
(* Payload: what has been read of an accepted request is its own.          *)
LEMMA PayloadStep ==
  ASSUME IInv, [Next]_vars
  PROVE  PayloadOK'
  <1>1. /\ PayloadOK /\ ControlOK /\ req \in RequestRecord /\ BufSz \in Nat
        /\ got \in Seq(InUnit) /\ Len(got) \in Nat
    BY BufferAssumption, LenProperties DEF IInv, TypeOK
  <1>2. CASE ~ Moves
    <2>1. /\ req'.payload = req.payload /\ req'.payload_len = req.payload_len
          /\ req'.payload_pos = req.payload_pos
          /\ UNCHANGED <<req_headers, got, nbytes, served>> /\ (Alive' <=> Alive)
          /\ req'.state = "READ" => req.state = "READ"
          /\ req'.state = "SERVE" => req.state = "SERVE"
      BY <1>2, Kept DEF callvars
    <2>2. pc' = "payload" => pc = "payload"
      <3>1. CASE Event
        BY <1>1, <3>1 DEF Event, Enter, ControlOK
      <3>2. CASE ~ Event
        <4>1. CASE Recv
          BY <1>2, <4>1 DEF Moves, Recv, RecvFull, RecvBlock, RecvHangup, Prepare, Block, Drop
        <4>2. CASE Serve
          BY <1>2, <4>2 DEF Moves, Serve, ServeStatic, ServeApi, HandlerAnswer, Served, Payload,
             PayloadPartial, PayloadBlock, PayloadEof, PayloadError, Prepare, Block
        <4>3. CASE PrepareResp \/ EndConnection
          BY <4>3 DEF PrepareResp, PrepareOk, PrepareFail, EndConnection, Drop
        <4>4. CASE Send
          BY <4>4 DEF Send, Writev, WritevBlock, WritevError, Block
        <4>5. CASE SendResponseFile
          BY <4>5 DEF SendResponseFile, SendFileNone, SendFile, SendFileEmpty, SendFileShort,
             SendFileBlock, SendFileError, FileSent, Block, Drop
        <4>6. CASE Peer \/ UNCHANGED vars
          BY <4>6 DEF Peer, PeerSend, PeerShutdown, PeerReset, PeerReceive, vars
        <4> QED BY <1>2, <3>2, <4>1, <4>2, <4>3, <4>4, <4>5, <4>6 DEF Moves, Next, Worker
      <3> QED BY <3>1, <3>2
    <2>3. (Accepted' <=> Accepted) /\ (Spoiled(cur)' <=> Spoiled(cur)) /\ Wanted' = Wanted
          /\ Requests[cur]' = Requests[cur]
      BY <2>1 DEF Accepted, Spoiled, cur, UnreadBefore, Wanted
    <2> QED BY <1>1, <2>1, <2>2, <2>3 DEF PayloadOK
  <1>3. CASE RecvData \/ RecvLeftover
    <2>1. /\ UNCHANGED <<got, served>> /\ req'.payload_pos = 0 /\ got = <<>> /\ Alive
          /\ pc' # "payload"
          /\ \/ req'.payload = 0 /\ req'.payload_len = 0 /\ req'.state # "SERVE"
             \/ /\ ~ Spoiled(cur) /\ req'.payload = Requests[cur].hdr /\ req'.payload > 0
                /\ req'.payload + req'.payload_len = Len(req_headers')
                /\ req'.state # "READ" /\ served < N
      <3>1. req.state = "READ" /\ Alive
        BY <1>3, RecvRequest DEF Alive
      <3> QED BY <1>3, <3>1, RecvRequest, ReadingFacts DEF callvars, outvars
    <2>2. (Spoiled(cur)' <=> Spoiled(cur)) /\ Requests[cur]' = Requests[cur] /\ Len(got') = 0
      BY <2>1 DEF Spoiled, cur, UnreadBefore
    <2>3. served < N => Requests[cur].reads \in Nat
      <3>1. N \in Nat /\ served \in 0 .. N
        BY RequestFacts DEF IInv, TypeOK, N
      <3> QED BY <3>1, RequestFacts DEF cur
    <2>4. CASE req'.payload = 0
      BY <2>1, <2>4 DEF PayloadOK, Accepted
    <2>5. CASE req'.payload # 0
      BY <2>1, <2>2, <2>3, <2>5 DEF PayloadOK, Accepted
    <2> QED BY <2>4, <2>5
  <1>4. CASE HandlerRead
    <2>1. /\ Accepted /\ Alive /\ UNCHANGED <<served, req_headers>>
      BY <1>4 DEF HandlerRead, IInv, ControlOK, PayloadOK, Alive, outvars
    <2>2. PICK m \in Nat :
            /\ req'.state = req.state
            /\ req'.payload = req.payload /\ req'.payload_len = req.payload_len
            /\ req'.payload_pos = req.payload_pos + m /\ req.payload_pos + m <= req.payload_len
            /\ m > 0 => req.payload_pos = Len(got)
            /\ Len(got') = Len(got) + m /\ Len(got) + m <= Requests[cur].reads
            /\ \A k \in 1 .. Len(got) : got'[k] = got[k]
            /\ \A k \in Len(got) + 1 .. Len(got) + m :
                 got'[k] = req_headers[req.payload + req.payload_pos + (k - Len(got))]
            /\ \/ pc' = "handler"
               \/ /\ pc' = "payload" /\ nbytes' > 0
                  /\ nbytes' <= Requests[cur].reads - (Len(got) + m)
                  /\ req.payload_pos + m = req.payload_len
      BY <1>4, HandlerReadFacts
    <2>3. /\ ~ Spoiled(cur) /\ req.payload = Requests[cur].hdr
          /\ req.payload \in Nat /\ req.payload_len \in Nat /\ req.payload_pos \in Nat
          /\ req.payload_pos <= req.payload_len
          /\ req.payload + req.payload_len = Len(req_headers)
          /\ req.payload_pos < Len(got) => req.payload_pos = req.payload_len
          /\ \A k \in 1 .. req.payload_pos : got[k] = req_headers[req.payload + k]
          /\ req.payload_pos <= Len(got) /\ req.state # "READ"
      BY <2>1, ServingFacts
    <2>4. (Spoiled(cur)' <=> Spoiled(cur)) /\ Requests[cur]' = Requests[cur]
      BY <2>1 DEF Spoiled, cur, UnreadBefore
    <2>5. ASSUME NEW k \in 1 .. req'.payload_pos PROVE got'[k] = req_headers[req.payload + k]
      <3>1. CASE k <= req.payload_pos
        <4>1. k \in 1 .. req.payload_pos /\ k \in 1 .. Len(got)
          BY <1>1, <2>3, <3>1
        <4> QED BY <2>2, <2>3, <4>1
      <3>2. CASE k > req.payload_pos
        <4>1. m > 0 /\ req.payload_pos = Len(got) /\ k \in Len(got) + 1 .. Len(got) + m
          <5>1. req'.payload_pos = req.payload_pos + m /\ (m > 0 => req.payload_pos = Len(got))
            BY <2>2
          <5>2. req.payload_pos \in Nat
            BY <2>3
          <5> QED BY <1>1, <2>5, <3>2, <5>1, <5>2
        <4>2. req.payload + req.payload_pos + (k - Len(got)) = req.payload + k
          <5>1. req.payload \in Nat /\ req.payload_pos \in Nat
            BY <2>3
          <5> QED BY <1>1, <4>1, <5>1
        <4> QED BY <2>2, <4>1, <4>2
      <3>3. req.payload_pos \in Nat /\ k \in Nat
        BY <2>2, <2>3
      <3> QED BY <3>1, <3>2, <3>3
    <2>6. req'.payload_pos < Len(got') => req'.payload_pos = req'.payload_len
      <3>1. /\ req'.payload_pos = req.payload_pos + m /\ req'.payload_len = req.payload_len
            /\ (m > 0 => req.payload_pos = Len(got)) /\ Len(got') = Len(got) + m
        BY <2>2
      <3>2. /\ req.payload_pos < Len(got) => req.payload_pos = req.payload_len
            /\ req.payload_pos \in Nat
        BY <2>3
      <3> QED BY <1>1, <3>1, <3>2
    <2>7. pc' = "payload" => /\ nbytes' > 0 /\ nbytes' <= Wanted'
                             /\ req'.payload_pos = req'.payload_len
      BY <2>2, <2>4 DEF Wanted
    <2>8. Accepted'
      BY <2>1, <2>2 DEF Accepted
    <2> QED BY <2>1, <2>2, <2>3, <2>4, <2>5, <2>6, <2>7, <2>8 DEF PayloadOK
  <1>5. CASE PayloadData
    <2>1. PICK n \in Nat :
            /\ UNCHANGED <<req, req_headers, served>> /\ Accepted /\ Alive
            /\ Len(got') = Len(got) + n /\ Len(got) + n <= Requests[cur].reads
            /\ \A k \in 1 .. Len(got) : got'[k] = got[k]
            /\ req.payload_pos = req.payload_len
            /\ nbytes' <= Requests[cur].reads - (Len(got) + n)
            /\ pc' \in {"handler", "payload"} /\ (pc' = "payload" => nbytes' > 0)
      BY <1>5, PayloadDataFacts
    <2>2. /\ ~ Spoiled(cur) /\ req.payload = Requests[cur].hdr
          /\ req.payload_pos \in Nat
          /\ req.payload + req.payload_len = Len(req_headers)
          /\ \A k \in 1 .. req.payload_pos : got[k] = req_headers[req.payload + k]
          /\ req.payload_pos <= Len(got) /\ req.state # "READ"
      BY <2>1, ServingFacts
    <2>3. (Spoiled(cur)' <=> Spoiled(cur)) /\ Requests[cur]' = Requests[cur]
      BY <2>1 DEF Spoiled, cur, UnreadBefore
    <2>4. \A k \in 1 .. req.payload_pos : got'[k] = req_headers[req.payload + k]
      <3> SUFFICES ASSUME NEW k \in 1 .. req.payload_pos PROVE got'[k] = req_headers[req.payload + k]
        OBVIOUS
      <3>1. k \in 1 .. Len(got)
        BY <1>1, <2>2
      <3> QED BY <2>1, <2>2, <3>1
    <2>5. pc' = "payload" => nbytes' > 0 /\ nbytes' <= Wanted'
      BY <2>1, <2>3 DEF Wanted
    <2>6. Accepted'
      BY <2>1 DEF Accepted
    <2> QED BY <2>1, <2>2, <2>3, <2>4, <2>5, <2>6 DEF PayloadOK
  <1>6. CASE Finalize
    <2>1. req' = ZeroRequest /\ got' = <<>> /\ pc' = "recv"
      BY <1>6 DEF Finalize
    <2> QED BY <2>1, ZeroFacts DEF PayloadOK, Accepted
  <1>7. CASE Close
    <2>1. req' = ZeroRequest /\ pc' = "closed"
      BY <1>7 DEF Close
    <2> QED BY <2>1, ZeroFacts DEF PayloadOK, Accepted, Alive
  <1> QED BY <1>2, <1>3, <1>4, <1>5, <1>6, <1>7 DEF Moves

(* What the parser has seen is not parsed again.                           *)
LEMMA ParsedStep ==
  ASSUME IInv, [Next]_vars
  PROVE  ParsedOK'
  <1>1. CASE ~ Moves
    <2>1. /\ req'.iter = req.iter /\ req_headers' = req_headers /\ (Alive' <=> Alive)
          /\ req'.state = "READ" => req.state = "READ"
      BY <1>1, Kept
    <2>2. Complete(req_headers)' <=> Complete(req_headers)
      BY <2>1 DEF Complete, Junk, HeadLen
    <2> QED BY <2>1, <2>2 DEF IInv, ParsedOK
  <1>2. CASE RecvData \/ RecvLeftover
    BY <1>2, RecvRequest DEF ParsedOK
  <1>3. CASE HandlerRead \/ PayloadData
    <2>1. req'.state = "SERVE"
      <3>1. req.state = "SERVE" /\ req \in RequestRecord
        BY <1>3 DEF HandlerRead, PayloadData, IInv, ControlOK, TypeOK
      <3>2. CASE HandlerRead
        <4>1. \E m \in Nat : req'.state = req.state
          BY <3>2, HandlerReadFacts
        <4> QED BY <3>1, <4>1
      <3>3. CASE PayloadData
        BY <3>1, <3>3 DEF PayloadData
      <3> QED BY <1>3, <3>2, <3>3
    <2> QED BY <2>1 DEF ParsedOK
  <1>4. CASE Finalize \/ Close
    <2>1. req' = ZeroRequest
      BY <1>4 DEF Finalize, Close
    <2> QED BY <2>1, ZeroFacts DEF ParsedOK
  <1> QED BY <1>1, <1>2, <1>3, <1>4 DEF Moves
-----------------------------------------------------------------------------
(* Responses.  What serving a request sets.                                *)
LEMMA ServedFacts ==
  ASSUME IInv, ServeStatic \/ HandlerAnswer
  PROVE  LET q == Requests[cur]
         IN  /\ cur \in 1 .. N /\ resp' \in ResponseRecord /\ resp'.pos = 0
             /\ Answered' /\ ~ Spoiled(cur)
             /\ resp'.hdrs = q.reply.hdrs /\ resp'.keepHeaders = q.reply.keepHeaders
             /\ resp'.keepBody = q.reply.keepBody
             /\ resp'.fd \in {FdDisable, FdHead, cur}
             /\ resp'.fd = cur => resp'.end >= -1 /\ (q.route = "api" \/ q.method # "HEAD")
             /\ files' = IF resp'.fd = cur THEN files \union {cur} ELSE files
             /\ pc' = "prepare" /\ req'.state = "PREPARE_RESPONSE"
             /\ pc \in {"serve", "handler"} /\ req.state = "SERVE" /\ Alive
             /\ UNCHANGED <<netvars, edge, req_headers, callvars, served, due, wire>>
  <1> DEFINE q == Requests[cur]
             fd == CASE q.reply.file = NoFile -> FdDisable
                     [] /\ q.reply.file # NoFile
                        /\ q.method = "HEAD" /\ q.route = "static" -> FdHead
                     [] OTHER -> cur
             e == IF fd = FdDisable THEN 0 ELSE q.reply.file - 1
  <1>1. /\ pc \in {"serve", "handler"} /\ req.state = "SERVE" /\ Alive /\ Accepted
        /\ req \in RequestRecord /\ resp \in ResponseRecord /\ resp = ZeroResponse
    <2>1. pc \in {"serve", "handler"}
      BY DEF ServeStatic, HandlerAnswer
    <2> QED BY <2>1 DEF IInv, ControlOK, TypeOK, Alive, PayloadOK, ResponseOK
  <1>2. cur \in 1 .. N /\ ~ Spoiled(cur) /\ Len(got) <= q.reads /\ Len(got) \in Nat /\ served < N
    BY <1>1, ServingFacts
  <1>3. /\ q.reply.status \in Nat /\ q.reply.hdrs \in 0 .. MaxHeaders /\ q.reply.body \in Nat
        /\ q.reply.file \in Nat \union {NoFile} /\ q.reply.keepHeaders \in BOOLEAN
        /\ q.reply.keepBody \in BOOLEAN /\ q.route \in {"static", "api"} /\ q.reads \in Nat
        /\ q.route = "static" => q.reads = 0
    BY <1>2, RequestFacts, SMTT(60)
  <1>4. cur \in Nat /\ cur > 0 /\ N \in Nat
    BY <1>2, RequestFacts
  <1>5. /\ resp' = [resp EXCEPT !.status = q.reply.status, !.hdrs = q.reply.hdrs,
                     !.body = q.reply.body, !.fd = fd, !.end = e,
                     !.keepHeaders = q.reply.keepHeaders, !.keepBody = q.reply.keepBody]
        /\ files' = IF fd > 0 THEN files \union {fd} ELSE files
        /\ req' = [req EXCEPT !.state = "PREPARE_RESPONSE"] /\ pc' = "prepare"
        /\ UNCHANGED <<netvars, edge, req_headers, callvars, served, due, wire>>
    <2>1. Served(q.reply, q.method)
      BY DEF ServeStatic, HandlerAnswer
    <2>2. UNCHANGED <<netvars, edge, req_headers, callvars, served, due, wire>>
      BY DEF ServeStatic, HandlerAnswer
    <2> QED BY <2>1, <2>2 DEF Served, Prepare
  <1>6. Len(got) = q.reads
    BY <1>2, <1>3 DEF ServeStatic, HandlerAnswer, Wanted
  <1>7. /\ fd \in {FdDisable, FdHead, cur} /\ fd \in Int
        /\ fd = cur => q.reply.file \in Nat /\ (q.route = "api" \/ q.method # "HEAD")
        /\ fd > 0 <=> fd = cur
        /\ fd = cur => fd # FdDisable
    <2>1. FdDisable = 0 /\ FdHead = -1
      BY DEF FdDisable, FdHead
    <2>2. CASE q.reply.file = NoFile
      <3>1. fd = FdDisable
        BY <2>2
      <3> HIDE DEF fd, q
      <3> QED BY <1>4, <2>1, <3>1
    <2>3. CASE q.reply.file # NoFile /\ q.method = "HEAD" /\ q.route = "static"
      <3>1. fd = FdHead
        BY <2>3
      <3> HIDE DEF fd, q
      <3> QED BY <1>4, <2>1, <3>1
    <2>4. CASE q.reply.file # NoFile /\ ~ (q.method = "HEAD" /\ q.route = "static")
      <3>1. fd = cur
        BY <2>4
      <3> HIDE DEF fd, q
      <3> QED BY <1>3, <1>4, <2>1, <2>4, <3>1
    <2> QED BY <2>2, <2>3, <2>4
  <1> HIDE DEF fd
  <1>8. e \in Int /\ (fd = cur => e >= -1)
    <2>1. q.reply.file \in Int
      BY <1>3 DEF NoFile
    <2> HIDE DEF q
    <2> QED BY <1>7, <2>1
  <1> HIDE DEF e, q
  <1>9. /\ resp' \in ResponseRecord /\ resp'.status = q.reply.status /\ resp'.hdrs = q.reply.hdrs
        /\ resp'.fd = fd /\ resp'.end = e /\ resp'.keepHeaders = q.reply.keepHeaders
        /\ resp'.keepBody = q.reply.keepBody /\ resp'.pos = resp.pos
    <2> DEFINE s == q.reply.status
               h == q.reply.hdrs
               b == q.reply.body
               kh == q.reply.keepHeaders
               kb == q.reply.keepBody
    <2>1. /\ s \in Nat /\ h \in 0 .. MaxHeaders /\ b \in Nat /\ kh \in BOOLEAN /\ kb \in BOOLEAN
          /\ fd \in Int /\ e \in Int /\ resp \in ResponseRecord
      BY <1>1, <1>3, <1>7, <1>8
    <2>2. resp' = [resp EXCEPT !.status = s, !.hdrs = h, !.body = b, !.fd = fd, !.end = e,
                               !.keepHeaders = kh, !.keepBody = kb]
      BY <1>5, Zenon
    <2> HIDE DEF s, h, b, kh, kb
    <2> DEFINE u1 == [resp EXCEPT !.status = s, !.hdrs = h]
               u2 == [u1 EXCEPT !.body = b, !.fd = fd]
               u3 == [u2 EXCEPT !.end = e, !.keepHeaders = kh]
    <2>3. u1 \in ResponseRecord /\ u1.status = s /\ u1.hdrs = h /\ u1.pos = resp.pos
      BY <2>1 DEF ResponseRecord
    <2>4. resp' = [u3 EXCEPT !.keepBody = kb]
      BY <2>2, Zenon
    <2> HIDE DEF u1
    <2>5. /\ u2 \in ResponseRecord /\ u2.status = s /\ u2.hdrs = h /\ u2.fd = fd
          /\ u2.pos = resp.pos
      BY <2>1, <2>3 DEF ResponseRecord
    <2> HIDE DEF u2
    <2>6. /\ u3 \in ResponseRecord /\ u3.status = s /\ u3.hdrs = h /\ u3.fd = fd
          /\ u3.end = e /\ u3.keepHeaders = kh /\ u3.pos = resp.pos
      BY <2>1, <2>5 DEF ResponseRecord
    <2> HIDE DEF u3
    <2>7. /\ resp' \in ResponseRecord /\ resp'.status = s /\ resp'.hdrs = h
          /\ resp'.fd = fd /\ resp'.end = e /\ resp'.keepHeaders = kh
          /\ resp'.keepBody = kb /\ resp'.pos = resp.pos
      BY <2>1, <2>4, <2>6 DEF ResponseRecord
    <2> QED BY <2>7 DEF s, h, b, kh, kb
  <1>10. resp.pos = 0
    BY <1>1, ZeroFacts
  <1>11. req'.state = "PREPARE_RESPONSE" /\ req'.payload = req.payload
    BY <1>1, <1>5 DEF RequestRecord
  <1>12. Answered'
    BY <1>1, <1>5, <1>6, <1>9, <1>11 DEF Answered, Accepted, cur, q, callvars
  <1>13. files' = IF resp'.fd = cur THEN files \union {cur} ELSE files
    <2>1. files' = IF fd > 0 THEN files \union {fd} ELSE files
      BY <1>5
    <2>2. resp'.fd = fd
      BY <1>9
    <2>3. fd > 0 <=> fd = cur
      BY <1>7
    <2> QED BY <2>1, <2>2, <2>3
  <1>14. /\ resp'.fd \in {FdDisable, FdHead, cur} /\ resp'.pos = 0 /\ resp' \in ResponseRecord
         /\ resp'.fd = cur => resp'.end >= -1 /\ (q.route = "api" \/ q.method # "HEAD")
    BY <1>7, <1>8, <1>9, <1>10
  <1> QED BY <1>1, <1>2, <1>5, <1>9, <1>11, <1>12, <1>13, <1>14 DEF q

(* What preparing a response leaves of it.                                 *)
LEMMA PreparedFacts ==
  ASSUME IInv, PrepareOk
  PROVE  LET q == Requests[cur]
         IN  /\ cur \in 1 .. N /\ resp \in ResponseRecord /\ resp' \in ResponseRecord
             /\ resp'.pos = 0 /\ resp'.bufs[1].len = StartLen
             /\ resp'.status \in {resp.status, Insufficient}
             /\ resp'.fd > 0 => /\ resp'.fd = cur /\ resp.fd = cur /\ resp'.end >= -1
                                /\ files' = files
             /\ resp'.fd = cur => q.route = "api" \/ q.method # "HEAD"
             /\ ~ StatusIsError(resp'.status) =>
                  Answered /\ ~ Overruns(q) /\ resp'.status = resp.status
             /\ cur \in files' => resp'.fd = cur \/ Leaks(cur)
             /\ files' \subseteq files /\ req'.state = "SEND" /\ pc' = "send" /\ Alive
             /\ req.state = "PREPARE_RESPONSE" /\ resp.fd \in {FdDisable, FdHead, cur}
             /\ due' = due \o HeadUnits(resp'.bufs) \o FileUnits(resp')
             /\ UNCHANGED <<netvars, edge, req_headers, callvars, served, wire>>
  <1> DEFINE q == Requests[cur]
             r == PrepareResponse(resp, q.method)
  <1>1. /\ pc = "prepare" /\ r.rc = 0 /\ resp' = r.ta /\ files' = files \ r.closes
        /\ req' = [req EXCEPT !.state = "SEND"] /\ pc' = "send"
        /\ due' = due \o HeadUnits(resp'.bufs) \o FileUnits(resp')
        /\ UNCHANGED <<netvars, edge, req_headers, callvars, served, wire>>
    BY SMTT(60) DEF PrepareOk
  <1>2. /\ req.state = "PREPARE_RESPONSE" /\ Alive /\ served < N /\ req \in RequestRecord
        /\ resp \in ResponseRecord /\ served \in 0 .. N /\ N \in Nat
    BY <1>1, RequestFacts, SMTT(60) DEF IInv, ControlOK, Alive, TypeOK, N
  <1>3. /\ resp.pos = 0 /\ resp.fd \in {FdDisable, FdHead, cur}
        /\ resp.fd = cur => resp.end >= -1
        /\ resp.fd = cur => q.route = "api" \/ q.method # "HEAD"
        /\ \/ Refused
           \/ /\ Answered
              /\ resp.hdrs = q.reply.hdrs
              /\ resp.keepHeaders = q.reply.keepHeaders
              /\ resp.keepBody = q.reply.keepBody
    BY <1>1 DEF IInv, ResponseOK
  <1>4. cur \in 1 .. N /\ cur > 0 /\ cur \in Nat
    BY <1>2, SMTT(60) DEF cur
  <1> HIDE DEF r
  <1>5. LET tight == MaxHeaders - resp.hdrs = 2
        IN  /\ r.ta \in ResponseRecord
            /\ r.ta.status \in {resp.status, Insufficient}
            /\ r.ta.pos = 0 /\ r.ta.bufs[1].len = StartLen
            /\ r.ta.fd > 0 => /\ r.ta.fd = resp.fd /\ r.ta.end = resp.end /\ r.closes = {}
                              /\ resp.fd > 0
            /\ resp.fd > 0 => \/ r.ta.fd = resp.fd \/ resp.fd \in r.closes
                              \/ tight /\ ~ StatusIsError(resp.status)
            /\ ~ StatusIsError(r.ta.status) =>
                 /\ r.ta.status = resp.status /\ resp.status # HANGUP
                 /\ resp.hdrs + 3 > MaxHeaders =>
                      tight /\ ~ resp.keepHeaders /\ ~ resp.keepBody /\ MaxHeaders >= 4
    BY <1>1, <1>2, <1>3, PrepareFacts DEF r
  <1>6. FdDisable = 0 /\ FdHead = -1
    BY DEF FdDisable, FdHead
  <1>7. resp.fd > 0 <=> resp.fd = cur
    BY <1>3, <1>4, <1>6
  <1>8. Refused => resp.status \in {HANGUP, BadRequest, TooLarge} /\ resp.fd = FdDisable
    <2>1. Refused => resp = [ZeroResponse EXCEPT !.status = resp.status]
                     /\ resp.status \in {HANGUP, BadRequest, TooLarge}
      BY DEF Refused
    <2>2. [ZeroResponse EXCEPT !.status = resp.status].fd = ZeroResponse.fd
      BY ZeroFacts DEF ResponseRecord
    <2> QED BY <2>1, <2>2, ZeroFacts
  <1>9. StatusIsError(BadRequest) /\ StatusIsError(TooLarge)
    BY DEF StatusIsError, BadRequest, TooLarge
  <1>10. ASSUME ~ StatusIsError(resp'.status)
         PROVE  Answered /\ ~ Overruns(q) /\ resp'.status = resp.status
    <2>1. /\ resp'.status = resp.status /\ resp.status # HANGUP
          /\ resp.hdrs + 3 > MaxHeaders =>
               /\ MaxHeaders - resp.hdrs = 2 /\ ~ resp.keepHeaders /\ ~ resp.keepBody
               /\ MaxHeaders >= 4
      BY <1>1, <1>5, <1>10
    <2>2. ~ Refused
      BY <1>8, <1>9, <1>10, <2>1
    <2>3. /\ Answered /\ resp.hdrs = q.reply.hdrs
          /\ resp.keepHeaders = q.reply.keepHeaders /\ resp.keepBody = q.reply.keepBody
      BY <1>3, <2>2
    <2>4. resp.hdrs \in Nat /\ MaxHeaders \in Nat
      BY <1>2, HeaderAssumption DEF ResponseRecord
    <2>5. ~ Overruns(q)
      <3> HIDE DEF q
      <3> QED BY <2>1, <2>3, <2>4 DEF Overruns
    <2> QED BY <2>1, <2>3, <2>5
  <1>11. ASSUME cur \in files' PROVE resp'.fd = cur \/ Leaks(cur)
    <2>1. cur \in files /\ cur \notin r.closes
      BY <1>1, <1>11
    <2>2. resp.fd = cur \/ Leaks(cur)
      BY <1>1, <2>1 DEF IInv, FileOK
    <2>3. CASE resp.fd = cur /\ resp'.fd # cur
      <3>1. MaxHeaders - resp.hdrs = 2
        BY <1>1, <1>5, <1>7, <2>1, <2>3
      <3>2. ~ Refused
        BY <1>4, <1>6, <1>8, <2>3
      <3>3. resp.hdrs = q.reply.hdrs
        BY <1>3, <3>2
      <3> QED BY <3>1, <3>3 DEF Leaks, BlankMisfit
    <2> QED BY <2>2, <2>3
  <1>12. resp'.fd > 0 => /\ resp'.fd = cur /\ resp.fd = cur /\ resp'.end >= -1
                         /\ files' = files
    BY <1>1, <1>3, <1>5, <1>7
  <1>13. resp'.fd = cur => q.route = "api" \/ q.method # "HEAD"
    BY <1>3, <1>4, <1>12
  <1>14. req'.state = "SEND"
    BY <1>1, <1>2 DEF RequestRecord
  <1> QED BY <1>1, <1>2, <1>3, <1>4, <1>5, <1>10, <1>11, <1>12, <1>13, <1>14, SMTT(60)
(* A short write brings the buffers up to date and nothing else.           *)
LEMMA AdvanceFacts ==
  ASSUME NEW bufs \in [1 .. 3 -> [base : Nat, len : Nat]], NEW rc \in Nat
  PROVE  Advance(bufs, rc) \in [1 .. 3 -> [base : Nat, len : Nat]]
  <1> DEFINE stop == {i \in 1 .. 3 : bufs[i].len > rc}
             last == IF stop = {} THEN 4 ELSE CHOOSE i \in stop : \A j \in stop : i <= j
  <1>1. \A i \in 1 .. 3 : bufs[i] \in [base : Nat, len : Nat] /\ bufs[i].base \in Nat /\ bufs[i].len \in Nat
    OBVIOUS
  <1>2. last \in 1 .. 4 /\ (last # 4 => bufs[last].len > rc)
    <2>1. CASE stop = {}
      BY <2>1
    <2>2. CASE stop # {}
      <3>1. stop \subseteq Nat
        OBVIOUS
      <3> HIDE DEF stop
      <3>2. \E i \in stop : \A j \in stop : i <= j
        BY <2>2, <3>1, LeastNatural
      <3>3. last \in stop
        BY <2>2, <3>2
      <3> HIDE DEF last
      <3> QED BY <3>3 DEF stop
    <2> QED BY <2>1, <2>2
  <1>3. Advance(bufs, rc) =
          [i \in 1 .. 3 |->
             CASE i < last -> [base |-> bufs[i].base + rc, len |-> 0]
               [] i = last -> [base |-> bufs[i].base + rc, len |-> bufs[i].len - rc]
               [] i > last -> bufs[i]]
    BY DEF Advance
  <1> HIDE DEF last
  <1> SUFFICES ASSUME NEW i \in 1 .. 3
               PROVE  (CASE i < last -> [base |-> bufs[i].base + rc, len |-> 0]
                         [] i = last -> [base |-> bufs[i].base + rc, len |-> bufs[i].len - rc]
                         [] i > last -> bufs[i]) \in [base : Nat, len : Nat]
    BY <1>3
  <1>4. bufs[i].base + rc \in Nat /\ (i = last => bufs[i].len - rc \in Nat)
    BY <1>1, <1>2
  <1>5. CASE i < last
    BY <1>2, <1>4, <1>5
  <1>6. CASE i = last
    BY <1>2, <1>4, <1>6
  <1>7. CASE i > last
    BY <1>1, <1>2, <1>7
  <1> QED BY <1>2, <1>5, <1>6, <1>7

LEMMA WritevFacts ==
  ASSUME IInv, Writev
  PROVE  /\ resp' \in ResponseRecord /\ resp'.status = resp.status /\ resp'.fd = resp.fd
         /\ resp'.pos = resp.pos /\ resp'.end = resp.end /\ files' = files
         /\ pc' \in {"send", "sendfile"} /\ req.state = "SEND" /\ pc = "send"
         /\ req'.state \in {"SEND", "SEND_FILE"} /\ peer # "reset"
         /\ txq' \in 0 .. TxCap /\ UNCHANGED <<sent, rx, peer, nospace, edge, due>>
  <1>1. /\ req \in RequestRecord /\ resp \in ResponseRecord /\ txq \in 0 .. TxCap
        /\ TxCap \in Nat
    BY BufferAssumption DEF IInv, TypeOK
  <1>2. PICK rc \in Writable(resp.bufs) :
          /\ txq' = txq + rc
          /\ resp' = [resp EXCEPT !.bufs = Advance(resp.bufs, rc)]
          /\ \/ req' = [req EXCEPT !.state = "SEND_FILE"] /\ pc' = "sendfile"
             \/ req' = req /\ pc' = pc
    BY DEF Writev
  <1>3. rc \in 1 .. TxSpace /\ TxSpace = TxCap - txq
    BY DEF Writable, TxSpace
  <1>4. rc \in Nat /\ txq + rc \in 0 .. TxCap
    BY <1>1, <1>3
  <1>5. resp.bufs \in [1 .. 3 -> [base : Nat, len : Nat]]
    BY <1>1 DEF ResponseRecord
  <1> DEFINE bufs == Advance(resp.bufs, rc)
  <1>6. bufs \in [1 .. 3 -> [base : Nat, len : Nat]]
    BY <1>4, <1>5, AdvanceFacts
  <1> HIDE DEF bufs
  <1>7. /\ resp' \in ResponseRecord /\ resp'.status = resp.status /\ resp'.fd = resp.fd
        /\ resp'.pos = resp.pos /\ resp'.end = resp.end
    <2>1. resp' = [resp EXCEPT !.bufs = bufs]
      BY <1>2 DEF bufs
    <2> QED BY <1>1, <1>6, <2>1 DEF ResponseRecord
  <1>8. /\ pc = "send" /\ peer # "reset"
        /\ UNCHANGED <<sent, rx, peer, nospace, edge, files, due>>
    BY DEF Writev
  <1>9. req.state = "SEND"
    BY <1>8 DEF IInv, ControlOK
  <1>10. req'.state \in {"SEND", "SEND_FILE"} /\ pc' \in {"send", "sendfile"}
    BY <1>1, <1>2, <1>8, <1>9 DEF RequestRecord
  <1> QED BY <1>2, <1>4, <1>7, <1>8, <1>9, <1>10

(* The file is the request's, and closed once it has been sent.            *)
LEMMA FileSentFacts ==
  ASSUME IInv, NEW t \in ResponseRecord, t.fd = resp.fd, t.status = resp.status,
         SendsFile(resp), pc = "sendfile", FileSent(t)
  PROVE  /\ resp' \in ResponseRecord /\ resp'.fd = FdDisable /\ resp'.status = resp.status
         /\ files' = files \ {cur} /\ pc' = "done" /\ req'.state = "DONE"
  <1>1. /\ resp' = [t EXCEPT !.fd = FdDisable] /\ files' = files \ {t.fd}
        /\ req' = [req EXCEPT !.state = "DONE"] /\ pc' = "done"
    BY DEF FileSent
  <1>2. resp' \in ResponseRecord /\ resp'.fd = FdDisable /\ resp'.status = resp.status
    BY <1>1 DEF ResponseRecord, FdDisable
  <1>3. t.fd = cur
    BY DEF SendsFile, IInv, FileOwned
  <1>4. req'.state = "DONE"
    BY <1>1 DEF IInv, TypeOK, RequestRecord
  <1> QED BY <1>1, <1>2, <1>3, <1>4

LEMMA SendFileFacts ==
  ASSUME IInv, SendFile
  PROVE  /\ resp' \in ResponseRecord /\ resp'.status = resp.status
         /\ \/ /\ resp'.fd = resp.fd /\ resp'.end = resp.end /\ files' = files
               /\ resp'.pos <= resp'.end + 1 /\ req' = req /\ pc' = pc
            \/ /\ resp'.fd = FdDisable /\ files' = files \ {cur} /\ pc' = "done"
               /\ req'.state = "DONE"
         /\ pc = "sendfile" /\ req.state = "SEND_FILE" /\ peer # "reset"
         /\ txq' \in 0 .. TxCap /\ UNCHANGED <<sent, rx, peer, nospace, edge, due>>
  <1>1. /\ req \in RequestRecord /\ resp \in ResponseRecord /\ txq \in 0 .. TxCap
        /\ TxCap \in Nat
    BY BufferAssumption DEF IInv, TypeOK
  <1>2. PICK rc \in 1 .. Min2(TxSpace, Left) :
          LET t == [resp EXCEPT !.pos = @ + rc]
          IN  /\ txq' = txq + rc
              /\ IF t.pos > t.end THEN FileSent(t)
                                  ELSE resp' = t /\ UNCHANGED <<req, pc, files>>
    BY DEF SendFile
  <1>3. /\ pc = "sendfile" /\ SendsFile(resp) /\ peer # "reset"
        /\ UNCHANGED <<sent, rx, peer, nospace, edge, due>>
    BY DEF SendFile
  <1>4. req.state = "SEND_FILE"
    BY <1>3 DEF IInv, ControlOK
  <1> DEFINE t == [resp EXCEPT !.pos = @ + rc]
  <1>5. /\ txq' = txq + rc
        /\ IF t.pos > t.end THEN FileSent(t) ELSE resp' = t /\ UNCHANGED <<req, pc, files>>
    BY <1>2
  <1>6. resp.pos \in Nat /\ resp.end \in Int /\ TxSpace \in Nat /\ TxSpace = TxCap - txq
    BY <1>1 DEF ResponseRecord, TxSpace
  <1>7. rc \in Nat /\ rc <= TxSpace /\ txq + rc \in 0 .. TxCap
    <2>1. Left \in Int
      BY <1>6 DEF Left
    <2>2. Min2(TxSpace, Left) <= TxSpace /\ Min2(TxSpace, Left) \in Int
      BY <1>6, <2>1 DEF Min2
    <2>3. rc \in Nat /\ rc <= Min2(TxSpace, Left)
      BY <2>2
    <2> QED BY <1>1, <1>6, <2>2, <2>3
  <1>8. /\ t \in ResponseRecord /\ t.fd = resp.fd /\ t.status = resp.status /\ t.end = resp.end
        /\ t.pos \in Nat
    BY <1>1, <1>6, <1>7 DEF ResponseRecord
  <1> HIDE DEF t
  <1>9. CASE t.pos > t.end
    BY <1>3, <1>4, <1>5, <1>7, <1>8, <1>9, FileSentFacts
  <1>10. CASE ~ (t.pos > t.end)
    <2>1. resp' = t /\ UNCHANGED <<req, pc, files>> /\ t.pos <= t.end + 1
      BY <1>5, <1>6, <1>8, <1>10
    <2> QED BY <1>3, <1>4, <1>5, <1>7, <1>8, <2>1
  <1> QED BY <1>9, <1>10
(* The steps that change where the worker is and no more of the request.   *)
Quiet == \/ RecvBlock \/ ServeApi \/ PayloadPartial \/ PayloadBlock \/ PayloadEof
         \/ WritevBlock \/ WritevError \/ SendFileBlock \/ SendFileError
         \/ EndConnection \/ Event \/ Peer \/ UNCHANGED vars
LEMMA QuietFacts ==
  ASSUME IInv, Quiet
  PROVE  /\ UNCHANGED <<req, resp, req_headers, callvars, outvars>>
         /\ pc' = "prepare" <=> pc = "prepare"
         /\ pc' = "close" => pc = "close" \/ req.state \in {"SEND_FILE", "DONE"}
         /\ pc = "close" => pc' = "close"
         /\ pc' = "done" => pc = "done"
         /\ pc' = "idle" => pc \in {"idle", "recv", "payload", "send", "sendfile"}
         /\ pc' \in {"send", "sendfile"} => pc \in {"idle", "send", "sendfile"}
         /\ Alive' <=> Alive
  <1>1. /\ ControlOK
        /\ pc \in {"idle", "recv", "serve", "handler", "payload", "prepare", "send",
                   "sendfile", "done", "close", "closed"}
    BY DEF IInv, TypeOK
  <1> USE DEF outvars, callvars, netvars
  <1>2. CASE RecvBlock \/ ServeApi
    BY <1>1, <1>2 DEF RecvBlock, ServeApi, Block, Alive
  <1>3. CASE PayloadPartial \/ PayloadBlock \/ PayloadEof
    BY <1>1, <1>3 DEF PayloadPartial, PayloadBlock, PayloadEof, Block, Alive
  <1>4. CASE WritevBlock \/ WritevError
    BY <1>1, <1>4 DEF WritevBlock, WritevError, Block, Alive
  <1>5. CASE SendFileBlock \/ SendFileError \/ EndConnection
    BY <1>1, <1>5 DEF SendFileBlock, SendFileError, EndConnection, Block, Drop, Alive, ControlOK
  <1>6. CASE Event
    BY <1>1, <1>6 DEF Event, Enter, Alive, ControlOK
  <1>7. CASE Peer \/ UNCHANGED vars
    BY <1>1, <1>7 DEF Peer, PeerSend, PeerShutdown, PeerReset, PeerReceive, Alive, vars
  <1> QED BY <1>2, <1>3, <1>4, <1>5, <1>6, <1>7 DEF Quiet

(* A refusal is all that is set of a response that was not begun.          *)
LEMMA RefusedFacts ==
  ASSUME NEW s \in Nat
  PROVE  LET u == [ZeroResponse EXCEPT !.status = s]
         IN  /\ u \in ResponseRecord /\ u.status = s /\ u.fd = FdDisable /\ u.pos = 0
             /\ u = [ZeroResponse EXCEPT !.status = u.status]
  <1>1. ZeroResponse \in ResponseRecord
    BY ZeroFacts
  <1> DEFINE u == [ZeroResponse EXCEPT !.status = s]
  <1>2. u \in ResponseRecord /\ u.status = s /\ u.fd = ZeroResponse.fd /\ u.pos = ZeroResponse.pos
    BY <1>1 DEF ResponseRecord
  <1> QED BY <1>2, ZeroFacts

(* What a step that leaves the request and the response to it unanswered,  *)
(* or answered as it was, keeps.                                           *)
LEMMA AnsweredKept ==
  ASSUME UNCHANGED <<got, served, req_headers>>, req'.payload = req.payload,
         resp'.status = resp.status
  PROVE  /\ Answered' <=> Answered
         /\ cur' = cur /\ Requests[cur]' = Requests[cur]
         /\ Overruns(Requests[cur])' <=> Overruns(Requests[cur])
         /\ Leaks(cur)' <=> Leaks(cur)
         /\ Spoiled(cur)' <=> Spoiled(cur)
  BY DEF Answered, Accepted, cur, Leaks, BlankMisfit, Spoiled, UnreadBefore, Overruns

(* Responses: they come from the request's own endpoint or file, or are    *)
(* refusals, and what is left of them is what is still to be sent.         *)
LEMMA ResponseStep ==
  ASSUME IInv, [Next]_vars
  PROVE  ResponseOK'
  <1>1. /\ req \in RequestRecord /\ resp \in ResponseRecord /\ ControlOK /\ ResponseOK
        /\ N \in Nat /\ served \in 0 .. N
    BY RequestFacts DEF IInv, TypeOK, N
  <1> USE DEF outvars, callvars, netvars
  <1>2. CASE Quiet
    <2>1. /\ UNCHANGED <<req, resp, req_headers, callvars, outvars>>
          /\ pc' = "prepare" <=> pc = "prepare"
          /\ pc' = "close" => pc = "close" \/ req.state \in {"SEND_FILE", "DONE"}
          /\ pc = "close" => pc' = "close"
      BY <1>2, QuietFacts
    <2>2. /\ Answered' <=> Answered
          /\ cur' = cur /\ Requests[cur]' = Requests[cur]
          /\ Overruns(Requests[cur])' <=> Overruns(Requests[cur])
          /\ Spoiled(cur)' <=> Spoiled(cur)
      BY <2>1, AnsweredKept
    <2>3. Refused' <=> Refused
      BY <2>1, <2>2 DEF Refused
    <2> QED BY <1>1, <2>1, <2>2, <2>3 DEF ResponseOK
  <1>3. CASE RecvData \/ RecvLeftover
    <2>1. /\ req.state = "READ" /\ pc = "recv" /\ resp = ZeroResponse
      BY <1>1, <1>3, RecvRequest DEF ResponseOK
    <2>2. \/ pc' = "recv" /\ resp' = resp /\ req'.state = "READ"
          \/ pc' = "serve" /\ resp' = resp /\ req'.state = "SERVE"
          \/ /\ pc' = "prepare" /\ resp' = [resp EXCEPT !.status = BadRequest]
             /\ req'.state = "PREPARE_RESPONSE" /\ Spoiled(cur)
             /\ req_headers' # <<>> /\ served' = served /\ served < N
      BY <1>3, RecvRequest
    <2>3. CASE pc' = "prepare"
      <3>1. resp' = [ZeroResponse EXCEPT !.status = BadRequest] /\ BadRequest \in Nat
            /\ Spoiled(cur)' /\ req_headers' # <<>> /\ req'.state = "PREPARE_RESPONSE"
            /\ cur' = cur /\ cur \in 1 .. N
        BY <1>1, <2>1, <2>2, <2>3 DEF BadRequest, Spoiled, UnreadBefore, cur
      <3>2. /\ resp' = [ZeroResponse EXCEPT !.status = resp'.status]
            /\ resp'.fd = FdDisable /\ resp'.pos = 0 /\ resp'.status = BadRequest
        BY <3>1, RefusedFacts
      <3>3. Refused'
        BY <3>1, <3>2 DEF Refused
      <3>4. resp'.fd # cur'
        BY <1>1, <3>1, <3>2 DEF FdDisable
      <3> QED BY <2>3, <3>1, <3>2, <3>3, <3>4 DEF ResponseOK
    <2>4. CASE pc' # "prepare"
      BY <2>1, <2>2, <2>4 DEF ResponseOK
    <2> QED BY <2>3, <2>4
  <1>4. CASE RecvFull
    <2>1. /\ pc = "recv" /\ Space = 0 /\ PastEnd /\ pc' = "prepare"
          /\ resp' = [resp EXCEPT !.status = TooLarge]
          /\ req' = [req EXCEPT !.state = "PREPARE_RESPONSE"]
          /\ UNCHANGED <<req_headers, got, served>>
      BY <1>4 DEF RecvFull, Prepare
    <2>2. req.state = "READ" /\ Alive /\ resp = ZeroResponse
      BY <1>1, <2>1 DEF ControlOK, Alive, ResponseOK
    <2>3. Len(req_headers) = BufSz /\ BufSz \in Nat \ {0} /\ req_headers \in Seq(InUnit)
      <3>1. BufSz - Len(req_headers) = 0 /\ Len(req_headers) \in Nat
        BY <2>1, LenProperties DEF Space, IInv, TypeOK
      <3> QED BY <3>1, BufferAssumption DEF IInv, TypeOK
    <2>4. ~ Complete(req_headers)
      BY <2>1, <2>2 DEF PastEnd, IInv, ParsedOK
    <2>5. req_headers # <<>> /\ served < N /\ req_headers[1] = Stream[Base(cur) + 1]
      BY <2>2, <2>3, ReadingFacts
    <2>6. cur \in 1 .. N
      BY <1>1, <2>5 DEF cur
    <2>7. Spoiled(cur) \/ Requests[cur].hdr > BufSz
      <3>1. /\ Junk(req_headers) <=> Spoiled(cur)
            /\ ~ Junk(req_headers) => HeadLen(req_headers) = Requests[cur].hdr
        BY <2>3, <2>5, <2>6, HeadFacts
      <3>2. Requests[cur].hdr \in Nat
        BY <2>6, RequestFacts
      <3> QED BY <2>3, <2>4, <2>5, <3>1, <3>2 DEF Complete
    <2>8. req'.state = "PREPARE_RESPONSE"
      BY <1>1, <2>1 DEF RequestRecord
    <2>9. /\ resp' = [ZeroResponse EXCEPT !.status = resp'.status]
          /\ resp'.fd = FdDisable /\ resp'.pos = 0 /\ resp'.status = TooLarge
      <3>1. TooLarge \in Nat /\ resp' = [ZeroResponse EXCEPT !.status = TooLarge]
        BY <2>1, <2>2 DEF TooLarge
      <3> QED BY <3>1, RefusedFacts
    <2>10. /\ cur' = cur /\ resp'.fd # cur /\ (Spoiled(cur)' <=> Spoiled(cur))
           /\ Requests[cur]' = Requests[cur]
      BY <2>1, <2>6, <2>9 DEF cur, FdDisable, Spoiled, UnreadBefore
    <2>11. Refused'
      BY <2>1, <2>3, <2>7, <2>9, <2>10 DEF Refused
    <2> QED BY <2>1, <2>8, <2>9, <2>10, <2>11 DEF ResponseOK
  <1>5. CASE RecvHangup
    <2>1. /\ pc = "recv" /\ pc' = "close" /\ req' = req
          /\ resp' = [resp EXCEPT !.status = HANGUP]
      BY <1>5 DEF RecvHangup, Drop
    <2>2. req.state = "READ" /\ resp = ZeroResponse
      BY <1>1, <2>1 DEF ControlOK, ResponseOK
    <2> QED BY <2>1, <2>2 DEF ResponseOK
  <1>6. CASE ServeStatic \/ HandlerAnswer
    <2> DEFINE q == Requests[cur]
    <2>1. /\ cur \in 1 .. N /\ resp'.pos = 0 /\ Answered'
          /\ resp'.hdrs = q.reply.hdrs /\ resp'.keepHeaders = q.reply.keepHeaders
          /\ resp'.keepBody = q.reply.keepBody
          /\ resp'.fd \in {FdDisable, FdHead, cur}
          /\ resp'.fd = cur => resp'.end >= -1 /\ (q.route = "api" \/ q.method # "HEAD")
          /\ pc' = "prepare" /\ req'.state = "PREPARE_RESPONSE" /\ served' = served
      BY <1>6, ServedFacts
    <2>2. cur' = cur /\ Requests[cur]' = q
      BY <2>1 DEF cur
    <2> HIDE DEF q
    <2> QED BY <2>1, <2>2 DEF ResponseOK
  <1>7. CASE HandlerRead \/ PayloadData
    <2>1. resp' = resp /\ pc \in {"handler", "payload"} /\ pc' \in {"handler", "payload"}
      BY <1>7 DEF HandlerRead, PayloadData
    <2>2. req.state = "SERVE" /\ resp = ZeroResponse
      BY <1>1, <2>1 DEF ControlOK, ResponseOK
    <2>3. req'.state = "SERVE"
      BY <2>1, ControlStep DEF ControlOK
    <2> QED BY <2>1, <2>2, <2>3 DEF ResponseOK
  <1>8. CASE PayloadError
    <2>1. /\ resp' = [resp EXCEPT !.status = HANGUP] /\ pc = "payload" /\ pc' = "prepare"
          /\ req' = [req EXCEPT !.state = "PREPARE_RESPONSE"] /\ served' = served
      BY <1>8 DEF PayloadError, Prepare
    <2>2. req.state = "SERVE" /\ resp = ZeroResponse
      BY <1>1, <2>1 DEF ControlOK, ResponseOK
    <2>3. served < N
      BY <1>1, <2>2 DEF ControlOK, N
    <2>4. /\ resp' = [ZeroResponse EXCEPT !.status = resp'.status]
          /\ resp'.fd = FdDisable /\ resp'.pos = 0 /\ resp'.status = HANGUP
      <3>1. HANGUP \in Nat /\ resp' = [ZeroResponse EXCEPT !.status = HANGUP]
        BY <2>1, <2>2 DEF HANGUP
      <3> QED BY <3>1, RefusedFacts
    <2>5. resp'.fd # cur'
      BY <1>1, <2>1, <2>3, <2>4 DEF cur, FdDisable
    <2>6. req'.state = "PREPARE_RESPONSE"
      BY <1>1, <2>1 DEF RequestRecord
    <2>7. Refused'
      BY <2>4 DEF Refused
    <2> QED BY <2>1, <2>4, <2>5, <2>6, <2>7 DEF ResponseOK
  <1>9. CASE PrepareOk
    <2> DEFINE q == Requests[cur]
    <2>1. /\ cur \in 1 .. N /\ resp'.pos = 0
          /\ resp'.fd > 0 => resp'.fd = cur /\ resp'.end >= -1
          /\ resp'.fd = cur => q.route = "api" \/ q.method # "HEAD"
          /\ ~ StatusIsError(resp'.status) =>
               Answered /\ ~ Overruns(q) /\ resp'.status = resp.status
          /\ req'.state = "SEND" /\ pc' = "send" /\ resp' \in ResponseRecord
          /\ UNCHANGED <<req_headers, callvars, served>>
      BY <1>9, PreparedFacts
    <2>2. cur' = cur /\ Requests[cur]' = q /\ (Overruns(q)' <=> Overruns(q))
      BY <2>1, SMTT(60) DEF cur, Overruns
    <2>3. req'.payload = req.payload
      BY <1>1, <1>9 DEF PrepareOk, RequestRecord
    <2>4. ~ StatusIsError(resp'.status) => Answered'
      BY <2>1, <2>3, AnsweredKept
    <2>5. resp'.fd = cur => resp'.pos <= resp'.end + 1
      <3>1. cur > 0 /\ resp'.end \in Int
        BY <2>1 DEF ResponseRecord
      <3> QED BY <2>1, <3>1
    <2> HIDE DEF q
    <2> QED BY <2>1, <2>2, <2>4, <2>5 DEF ResponseOK
  <1>10. CASE PrepareFail
    <2>1. pc' = "close" /\ req' = req /\ pc = "prepare"
      BY <1>10 DEF PrepareFail, Drop
    <2>2. req.state = "PREPARE_RESPONSE"
      BY <1>1, <2>1 DEF ControlOK
    <2> QED BY <2>1, <2>2 DEF ResponseOK
  <1>11. CASE Writev \/ SendFile \/ SendFileNone \/ SendFileEmpty \/ SendFileShort
    <2>1. /\ resp'.status = resp.status /\ req'.state \in {"SEND", "SEND_FILE", "DONE"}
          /\ pc' \notin {"prepare", "close"} /\ req.state \in {"SEND", "SEND_FILE"}
          /\ \/ /\ resp'.fd = resp.fd
                /\ \/ resp'.pos = resp.pos /\ resp'.end = resp.end
                   \/ resp'.pos <= resp'.end + 1
             \/ resp'.fd = FdDisable
      <3>1. CASE Writev
        BY <3>1, WritevFacts
      <3>2. CASE SendFile
        BY <3>2, SendFileFacts
      <3>3. CASE SendFileNone \/ SendFileShort
        <4>1. /\ resp' = resp /\ pc = "sendfile" /\ pc' = "done"
              /\ req' = [req EXCEPT !.state = "DONE"]
          BY <3>3 DEF SendFileNone, SendFileShort
        <4> QED BY <1>1, <4>1 DEF ControlOK, RequestRecord
      <3>4. CASE SendFileEmpty
        <4>1. FileSent(resp) /\ SendsFile(resp) /\ pc = "sendfile"
          BY <3>4 DEF SendFileEmpty
        <4>2. /\ resp'.fd = FdDisable /\ resp'.status = resp.status /\ pc' = "done"
              /\ req'.state = "DONE"
          BY <1>1, <4>1, FileSentFacts, SMTT(60)
        <4> QED BY <1>1, <4>1, <4>2 DEF ControlOK
      <3> QED BY <1>11, <3>1, <3>2, <3>3, <3>4
    <2>2. UNCHANGED <<got, served, req_headers>> /\ req'.payload = req.payload
      BY <1>11, Kept DEF Moves, Next, Worker, Send, SendResponseFile, Writev, SendFile,
         SendFileNone, SendFileEmpty, SendFileShort, HandlerRead, PayloadData, RecvData,
         RecvLeftover, Finalize, Close
    <2>3. /\ Answered' <=> Answered
          /\ cur' = cur /\ Requests[cur]' = Requests[cur]
          /\ Overruns(Requests[cur])' <=> Overruns(Requests[cur])
      BY <2>1, <2>2, AnsweredKept
    <2>4. /\ ~ StatusIsError(resp.status) => Answered /\ ~ Overruns(Requests[cur])
          /\ resp.fd = cur => Requests[cur].route = "api" \/ Requests[cur].method # "HEAD"
          /\ resp.fd = cur => resp.pos <= resp.end + 1
      BY <1>1, <2>1 DEF ResponseOK
    <2>5. resp'.fd = cur => resp.fd = cur
      <3>1. cur # FdDisable
        BY <1>1 DEF cur, FdDisable
      <3> QED BY <2>1, <3>1
    <2>6. resp'.fd = cur => resp'.pos <= resp'.end + 1
      <3>1. cur # FdDisable
        BY <1>1 DEF cur, FdDisable
      <3> QED BY <2>1, <2>4, <3>1
    <2> QED BY <2>1, <2>3, <2>4, <2>5, <2>6 DEF ResponseOK
  <1>12. CASE Finalize \/ Close
    <2>1. req' = ZeroRequest /\ resp' = ZeroResponse /\ pc' \notin {"prepare", "close"}
      BY <1>12 DEF Finalize, Close
    <2> QED BY <2>1, ZeroFacts DEF ResponseOK
  <1> QED BY <1>2, <1>3, <1>4, <1>5, <1>6, <1>7, <1>8, <1>9, <1>10, <1>11, <1>12
          DEF Quiet, Next, Worker, Recv, Serve, Payload, PrepareResp, Send, SendResponseFile

-----------------------------------------------------------------------------
(* Files: the one in resp_fd is this request's and open, and only those    *)
(* stay open that a request has leaked.                                    *)
LEMMA FileStep ==
  ASSUME IInv, [Next]_vars
  PROVE  FileOK' /\ FileOwned'
  <1>1. /\ req \in RequestRecord /\ resp \in ResponseRecord /\ ControlOK /\ ResponseOK
        /\ FileOK /\ FileOwned /\ files \subseteq 1 .. N /\ N \in Nat /\ served \in 0 .. N
    BY RequestFacts DEF IInv, TypeOK, N
  <1>2. /\ cur \in Nat /\ cur > 0 /\ files \subseteq Nat
        /\ \A i : Leaks(i)' <=> Leaks(i)
    BY <1>1 DEF cur, Leaks, BlankMisfit
  <1> USE DEF outvars, callvars, netvars
  <1>3. CASE Quiet
    <2>1. /\ UNCHANGED <<req, resp, served, files>>
          /\ pc' = "prepare" <=> pc = "prepare"
          /\ pc = "close" => pc' = "close"
          /\ pc' = "done" => pc = "done"
          /\ pc' = "idle" => pc \in {"idle", "recv", "payload", "send", "sendfile"}
          /\ pc' \in {"send", "sendfile"} => pc \in {"idle", "send", "sendfile"}
          /\ Alive' <=> Alive
      BY <1>3, QuietFacts
    <2>2. cur' = cur
      BY <2>1 DEF cur
    <2>3. pc \in {"recv", "payload"} => cur \notin files
      BY <1>1 DEF ControlOK, FileOK, Alive
    <2> QED BY <1>1, <1>2, <2>1, <2>2, <2>3 DEF FileOK, FileOwned
  <1>4. CASE RecvData \/ RecvLeftover \/ RecvFull \/ PayloadError \/ HandlerRead \/ PayloadData
    <2>1. /\ pc \in {"recv", "handler", "payload"}
          /\ pc' \in {"recv", "prepare", "serve", "handler", "payload"}
          /\ UNCHANGED <<files, served>>
          /\ resp' = resp \/ \E s \in Nat : resp' = [resp EXCEPT !.status = s]
      <3>1. CASE RecvData \/ RecvLeftover
        <4>1. /\ pc = "recv" /\ pc' \in {"recv", "prepare", "serve"} /\ UNCHANGED <<files, served>>
              /\ resp' = resp \/ resp' = [resp EXCEPT !.status = BadRequest]
          BY <3>1, RecvRequest
        <4>2. BadRequest \in Nat
          BY DEF BadRequest
        <4> QED BY <4>1, <4>2
      <3>2. CASE RecvFull \/ PayloadError
        BY <3>2 DEF RecvFull, PayloadError, Prepare, TooLarge, HANGUP
      <3>3. CASE HandlerRead \/ PayloadData
        BY <3>3 DEF HandlerRead, PayloadData
      <3> QED BY <1>4, <3>1, <3>2, <3>3
    <2>2. req.state \in {"READ", "SERVE"} /\ Alive /\ cur \notin files /\ resp = ZeroResponse
      BY <1>1, <2>1 DEF ControlOK, Alive, FileOK, ResponseOK
    <2>3. resp'.fd = FdDisable
      BY <2>1, <2>2, ZeroFacts, RefusedFacts
    <2>4. cur' = cur
      BY <2>1 DEF cur
    <2> QED BY <1>1, <1>2, <2>1, <2>2, <2>3, <2>4 DEF FileOK, FileOwned, FdDisable
  <1>5. CASE RecvHangup
    <2>1. /\ pc = "recv" /\ pc' = "close" /\ UNCHANGED <<req, files, served>>
      BY <1>5 DEF RecvHangup, Drop
    <2>2. cur \notin files /\ cur' = cur
      BY <1>1, <2>1 DEF ControlOK, Alive, FileOK, cur
    <2> QED BY <1>1, <1>2, <2>1, <2>2 DEF FileOK, FileOwned
  <1>6. CASE ServeStatic \/ HandlerAnswer
    <2>1. /\ resp'.fd \in {FdDisable, FdHead, cur} /\ served' = served
          /\ files' = IF resp'.fd = cur THEN files \union {cur} ELSE files
          /\ pc' = "prepare" /\ req'.state = "PREPARE_RESPONSE"
          /\ req.state = "SERVE" /\ Alive
      BY <1>6, ServedFacts
    <2>2. cur' = cur /\ cur \notin files
      BY <1>1, <2>1 DEF cur, FileOK
    <2>3. resp'.fd > 0 => resp'.fd = cur
      BY <1>2, <2>1 DEF FdDisable, FdHead
    <2>4. \A i \in files' : i <= cur /\ (i < cur => Leaks(i))
      BY <1>1, <1>2, <2>1 DEF FileOK
    <2> QED BY <1>1, <1>2, <2>1, <2>2, <2>3, <2>4 DEF FileOK, FileOwned
  <1>7. CASE PrepareOk
    <2>1. /\ resp'.fd > 0 => resp'.fd = cur /\ resp.fd = cur /\ files' = files
          /\ cur \in files' => resp'.fd = cur \/ Leaks(cur)
          /\ files' \subseteq files /\ req'.state = "SEND" /\ pc' = "send" /\ served' = served
      BY <1>7, PreparedFacts
    <2>2. cur' = cur
      BY <2>1, SMTT(60) DEF cur
    <2>3. resp'.fd > 0 => cur \in files'
      BY <1>1, <1>2, <1>7, <2>1 DEF FileOwned, PrepareOk
    <2> QED BY <1>1, <1>2, <2>1, <2>2, <2>3 DEF FileOK, FileOwned
  <1>8. CASE PrepareFail
    <2>1. /\ pc = "prepare" /\ pc' = "close" /\ UNCHANGED <<req, served>> /\ files' \subseteq files
      BY <1>8 DEF PrepareFail, Drop
    <2>2. cur' = cur /\ req.state = "PREPARE_RESPONSE"
      BY <1>1, <2>1 DEF ControlOK, cur
    <2> QED BY <1>1, <1>2, <2>1, <2>2 DEF FileOK, FileOwned
  <1>9. CASE Writev
    <2>1. /\ resp'.fd = resp.fd /\ files' = files /\ pc' \in {"send", "sendfile"}
          /\ pc = "send" /\ req'.state \in {"SEND", "SEND_FILE"}
      BY <1>9, WritevFacts
    <2>2. cur' = cur
      BY <1>9 DEF Writev, cur
    <2> QED BY <1>1, <1>2, <2>1, <2>2 DEF FileOK, FileOwned
  <1>10. CASE SendFile \/ SendFileEmpty
    <2>1. /\ pc = "sendfile" /\ req.state = "SEND_FILE" /\ cur' = cur
          /\ \/ resp'.fd = resp.fd /\ files' = files /\ req' = req /\ pc' = pc
             \/ /\ resp'.fd = FdDisable /\ files' = files \ {cur} /\ pc' = "done"
                /\ req'.state = "DONE"
      <3>1. CASE SendFile
        <4>1. cur' = cur
          BY <3>1 DEF SendFile, cur
        <4> QED BY <3>1, <4>1, SendFileFacts
      <3>2. CASE SendFileEmpty
        <4>1. FileSent(resp) /\ SendsFile(resp) /\ pc = "sendfile" /\ cur' = cur
          BY <3>2 DEF SendFileEmpty, cur
        <4>2. resp'.fd = FdDisable /\ files' = files \ {cur} /\ pc' = "done" /\ req'.state = "DONE"
          BY <1>1, <4>1, FileSentFacts
        <4> QED BY <1>1, <4>1, <4>2 DEF ControlOK
      <3> QED BY <1>10, <3>1, <3>2
    <2>2. CASE resp'.fd = resp.fd /\ files' = files /\ req' = req /\ pc' = pc
      BY <1>1, <1>2, <2>1, <2>2 DEF FileOK, FileOwned, Alive
    <2>3. CASE resp'.fd = FdDisable /\ files' = files \ {cur} /\ pc' = "done" /\ req'.state = "DONE"
      BY <1>1, <1>2, <2>1, <2>3 DEF FileOK, FileOwned, FdDisable
    <2> QED BY <2>1, <2>2, <2>3
  <1>11. CASE SendFileNone
    <2>1. /\ pc = "sendfile" /\ ~ SendsFile(resp) /\ pc' = "done" /\ UNCHANGED <<resp, files, served>>
          /\ req' = [req EXCEPT !.state = "DONE"]
      BY <1>11 DEF SendFileNone
    <2>2. cur' = cur /\ req'.state = "DONE" /\ req.state = "SEND_FILE"
      BY <1>1, <2>1 DEF RequestRecord, cur, ControlOK
    <2>3. ASSUME cur \in files PROVE Leaks(cur)
      <3>1. resp.fd = cur \/ Leaks(cur)
        BY <1>1, <2>1, <2>3 DEF FileOK
      <3>2. resp.fd = cur => Requests[cur].method = "HEAD" /\ Requests[cur].route = "api"
        BY <1>1, <1>2, <2>1, <2>2 DEF SendsFile, ResponseOK
      <3> QED BY <3>1, <3>2 DEF Leaks
    <2> QED BY <1>1, <1>2, <2>1, <2>2, <2>3 DEF FileOK, FileOwned
  <1>12. CASE SendFileShort
    <2>1. /\ pc = "sendfile" /\ pc' = "done" /\ UNCHANGED <<resp, files, served>>
          /\ Requests[cur].reply.shrinks /\ req' = [req EXCEPT !.state = "DONE"]
      BY <1>12 DEF SendFileShort
    <2>2. cur' = cur /\ req'.state = "DONE"
      BY <1>1, <2>1 DEF RequestRecord, cur
    <2>3. Leaks(cur)
      BY <2>1 DEF Leaks
    <2> QED BY <1>1, <1>2, <2>1, <2>2, <2>3 DEF FileOK, FileOwned
  <1>13. CASE Finalize
    <2>1. /\ pc = "done" /\ pc' = "recv" /\ served' = served + 1 /\ files' = files
          /\ resp' = ZeroResponse
      BY <1>13 DEF Finalize
    <2>2. cur' = cur + 1
      BY <1>1, <2>1 DEF cur
    <2>3. \A i \in files : i <= cur /\ Leaks(i)
      BY <1>1, <1>2, <2>1 DEF FileOK
    <2>4. \A i \in files : i <= cur' /\ i # cur'
      BY <1>2, <2>2, <2>3
    <2>5. FileOwned'
      BY <2>1, ZeroFacts DEF FileOwned, FdDisable
    <2>6. FileOK'
      BY <1>2, <2>1, <2>3, <2>4 DEF FileOK
    <2> QED BY <2>5, <2>6
  <1>14. CASE Close
    <2>1. pc' = "closed" /\ resp' = ZeroResponse /\ UNCHANGED <<files, served>>
      BY <1>14 DEF Close
    <2>2. cur' = cur
      BY <2>1 DEF cur
    <2> QED BY <1>1, <1>2, <2>1, <2>2, ZeroFacts DEF FileOK, FileOwned, FdDisable, Alive
  <1> QED BY <1>3, <1>4, <1>5, <1>6, <1>7, <1>8, <1>9, <1>10, <1>11, <1>12, <1>13, <1>14
          DEF Quiet, Next, Worker, Recv, Serve, Payload, PrepareResp, Send, SendResponseFile

-----------------------------------------------------------------------------
(* Wakeups: the worker waits only for what the queue will report.          *)
LEMMA WakeupStep ==
  ASSUME IInv, [Next]_vars
  PROVE  NoLostWakeup'
  <1>1. /\ req \in RequestRecord /\ ControlOK /\ NoLostWakeup /\ {nospace, edge} \subseteq BOOLEAN
    BY DEF IInv, TypeOK
  <1> USE DEF outvars, callvars, netvars
  <1>2. CASE pc' # "idle"
    BY <1>2 DEF NoLostWakeup
  <1>3. CASE RecvBlock
    <2>1. /\ pc = "recv" /\ peer = "up" /\ rx = <<>> /\ PastEnd
          /\ UNCHANGED <<rx, peer, req_headers, req>>
      BY <1>3 DEF RecvBlock
    <2>2. req.state = "READ" /\ ~ Complete(req_headers)
      BY <1>1, <2>1 DEF ControlOK, IInv, ParsedOK, PastEnd, Alive
    <2>3. ~ Complete(req_headers)'
      BY <2>1, <2>2 DEF Complete, Junk, HeadLen
    <2> QED BY <2>1, <2>2, <2>3 DEF NoLostWakeup
  <1>4. CASE PayloadBlock \/ PayloadEof
    <2>1. pc = "payload" /\ rx = <<>> /\ UNCHANGED <<rx, req>>
      BY <1>4 DEF PayloadBlock, PayloadEof
    <2> QED BY <1>1, <2>1 DEF ControlOK, NoLostWakeup
  <1>5. CASE WritevBlock \/ SendFileBlock
    <2>1. pc \in {"send", "sendfile"} /\ nospace' = TRUE /\ req' = req
      BY <1>5 DEF WritevBlock, SendFileBlock
    <2> QED BY <1>1, <2>1 DEF ControlOK, NoLostWakeup
  <1>6. CASE WritevError
    <2>1. peer' = "reset"
      BY <1>6 DEF WritevError
    <2> QED BY <2>1 DEF NoLostWakeup
  <1>7. CASE PeerSend \/ PeerShutdown \/ PeerReset
    <2>1. edge' = TRUE
      BY <1>7 DEF PeerSend, PeerShutdown, PeerReset
    <2> QED BY <2>1 DEF NoLostWakeup
  <1>8. CASE PeerReceive \/ UNCHANGED vars
    <2>1. /\ UNCHANGED <<pc, req, req_headers, rx, peer>>
          /\ \/ edge' = edge /\ nospace' = nospace
             \/ edge' = (edge \/ nospace)
      BY <1>8 DEF PeerReceive, vars
    <2>2. Complete(req_headers)' <=> Complete(req_headers)
      BY <2>1, SMTT(60) DEF Complete, Junk, HeadLen
    <2> QED BY <1>1, <2>1, <2>2 DEF NoLostWakeup
  <1>9. CASE Event \/ Finalize \/ Close \/ EndConnection \/ PrepareResp
    BY <1>1, <1>2, <1>9 DEF Event, Enter, Finalize, Close, EndConnection, PrepareResp, PrepareOk,
       PrepareFail, Drop, ControlOK
  <1>10. CASE RecvData \/ RecvLeftover \/ RecvFull \/ RecvHangup
    <2>1. pc' # "idle"
      <3>1. CASE RecvData \/ RecvLeftover
        BY <3>1, RecvRequest
      <3>2. CASE RecvFull \/ RecvHangup
        BY <3>2, SMTT(60) DEF RecvFull, RecvHangup, Prepare, Drop
      <3> QED BY <1>10, <3>1, <3>2
    <2> QED BY <1>2, <2>1
  <1>11. CASE ServeStatic \/ ServeApi \/ HandlerAnswer \/ HandlerRead
    BY <1>2, <1>11 DEF ServeStatic, ServeApi, HandlerAnswer, HandlerRead, Served, Prepare
  <1>12. CASE PayloadData \/ PayloadPartial \/ PayloadError
    BY <1>2, <1>12 DEF PayloadData, PayloadPartial, PayloadError, Prepare
  <1>13. CASE Writev \/ SendFile
    <2>1. pc' # "idle"
      <3>1. CASE Writev
        BY <3>1, WritevFacts
      <3>2. CASE SendFile
        BY <3>2, SendFileFacts
      <3> QED BY <1>13, <3>1, <3>2
    <2> QED BY <1>2, <2>1
  <1>14. CASE SendFileNone \/ SendFileEmpty \/ SendFileShort \/ SendFileError
    BY <1>2, <1>14 DEF SendFileNone, SendFileEmpty, SendFileShort, SendFileError, FileSent, Drop
  <1> QED BY <1>3, <1>4, <1>5, <1>6, <1>7, <1>8, <1>9, <1>10, <1>11, <1>12, <1>13, <1>14
          DEF Next, Worker, Recv, Serve, Payload, Send, SendResponseFile, Peer

(* Refusals: a status that is not the endpoint's has a reason.             *)
LEMMA RefusedStep ==
  ASSUME IInv, [Next]_vars
  PROVE  RefusedRightly'
  <1>1. RefusedRightly /\ ResponseOK /\ ResponseOK' /\ resp \in ResponseRecord
    BY ResponseStep DEF IInv, TypeOK
  <1>2. HANGUP = 1 /\ BadRequest = 400 /\ TooLarge = 431 /\ Insufficient = 507 /\ UNSET = 0
    BY DEF HANGUP, BadRequest, TooLarge, Insufficient, UNSET
  <1> USE DEF outvars, callvars, netvars
  <1>3. CASE pc' = "prepare"
    BY <1>1, <1>2, <1>3 DEF ResponseOK, Refused, Answered, RefusedRightly
  <1>4. CASE served' = served /\ (resp'.status = resp.status \/ resp'.status \in {HANGUP, Insufficient})
    <2>1. (Spoiled(cur)' <=> Spoiled(cur)) /\ Requests[cur]' = Requests[cur]
      BY <1>4 DEF Spoiled, cur, UnreadBefore
    <2> QED BY <1>1, <1>2, <1>4, <2>1 DEF RefusedRightly
  <1>5. CASE Quiet
    BY <1>4, <1>5, QuietFacts
  <1>6. CASE RecvData \/ RecvLeftover
    BY <1>3, <1>4, <1>6, RecvRequest, SMTT(60)
  <1>7. CASE RecvFull \/ ServeStatic \/ HandlerAnswer \/ PayloadError
    BY <1>3, <1>7 DEF RecvFull, ServeStatic, HandlerAnswer, Served, PayloadError, Prepare
  <1>8. CASE RecvHangup
    <2>1. resp' = [resp EXCEPT !.status = HANGUP] /\ served' = served
      BY <1>8 DEF RecvHangup
    <2> QED BY <1>1, <1>4, <2>1 DEF ResponseRecord
  <1>9. CASE HandlerRead \/ PayloadData \/ SendFileNone \/ SendFileShort
    BY <1>4, <1>9 DEF HandlerRead, PayloadData, SendFileNone, SendFileShort
  <1>10. CASE PrepareOk \/ PrepareFail
    <2>1. resp.pos = 0
      BY <1>1, <1>10, SMTT(60) DEF ResponseOK, PrepareOk, PrepareFail
    <2>2. resp' = PrepareResponse(resp, Requests[cur].method).ta /\ served' = served
      BY <1>10 DEF PrepareOk, PrepareFail
    <2>3. resp'.status \in {resp.status, Insufficient}
      BY <1>1, <2>1, <2>2, PrepareFacts
    <2> QED BY <1>4, <2>2, <2>3, SMTT(60)
  <1>11. CASE Writev
    BY <1>4, <1>11, WritevFacts DEF Writev
  <1>12. CASE SendFile
    BY <1>4, <1>12, SendFileFacts DEF SendFile
  <1>13. CASE SendFileEmpty
    <2>1. FileSent(resp) /\ SendsFile(resp) /\ pc = "sendfile" /\ served' = served
      BY <1>13 DEF SendFileEmpty
    <2> QED BY <1>1, <1>4, <2>1, FileSentFacts
  <1>14. CASE Finalize \/ Close
    <2>1. resp'.status = UNSET
      BY <1>14, ZeroFacts DEF Finalize, Close
    <2> QED BY <1>2, <2>1 DEF RefusedRightly
  <1> QED BY <1>5, <1>6, <1>7, <1>8, <1>9, <1>10, <1>11, <1>12, <1>13, <1>14
          DEF Quiet, Next, Worker, Recv, Serve, Payload, PrepareResp, Send, SendResponseFile

-----------------------------------------------------------------------------
(* Types.  The units of a response, and how many there are.                *)
LEMMA BufUnitsFacts ==
  ASSUME cur \in 1 .. N, NEW b \in 1 .. 3, NEW buf \in [base : Nat, len : Nat]
  PROVE  BufUnits(b, buf) \in Seq(OutUnit) /\ Len(BufUnits(b, buf)) = buf.len
  <1> DEFINE f == BufUnits(b, buf)
  <1>1. buf.len \in Nat /\ buf.base \in Nat
    OBVIOUS
  <1>2. f = [k \in 1 .. buf.len |-> <<cur, b, buf.base + k>>]
    BY DEF BufUnits
  <1>3. \A k \in 1 .. buf.len : f[k] \in OutUnit
    BY <1>1, <1>2 DEF OutUnit, N
  <1>4. f = [k \in 1 .. buf.len |-> f[k]]
    BY <1>2
  <1> HIDE DEF f
  <1>5. f \in Seq(OutUnit) /\ Len(f) = buf.len
    BY <1>1, <1>3, <1>4, TypedSeq
  <1> QED BY <1>5 DEF f

LEMMA HeadUnitsFacts ==
  ASSUME cur \in 1 .. N, NEW bufs \in [1 .. 3 -> [base : Nat, len : Nat]]
  PROVE  /\ HeadUnits(bufs) \in Seq(OutUnit)
         /\ Len(HeadUnits(bufs)) = bufs[1].len + bufs[2].len + bufs[3].len
  <1> DEFINE a == BufUnits(1, bufs[1])
             b == BufUnits(2, bufs[2])
             c == BufUnits(3, bufs[3])
  <1>1. /\ a \in Seq(OutUnit) /\ Len(a) = bufs[1].len
        /\ b \in Seq(OutUnit) /\ Len(b) = bufs[2].len
        /\ c \in Seq(OutUnit) /\ Len(c) = bufs[3].len
    BY SMTT(60), BufUnitsFacts
  <1>2. HeadUnits(bufs) = a \o b \o c
    BY DEF HeadUnits
  <1> HIDE DEF a, b, c
  <1>3. a \o b \in Seq(OutUnit) /\ Len(a \o b) = Len(a) + Len(b)
    BY ZenonT(60), <1>1, JoinFacts
  <1>4. (a \o b) \o c \in Seq(OutUnit) /\ Len((a \o b) \o c) = Len(a \o b) + Len(c)
    BY ZenonT(60), <1>1, <1>3, JoinFacts
  <1> QED BY <1>1, <1>2, <1>3, <1>4

LEMMA FileUnitsFacts ==
  ASSUME cur \in 1 .. N, NEW t \in ResponseRecord, SendsFile(t) => t.pos <= t.end + 1
  PROVE  /\ FileUnits(t) \in Seq(OutUnit)
         /\ SendsFile(t) => /\ Len(FileUnits(t)) = t.end - t.pos + 1
                            /\ \A k \in 1 .. t.end - t.pos + 1 :
                                 FileUnits(t)[k] = <<cur, 4, t.pos + k>>
         /\ ~ SendsFile(t) => FileUnits(t) = <<>>
  <1>1. CASE ~ SendsFile(t)
    BY <1>1 DEF FileUnits
  <1>2. CASE SendsFile(t)
    <2> DEFINE f == FileUnits(t)
               n == t.end - t.pos + 1
    <2>1. n \in Nat /\ t.pos \in Nat
      BY <1>2 DEF ResponseRecord
    <2>2. f = [k \in 1 .. n |-> <<cur, 4, t.pos + k>>]
      BY <1>2 DEF FileUnits
    <2> HIDE DEF n
    <2>3. \A k \in 1 .. n : f[k] \in OutUnit /\ f[k] = <<cur, 4, t.pos + k>>
      BY <2>1, <2>2, SMTT(60) DEF OutUnit, N
    <2>4. f = [k \in 1 .. n |-> f[k]]
      BY <2>2
    <2> HIDE DEF f
    <2>5. f \in Seq(OutUnit) /\ Len(f) = n
      BY <2>1, <2>3, <2>4, TypedSeq
    <2> QED BY <1>2, <2>3, <2>5 DEF f, n
  <1> QED BY <1>1, <1>2

(* What writev takes is the front of the buffers, what sendfile takes the  *)
(* front of the rest of the file.                                          *)
LEMMA WritevUnits ==
  ASSUME IInv, Writev
  PROVE  \E rc \in Nat :
           /\ rc > 0 /\ rc <= Len(HeadUnits(resp.bufs))
           /\ HeadUnits(resp.bufs) \in Seq(OutUnit) /\ cur \in 1 .. N
           /\ wire' = wire \o First(HeadUnits(resp.bufs), rc)
           /\ rc \in Writable(resp.bufs) /\ txq' = txq + rc
           /\ resp' = [resp EXCEPT !.bufs = Advance(resp.bufs, rc)]
           /\ IF AllSent(Advance(resp.bufs, rc))
                THEN req' = [req EXCEPT !.state = "SEND_FILE"] /\ pc' = "sendfile"
                ELSE UNCHANGED <<req, pc>>
  <1>1. PICK rc \in Writable(resp.bufs) :
          /\ wire' = wire \o First(HeadUnits(resp.bufs), rc)
          /\ txq' = txq + rc
          /\ resp' = [resp EXCEPT !.bufs = Advance(resp.bufs, rc)]
          /\ IF AllSent(Advance(resp.bufs, rc))
               THEN req' = [req EXCEPT !.state = "SEND_FILE"] /\ pc' = "sendfile"
               ELSE UNCHANGED <<req, pc>>
    BY DEF Writev
  <1>2. /\ req.state = "SEND" /\ N \in Nat /\ served \in 0 .. N /\ served < N
        /\ resp \in ResponseRecord /\ txq \in 0 .. TxCap /\ TxCap \in Nat
    BY RequestFacts, BufferAssumption DEF Writev, IInv, ControlOK, TypeOK, N
  <1>3. cur \in 1 .. N /\ resp.bufs \in [1 .. 3 -> [base : Nat, len : Nat]]
    BY <1>2 DEF cur, ResponseRecord
  <1>4. HeadUnits(resp.bufs) \in Seq(OutUnit) /\ Len(HeadUnits(resp.bufs)) \in Nat
    BY <1>3, HeadUnitsFacts, LenProperties
  <1>5. rc \in 1 .. TxSpace /\ TxSpace \in Int /\ rc <= Len(HeadUnits(resp.bufs))
    <2>1. TxSpace \in Int
      BY <1>2 DEF TxSpace
    <2> QED BY <1>4, <2>1 DEF Writable
  <1>6. rc \in Nat /\ rc > 0
    BY <1>5
  <1> QED BY <1>1, <1>3, <1>4, <1>5, <1>6

LEMMA SendFileUnits ==
  ASSUME IInv, SendFile
  PROVE  \E rc \in Nat, f \in Seq(OutUnit) :
           /\ rc > 0 /\ rc <= Left /\ cur \in 1 .. N /\ SendsFile(resp) /\ resp.fd = cur
           /\ Len(f) = rc /\ \A k \in 1 .. rc : f[k] = <<cur, 4, resp.pos + k>>
           /\ wire' = wire \o f
           /\ LET t == [resp EXCEPT !.pos = @ + rc]
              IN  IF t.pos > t.end THEN FileSent(t) ELSE resp' = t /\ UNCHANGED <<req, pc, files>>
  <1>1. PICK rc \in 1 .. Min2(TxSpace, Left) :
          LET t == [resp EXCEPT !.pos = @ + rc]
          IN  /\ wire' = wire \o [k \in 1 .. rc |-> <<cur, 4, resp.pos + k>>]
              /\ IF t.pos > t.end THEN FileSent(t)
                                  ELSE resp' = t /\ UNCHANGED <<req, pc, files>>
    BY DEF SendFile
  <1>2. /\ req.state = "SEND_FILE" /\ N \in Nat /\ served \in 0 .. N /\ served < N
        /\ resp \in ResponseRecord /\ txq \in 0 .. TxCap /\ TxCap \in Nat
        /\ SendsFile(resp) /\ resp.fd = cur
    BY RequestFacts, BufferAssumption
       DEF SendFile, SendsFile, IInv, ControlOK, FileOwned, TypeOK, N
  <1>3. cur \in 1 .. N
    BY <1>2 DEF cur
  <1>4. rc \in Nat /\ rc > 0 /\ rc <= Left
    <2>1. Left \in Int /\ TxSpace \in Int
      BY <1>2 DEF Left, TxSpace, ResponseRecord
    <2>2. Min2(TxSpace, Left) <= Left /\ Min2(TxSpace, Left) \in Int
      BY <2>1 DEF Min2
    <2>3. rc \in 1 .. Min2(TxSpace, Left)
      OBVIOUS
    <2> QED BY <2>1, <2>2, <2>3
  <1>5. resp.pos \in Nat
    BY <1>2 DEF ResponseRecord
  <1> DEFINE f == [k \in 1 .. rc |-> <<cur, 4, resp.pos + k>>]
  <1>6. \A k \in 1 .. rc : f[k] \in OutUnit /\ f[k] = <<cur, 4, resp.pos + k>>
    BY <1>3, <1>4, <1>5, SMTT(60) DEF OutUnit, N
  <1>7. wire' = wire \o f
    BY <1>1
  <1>8. f = [k \in 1 .. rc |-> f[k]]
    OBVIOUS
  <1> HIDE DEF f
  <1>9. f \in Seq(OutUnit) /\ Len(f) = rc
    BY <1>4, <1>6, <1>8, TypedSeq
  <1>10. LET t == [resp EXCEPT !.pos = @ + rc]
         IN  IF t.pos > t.end THEN FileSent(t) ELSE resp' = t /\ UNCHANGED <<req, pc, files>>
    BY <1>1
  <1> QED BY <1>2, <1>3, <1>4, <1>6, <1>7, <1>9, <1>10

PcSet == {"idle", "recv", "serve", "handler", "payload", "prepare", "send",
          "sendfile", "done", "close", "closed"}

LEMMA RequestType ==
  ASSUME IInv, [Next]_vars
  PROVE  /\ req' \in RequestRecord /\ req'.payload_pos <= req'.payload_len
         /\ req_headers' \in Seq(InUnit) /\ Len(req_headers') <= BufSz /\ got' \in Seq(InUnit)
         /\ nbytes' \in Nat /\ written' \in Nat
  <1>1. /\ req \in RequestRecord /\ req.payload_pos <= req.payload_len
        /\ req_headers \in Seq(InUnit) /\ Len(req_headers) <= BufSz /\ got \in Seq(InUnit)
        /\ nbytes \in Nat /\ written \in Nat /\ BufSz \in Nat
    BY BufferAssumption DEF IInv, TypeOK
  <1>2. CASE ~ Moves
    BY <1>1, <1>2, Kept DEF callvars
  <1>3. CASE RecvData \/ RecvLeftover
    <2>1. /\ req' \in RequestRecord /\ req'.payload_pos = 0
          /\ req_headers' \in Seq(InUnit) /\ Len(req_headers') <= BufSz
          /\ UNCHANGED callvars
      BY <1>3, RecvRequest
    <2>2. req'.payload_len >= 0
      BY <1>1, <2>1 DEF RequestRecord
    <2> QED BY <1>1, <2>1, <2>2 DEF callvars
  <1>4. CASE HandlerRead
    <2>1. PICK m \in Nat :
            /\ req' \in RequestRecord /\ req'.payload_len = req.payload_len
            /\ req'.payload_pos = req.payload_pos + m /\ req.payload_pos + m <= req.payload_len
            /\ got' \in Seq(InUnit) /\ nbytes' \in Nat /\ written' \in Nat
      BY <1>4, HandlerReadFacts
    <2>2. req_headers' = req_headers
      BY <1>4 DEF HandlerRead
    <2> QED BY <1>1, <2>1, <2>2
  <1>5. CASE PayloadData
    BY <1>1, <1>5, PayloadDataFacts
  <1>6. CASE Finalize
    <2>1. /\ req_headers' \in Seq(InUnit) /\ Len(req_headers') <= Len(req_headers)
          /\ got' = <<>> /\ req' = ZeroRequest
      BY <1>6, FinalizeFacts
    <2>2. Len(req_headers') \in Nat /\ Len(req_headers) \in Nat
      BY <1>1, <2>1, LenProperties
    <2>3. nbytes' = 0 /\ written' = 0
      BY <1>6 DEF Finalize
    <2> QED BY <1>1, <2>1, <2>2, <2>3, ZeroFacts
  <1>7. CASE Close
    <2>1. /\ req_headers' = <<>> /\ req' = ZeroRequest /\ UNCHANGED callvars
      BY <1>7 DEF Close
    <2>2. <<>> \in Seq(InUnit) /\ Len(<<>>) = 0
      OBVIOUS
    <2> QED BY <1>1, <2>1, <2>2, ZeroFacts DEF callvars
  <1> QED BY <1>2, <1>3, <1>4, <1>5, <1>6, <1>7 DEF Moves

LEMMA ResponseType ==
  ASSUME IInv, [Next]_vars
  PROVE  resp' \in ResponseRecord
  <1>1. resp \in ResponseRecord /\ ResponseOK /\ ControlOK
    BY DEF IInv, TypeOK
  <1> USE DEF outvars, callvars, netvars
  <1>2. CASE Quiet
    BY <1>1, <1>2, QuietFacts
  <1>3. CASE RecvData \/ RecvLeftover
    <2>1. resp = ZeroResponse
      BY <1>1, <1>3, RecvRequest DEF ResponseOK
    <2>2. resp' = resp \/ resp' = [resp EXCEPT !.status = BadRequest]
      BY <1>3, RecvRequest
    <2> QED BY <1>1, <2>1, <2>2, RefusedFacts DEF BadRequest
  <1>4. CASE RecvFull \/ RecvHangup \/ PayloadError
    <2>1. \E s \in Nat : resp' = [resp EXCEPT !.status = s]
      BY <1>4 DEF RecvFull, RecvHangup, PayloadError, TooLarge, HANGUP
    <2> QED BY <1>1, <2>1 DEF ResponseRecord
  <1>5. CASE ServeStatic \/ HandlerAnswer
    BY <1>5, ServedFacts
  <1>6. CASE HandlerRead \/ PayloadData \/ SendFileNone \/ SendFileShort
    BY <1>1, <1>6 DEF HandlerRead, PayloadData, SendFileNone, SendFileShort
  <1>7. CASE PrepareOk \/ PrepareFail
    <2>1. resp.pos = 0
      BY <1>1, <1>7, SMTT(60) DEF ResponseOK, PrepareOk, PrepareFail
    <2>2. resp' = PrepareResponse(resp, Requests[cur].method).ta
      BY <1>7 DEF PrepareOk, PrepareFail
    <2> QED BY SMTT(60), <1>1, <2>1, <2>2, PrepareFacts
  <1>8. CASE Writev
    BY <1>8, WritevFacts
  <1>9. CASE SendFile
    BY <1>9, SendFileFacts
  <1>10. CASE SendFileEmpty
    <2>1. FileSent(resp) /\ SendsFile(resp) /\ pc = "sendfile"
      BY <1>10 DEF SendFileEmpty
    <2> QED BY <1>1, <2>1, FileSentFacts
  <1>11. CASE Finalize \/ Close
    BY <1>11, ZeroFacts DEF Finalize, Close
  <1> QED BY <1>2, <1>3, <1>4, <1>5, <1>6, <1>7, <1>8, <1>9, <1>10, <1>11
          DEF Quiet, Next, Worker, Recv, Serve, Payload, PrepareResp, Send, SendResponseFile

LEMMA NetType ==
  ASSUME IInv, [Next]_vars
  PROVE  /\ sent' \in 0 .. Total /\ peer' \in {"up", "eof", "reset"}
         /\ txq' \in 0 .. TxCap /\ rx' \in Seq(InUnit)
  <1>1. /\ sent \in 0 .. Total /\ peer \in {"up", "eof", "reset"}
        /\ txq \in 0 .. TxCap /\ rx \in Seq(InUnit) /\ Total \in Nat /\ TxCap \in Nat
    BY TotalFacts, BufferAssumption DEF IInv, TypeOK
  <1> USE DEF outvars, callvars, netvars
  <1>2. CASE PeerSend
    <2>1. /\ sent' = sent + 1 /\ sent < Total /\ rx' = Append(rx, Stream[sent + 1])
          /\ UNCHANGED <<peer, txq>>
      BY <1>2 DEF PeerSend
    <2>2. sent + 1 \in 1 .. Total
      BY <1>1, <2>1
    <2>3. Stream[sent + 1] \in InUnit
      BY <2>2, StreamType
    <2> QED BY <1>1, <2>1, <2>2, <2>3, AppendProperties
  <1>3. CASE PeerShutdown \/ PeerReset
    <2>1. /\ rx' \in {rx, <<>>} /\ peer' \in {"eof", "reset"} /\ UNCHANGED <<sent, txq>>
      BY <1>3 DEF PeerShutdown, PeerReset
    <2>2. <<>> \in Seq(InUnit)
      OBVIOUS
    <2> QED BY <1>1, <2>1, <2>2
  <1>4. CASE PeerReceive
    <2>1. PICK n \in 1 .. txq : txq' = txq - n
      BY <1>4 DEF PeerReceive
    <2>2. UNCHANGED <<sent, rx, peer>>
      BY <1>4 DEF PeerReceive
    <2> QED BY <1>1, <2>1, <2>2
  <1>5. CASE RecvData
    BY <1>1, <1>5, RecvFacts DEF RecvData
  <1>6. CASE PayloadData
    <2>1. rx' \in Seq(InUnit)
      BY <1>6, PayloadDataFacts
    <2> QED BY <1>1, <1>6, <2>1 DEF PayloadData
  <1>7. CASE Writev
    BY <1>1, <1>7, WritevFacts
  <1>8. CASE SendFile
    BY <1>1, <1>8, SendFileFacts
  <1>9. CASE RecvBlock \/ RecvLeftover \/ RecvFull \/ RecvHangup
    BY <1>1, <1>9 DEF RecvBlock, RecvLeftover, RecvFull, RecvHangup
  <1>10. CASE ServeStatic \/ ServeApi \/ HandlerAnswer \/ HandlerRead
    BY <1>1, <1>10 DEF ServeStatic, ServeApi, HandlerAnswer, HandlerRead
  <1>11. CASE PayloadPartial \/ PayloadBlock \/ PayloadEof \/ PayloadError
    BY <1>1, <1>11, SMTT(60) DEF PayloadPartial, PayloadBlock, PayloadEof, PayloadError
  <1>12. CASE PrepareOk \/ PrepareFail \/ WritevBlock \/ WritevError
    BY <1>1, <1>12 DEF PrepareOk, PrepareFail, WritevBlock, WritevError
  <1>13. CASE SendFileNone \/ SendFileEmpty \/ SendFileShort \/ SendFileBlock \/ SendFileError
    BY <1>1, <1>13 DEF SendFileNone, SendFileEmpty, SendFileShort, SendFileBlock, SendFileError
  <1>14. CASE Event \/ EndConnection \/ Finalize \/ Close \/ UNCHANGED vars
    BY <1>1, <1>14 DEF Event, EndConnection, Finalize, Close, vars
  <1> QED BY <1>2, <1>3, <1>4, <1>5, <1>6, <1>7, <1>8, <1>9, <1>10, <1>11, <1>12, <1>13, <1>14
          DEF Next, Worker, Recv, Serve, Payload, PrepareResp, Send, SendResponseFile, Peer

LEMMA WorkerType ==
  ASSUME IInv, [Next]_vars
  PROVE  {nospace', edge'} \subseteq BOOLEAN /\ pc' \in PcSet
  <1>1. {nospace, edge} \subseteq BOOLEAN /\ pc \in PcSet /\ ControlOK
    BY DEF IInv, TypeOK, PcSet
  <1> USE DEF outvars, callvars, netvars, PcSet
  <1>2. CASE RecvData \/ RecvLeftover
    BY <1>1, <1>2, RecvRequest
  <1>3. CASE RecvBlock \/ RecvFull \/ RecvHangup
    BY <1>1, <1>3, SMTT(60) DEF RecvBlock, RecvFull, RecvHangup, Block, Prepare, Drop
  <1>4. CASE ServeStatic \/ ServeApi \/ HandlerAnswer \/ HandlerRead
    BY <1>1, <1>4 DEF ServeStatic, ServeApi, HandlerAnswer, HandlerRead, Served, Prepare
  <1>5. CASE PayloadData \/ PayloadPartial \/ PayloadBlock \/ PayloadEof \/ PayloadError
    BY <1>1, <1>5, SMTT(60) DEF PayloadData, PayloadPartial, PayloadBlock, PayloadEof, PayloadError,
       Block, Prepare
  <1>6. CASE PrepareOk \/ PrepareFail \/ EndConnection \/ Finalize \/ Close
    BY <1>1, <1>6 DEF PrepareOk, PrepareFail, EndConnection, Finalize, Close, Drop
  <1>7. CASE Writev
    BY <1>1, <1>7, WritevFacts
  <1>8. CASE SendFile
    BY <1>1, <1>8, SendFileFacts
  <1>9. CASE WritevBlock \/ WritevError \/ SendFileBlock \/ SendFileError
    BY <1>1, <1>9 DEF WritevBlock, WritevError, SendFileBlock, SendFileError, Block, Drop
  <1>10. CASE SendFileNone \/ SendFileEmpty \/ SendFileShort
    BY <1>1, <1>10 DEF SendFileNone, SendFileEmpty, SendFileShort, FileSent
  <1>11. CASE Event
    BY <1>1, <1>11 DEF Event, Enter, ControlOK
  <1>12. CASE Peer \/ UNCHANGED vars
    BY <1>1, <1>12 DEF Peer, PeerSend, PeerShutdown, PeerReset, PeerReceive, vars
  <1> QED BY <1>2, <1>3, <1>4, <1>5, <1>6, <1>7, <1>8, <1>9, <1>10, <1>11, <1>12
          DEF Next, Worker, Recv, Serve, Payload, PrepareResp, Send, SendResponseFile

LEMMA OutType ==
  ASSUME IInv, [Next]_vars
  PROVE  /\ files' \subseteq 1 .. N /\ served' \in 0 .. N
         /\ due' \in Seq(OutUnit) /\ wire' \in Seq(OutUnit)
  <1>1. /\ files \subseteq 1 .. N /\ served \in 0 .. N /\ N \in Nat /\ ControlOK
        /\ due \in Seq(OutUnit) /\ wire \in Seq(OutUnit) /\ resp \in ResponseRecord
    BY RequestFacts DEF IInv, TypeOK, N
  <1> USE DEF outvars, callvars, netvars
  <1>2. CASE Quiet
    BY <1>1, <1>2, QuietFacts
  <1>3. CASE RecvData \/ RecvLeftover
    BY <1>1, <1>3, RecvRequest
  <1>4. CASE RecvFull \/ RecvHangup \/ PayloadError \/ HandlerRead \/ PayloadData
    BY <1>1, <1>4 DEF RecvFull, RecvHangup, PayloadError, HandlerRead, PayloadData
  <1>5. CASE ServeStatic \/ HandlerAnswer
    <2>1. /\ cur \in 1 .. N /\ UNCHANGED <<served, due, wire>>
          /\ files' = IF resp'.fd = cur THEN files \union {cur} ELSE files
      BY <1>5, ServedFacts
    <2> QED BY <1>1, <2>1
  <1>6. CASE PrepareOk
    <2>1. /\ cur \in 1 .. N /\ resp' \in ResponseRecord /\ resp'.pos = 0
          /\ resp'.fd > 0 => resp'.end >= -1
          /\ files' \subseteq files
          /\ due' = due \o HeadUnits(resp'.bufs) \o FileUnits(resp')
          /\ UNCHANGED <<served, wire>>
      BY <1>6, PreparedFacts
    <2> DEFINE h == HeadUnits(resp'.bufs)
               f == FileUnits(resp')
    <2>2. h \in Seq(OutUnit)
      BY <2>1, HeadUnitsFacts DEF ResponseRecord
    <2>3. f \in Seq(OutUnit)
      <3>1. SendsFile(resp') => resp'.pos <= resp'.end + 1
        BY SMTT(60), <2>1 DEF SendsFile, ResponseRecord
      <3> QED BY <2>1, <3>1, FileUnitsFacts
    <2>4. due' = due \o h \o f
      BY <2>1
    <2> HIDE DEF h, f
    <2>5. due \o h \in Seq(OutUnit)
      BY <1>1, <2>2, JoinFacts
    <2>6. (due \o h) \o f \in Seq(OutUnit)
      BY <2>3, <2>5, JoinFacts
    <2> QED BY <1>1, <2>1, <2>4, <2>6
  <1>7. CASE PrepareFail
    BY <1>1, <1>7 DEF PrepareFail
  <1>8. CASE Writev
    <2>1. PICK rc \in Nat :
            /\ rc <= Len(HeadUnits(resp.bufs)) /\ HeadUnits(resp.bufs) \in Seq(OutUnit)
            /\ wire' = wire \o First(HeadUnits(resp.bufs), rc)
      BY <1>8, WritevUnits
    <2> DEFINE f == First(HeadUnits(resp.bufs), rc)
    <2>2. f \in Seq(OutUnit)
      BY <2>1, FirstFacts
    <2>3. wire' = wire \o f
      BY <2>1
    <2> HIDE DEF f
    <2>4. wire \o f \in Seq(OutUnit)
      BY <1>1, <2>2, JoinFacts
    <2> QED BY <1>1, <1>8, <2>3, <2>4 DEF Writev
  <1>9. CASE SendFile
    <2>1. PICK f \in Seq(OutUnit) : wire' = wire \o f
      BY <1>9, SendFileUnits
    <2>2. wire \o f \in Seq(OutUnit)
      BY <1>1, <2>1, JoinFacts
    <2>3. files' \subseteq files
      BY <1>9, SendFileFacts
    <2> QED BY <1>1, <1>9, <2>1, <2>2, <2>3 DEF SendFile
  <1>10. CASE SendFileNone \/ SendFileEmpty \/ SendFileShort
    BY <1>1, <1>10 DEF SendFileNone, SendFileEmpty, SendFileShort, FileSent
  <1>11. CASE Finalize
    <2>1. served' = served + 1 /\ served < N /\ UNCHANGED <<files, due, wire>>
      BY <1>1, <1>11 DEF Finalize, ControlOK, N
    <2> QED BY <1>1, <2>1
  <1>12. CASE Close
    BY <1>1, <1>12 DEF Close
  <1> QED BY <1>2, <1>3, <1>4, <1>5, <1>6, <1>7, <1>8, <1>9, <1>10, <1>11, <1>12
          DEF Quiet, Next, Worker, Recv, Serve, Payload, PrepareResp, Send, SendResponseFile

LEMMA TypeStep ==
  ASSUME IInv, [Next]_vars
  PROVE  TypeOK'
  BY RequestType, ResponseType, NetType, WorkerType, OutType DEF TypeOK, PcSet, N

-----------------------------------------------------------------------------
(* The payload of the handler: wherever its units came from, they are the  *)
(* ones that follow the head of its request.                               *)
LEMMA PayloadFromInput ==
  TypeOK /\ InputOK /\ ControlOK /\ PayloadOK /\ Alive => HandlerSeesPayload
  <1> SUFFICES ASSUME TypeOK, InputOK, ControlOK, PayloadOK, Alive, NEW k \in 1 .. Len(got)
               PROVE  got[k] = <<cur, Requests[cur].hdr + k>>
    BY DEF HandlerSeesPayload
  <1>1. got # <<>> /\ Accepted
    <2>1. got # <<>>
      OBVIOUS
    <2> QED BY <2>1 DEF PayloadOK
  <1>2. /\ ~ Spoiled(cur) /\ req.payload = Requests[cur].hdr
        /\ req.payload + req.payload_len = Len(req_headers)
        /\ Len(got) <= Requests[cur].reads
        /\ req.payload_pos < Len(got) => req.payload_pos = req.payload_len
        /\ \A j \in 1 .. req.payload_pos : got[j] = req_headers[req.payload + j]
        /\ req.state # "READ"
    BY <1>1 DEF PayloadOK
  <1>3. /\ N \in Nat /\ served \in 0 .. N /\ served < N
        /\ req.payload_len \in Nat /\ req.payload_pos \in Nat /\ req.payload \in Nat
        /\ req.payload_pos <= req.payload_len /\ Len(got) \in Nat
    BY <1>2, RequestFacts, LenProperties, SMTT(60) DEF TypeOK, ControlOK, RequestRecord, N
  <1>4. cur \in 1 .. N /\ cur \in 1 .. N + 1
    BY <1>3 DEF cur
  <1>5. Base(cur) = Start[cur] /\ Base(cur) \in Nat
    <2>1. UnreadBefore(cur) \in Nat /\ Base(cur) \in Nat
      BY <1>4, BaseFacts
    <2>2. UnreadBefore(cur) = 0
      BY <1>2, <2>1 DEF Spoiled
    <2> QED BY <1>4, <2>1, <2>2, FirstUnit
  <1>6. /\ Requests[cur].hdr \in Nat /\ Requests[cur].reads \in Nat /\ Requests[cur].pay \in Nat
        /\ Requests[cur].reads <= Requests[cur].pay
        /\ Size(cur) = Requests[cur].hdr + Requests[cur].pay
    BY <1>4, RequestFacts
  <1>7. Requests[cur].hdr + k \in 1 .. Size(cur)
    BY SMTT(60), <1>2, <1>3, <1>6
  <1>8. Stream[Start[cur] + (Requests[cur].hdr + k)] = <<cur, Requests[cur].hdr + k>>
    BY <1>4, <1>7, StreamUnit
  <1>9. Base(cur) + (req.payload + k) = Start[cur] + (Requests[cur].hdr + k)
    BY <1>2, <1>5
  <1>10. CASE k <= req.payload_pos
    <2>1. k \in 1 .. req.payload_pos /\ req.payload + k \in 1 .. Len(req_headers)
      BY <1>2, <1>3, <1>10, SMTT(60)
    <2>2. got[k] = Stream[Base(cur) + (req.payload + k)]
      BY <1>2, <2>1 DEF InputOK
    <2> QED BY <1>8, <1>9, <2>2
  <1>11. CASE k > req.payload_pos
    <2>1. k \in req.payload_pos + 1 .. Len(got) /\ req.payload_pos = req.payload_len
      BY <1>2, <1>3, <1>11
    <2>2. Base(cur) + Len(req_headers) + k - req.payload_pos = Base(cur) + (req.payload + k)
      BY SMTT(60), <1>2, <1>3, <1>5, <2>1
    <2>3. got[k] = Stream[Base(cur) + Len(req_headers) + k - req.payload_pos]
      BY <2>1 DEF InputOK
    <2> QED BY <1>8, <1>9, <2>2, <2>3
  <1> QED BY <1>3, <1>10, <1>11

LEMMA HandlerStep ==
  ASSUME IInv, [Next]_vars
  PROVE  HandlerSeesPayload'
  <1>1. CASE Alive'
    <2>1. TypeOK' /\ InputOK' /\ ControlOK' /\ PayloadOK'
      BY TypeStep, InputStep, ControlStep, PayloadStep
    <2>2. (TypeOK /\ InputOK /\ ControlOK /\ PayloadOK /\ Alive => HandlerSeesPayload)'
      BY PayloadFromInput, PTL
    <2> QED BY <1>1, <2>1, <2>2
  <1>2. CASE ~ Alive'
    <2>1. UNCHANGED <<got, served>>
      <3>1. CASE Close
        BY <3>1 DEF Close, callvars, outvars
      <3>2. CASE ~ Moves
        BY <3>2, Kept DEF callvars
      <3>3. CASE RecvData \/ RecvLeftover
        BY <3>3, RecvRequest DEF callvars, outvars
      <3>4. CASE HandlerRead \/ PayloadData \/ Finalize
        BY <1>2, <3>4 DEF HandlerRead, PayloadData, Finalize, Alive
      <3> QED BY <3>1, <3>2, <3>3, <3>4 DEF Moves
    <2> QED BY <2>1 DEF HandlerSeesPayload, cur, IInv
  <1> QED BY <1>1, <1>2

-----------------------------------------------------------------------------
(* The invariant holds at the start and after every step.                  *)
LEMMA InitInvariant == Init => IInv
  <1> SUFFICES ASSUME Init PROVE IInv
    OBVIOUS
  <1>1. /\ N \in Nat /\ Total \in Nat /\ BufSz \in Nat /\ TxCap \in Nat
    BY RequestFacts, TotalFacts, BufferAssumption
  <1>2. /\ req = ZeroRequest /\ resp = ZeroResponse /\ pc = "idle" /\ edge = TRUE /\ nospace = FALSE
        /\ sent = 0 /\ served = 0 /\ txq = 0 /\ nbytes = 0 /\ written = 0 /\ files = {}
        /\ rx = <<>> /\ req_headers = <<>> /\ got = <<>> /\ due = <<>> /\ wire = <<>> /\ peer = "up"
    BY DEF Init
  <1>3. cur = 1 /\ 1 \in 1 .. N + 1 /\ Base(1) = 0
    <2>1. cur = 1 /\ 1 \in 1 .. N + 1
      BY <1>1, <1>2 DEF cur
    <2> QED BY <2>1, BaseFacts
  <1>4. TypeOK
    <2>1. \A S : <<>> \in Seq(S)
      OBVIOUS
    <2>2. Len(req_headers) <= BufSz /\ req.payload_pos <= req.payload_len
      BY <1>1, <1>2, ZeroFacts
    <2>3. req \in RequestRecord /\ resp \in ResponseRecord
      BY <1>2, ZeroFacts
    <2>4. /\ rx \in Seq(InUnit) /\ req_headers \in Seq(InUnit) /\ got \in Seq(InUnit)
          /\ due \in Seq(OutUnit) /\ wire \in Seq(OutUnit)
      BY <1>2, <2>1
    <2>5. /\ sent \in 0 .. Total /\ txq \in 0 .. TxCap /\ served \in 0 .. Len(Requests)
          /\ nbytes \in Nat /\ written \in Nat
      BY <1>1, <1>2 DEF N
    <2>6. /\ peer \in {"up", "eof", "reset"} /\ {nospace, edge} \subseteq BOOLEAN
          /\ pc \in PcSet /\ files \subseteq 1 .. Len(Requests)
      BY <1>2 DEF PcSet
    <2> QED BY <2>2, <2>3, <2>4, <2>5, <2>6 DEF TypeOK, PcSet
  <1>5. ControlOK
    BY <1>2, ZeroFacts DEF ControlOK
  <1>6. InputOK
    <2>1. /\ Len(req_headers) = 0 /\ Len(got) = 0 /\ Len(rx) = 0 /\ req.payload_pos = 0
      BY <1>2, ZeroFacts
    <2>2. Held = 0
      BY <1>3, <2>1 DEF Held
    <2> QED BY <1>2, <2>1, <2>2 DEF InputOK
  <1>7. PayloadOK
    BY <1>2, ZeroFacts DEF PayloadOK, Accepted
  <1>8. ParsedOK
    BY <1>2, ZeroFacts DEF ParsedOK
  <1>9. ResponseOK
    BY <1>2, ZeroFacts DEF ResponseOK
  <1>10. FileOK /\ FileOwned
    BY <1>2, ZeroFacts DEF FileOK, FileOwned, FdDisable
  <1>11. NoLostWakeup
    BY <1>2 DEF NoLostWakeup
  <1>12. RefusedRightly
    BY <1>2, ZeroFacts DEF RefusedRightly, UNSET, TooLarge, BadRequest
  <1>13. HandlerSeesPayload
    <2>1. Len(got) = 0
      BY <1>2
    <2> QED BY <2>1 DEF HandlerSeesPayload
  <1> QED BY <1>4, <1>5, <1>6, <1>7, <1>8, <1>9, <1>10, <1>11, <1>12, <1>13 DEF IInv

LEMMA StepInvariant == IInv /\ [Next]_vars => IInv'
  BY TypeStep, ControlStep, InputStep, PayloadStep, ParsedStep, ResponseStep, FileStep,
     WakeupStep, RefusedStep, HandlerStep DEF IInv

(* The inductive invariant of a connection, for every sequence of requests *)
(* and every size of the buffers (kitserv_http_serve_client).              *)
THEOREM Invariant == Spec => []IInv
  BY InitInvariant, StepInvariant, PTL DEF Spec

(* The input as it stands in the buffers is the part of the stream between *)
(* what earlier requests have used and what the peer has sent.             *)
LEMMA StreamSeq == Stream \in Seq(InUnit) /\ Len(Stream) = Total
  <1>1. Total \in Nat /\ \A n \in 1 .. Total : Stream[n] \in InUnit
    BY TotalFacts, StreamType
  <1>2. Stream = [n \in 1 .. Total |-> Stream[n]]
    <2> DEFINE E(n) == LET i == CHOOSE j \in 1 .. Len(Requests) : Start[j] < n /\ n <= Start[j + 1]
                       IN  <<i, n - Start[i]>>
    <2>1. Stream = [n \in 1 .. Total |-> E(n)]
      BY DEF Stream
    <2> HIDE DEF E
    <2> QED BY <2>1
  <1> HIDE DEF Stream
  <1> QED BY <1>1, <1>2, TypedSeq

LEMMA InputFromParts == TypeOK /\ InputOK => InputConserved
  <1> SUFFICES ASSUME TypeOK, InputOK, Alive, peer # "reset"
               PROVE  req_headers \o Direct \o rx = SubSeq(Stream, Base(cur) + 1, sent)
    BY DEF InputConserved
  <1> DEFINE pos == req.payload_pos
             h == Len(req_headers)
             g == Len(got)
             r == Len(rx)
             B == Base(cur)
  <1>1. /\ h \in Nat /\ g \in Nat /\ r \in Nat /\ B \in Nat /\ pos \in Nat /\ pos <= g
        /\ req_headers \in Seq(InUnit) /\ got \in Seq(InUnit) /\ rx \in Seq(InUnit)
        /\ Held = B + h + g - pos /\ Held + r = sent /\ sent \in Nat /\ sent <= Total
        /\ Total \in Nat
    <2>1. pos \in Nat
      BY DEF TypeOK, RequestRecord
    <2> QED BY <2>1, CurFacts, TotalFacts DEF TypeOK, InputOK, Held
  <1>2. /\ \A k \in 1 .. h : req_headers[k] = Stream[B + k]
        /\ \A k \in pos + 1 .. g : got[k] = Stream[B + h + k - pos]
        /\ \A k \in 1 .. r : rx[k] = Stream[Held + k]
    BY DEF InputOK
  <1>3. /\ Direct \in Seq(InUnit) /\ Len(Direct) = g - pos
        /\ \A k \in 1 .. g - pos : Direct[k] = got[pos + k]
    BY <1>1, AfterFacts, ZenonT(60) DEF Direct
  <1> HIDE DEF pos, h, g, r, B
  <1> DEFINE d == Direct
             one == req_headers \o d
             all == one \o rx
             whole == SubSeq(Stream, B + 1, B + (h + (g - pos) + r))
  <1>4. /\ one \in Seq(InUnit) /\ Len(one) = h + (g - pos)
        /\ \A k \in 1 .. h : one[k] = req_headers[k]
        /\ \A k \in h + 1 .. h + (g - pos) : one[k] = Direct[k - h]
    <2>1. d \in Seq(InUnit) /\ Len(d) = g - pos
      BY <1>3
    <2> HIDE DEF d
    <2>2. /\ req_headers \o d \in Seq(InUnit)
          /\ Len(req_headers \o d) = Len(req_headers) + Len(d)
          /\ \A k \in 1 .. Len(req_headers) : (req_headers \o d)[k] = req_headers[k]
          /\ \A k \in Len(req_headers) + 1 .. Len(req_headers) + Len(d) :
               (req_headers \o d)[k] = d[k - Len(req_headers)]
      BY ZenonT(60), <1>1, <2>1, JoinFacts
    <2>3. \A k \in h + 1 .. h + (g - pos) : (req_headers \o d)[k] = d[k - h]
      BY <2>1, <2>2 DEF h
    <2> QED BY <2>1, <2>2, <2>3 DEF h, d
  <1> HIDE DEF one
  <1>5. /\ all \in Seq(InUnit) /\ Len(all) = h + (g - pos) + r
        /\ \A k \in 1 .. h + (g - pos) : all[k] = one[k]
        /\ \A k \in h + (g - pos) + 1 .. h + (g - pos) + r : all[k] = rx[k - (h + (g - pos))]
    <2>1. /\ one \o rx \in Seq(InUnit)
          /\ Len(one \o rx) = Len(one) + Len(rx)
          /\ \A k \in 1 .. Len(one) : (one \o rx)[k] = one[k]
          /\ \A k \in Len(one) + 1 .. Len(one) + Len(rx) : (one \o rx)[k] = rx[k - Len(one)]
      BY ZenonT(60), <1>1, <1>4, JoinFacts
    <2> QED BY <1>4, <2>1 DEF r
  <1>6. B + (h + (g - pos) + r) = sent /\ h + (g - pos) + r \in Nat
    BY <1>1
  <1>7. /\ whole \in Seq(InUnit) /\ Len(whole) = h + (g - pos) + r
        /\ \A k \in 1 .. h + (g - pos) + r : whole[k] = Stream[B + k]
    <2> DEFINE n == h + (g - pos) + r
    <2>1. n \in Nat /\ B + n <= Len(Stream) /\ Stream \in Seq(InUnit) /\ B \in Nat
      BY <1>1, <1>6, StreamSeq
    <2> HIDE DEF n, Stream
    <2>2. /\ SubSeq(Stream, B + 1, B + n) \in Seq(InUnit) /\ Len(SubSeq(Stream, B + 1, B + n)) = n
          /\ \A k \in 1 .. n : SubSeq(Stream, B + 1, B + n)[k] = Stream[B + k]
      BY <2>1, Piece
    <2> QED BY <2>2 DEF n
  <1> HIDE DEF all, whole
  <1>8. ASSUME NEW k \in 1 .. h + (g - pos) + r PROVE all[k] = whole[k]
    <2>1. whole[k] = Stream[B + k]
      BY <1>7
    <2>2. CASE k <= h
      <3>1. k \in 1 .. h /\ k \in 1 .. h + (g - pos)
        BY <1>1, <2>2
      <3> QED BY <1>2, <1>4, <1>5, <2>1, <3>1
    <2>3. CASE k > h /\ k <= h + (g - pos)
      <3>1. /\ k \in h + 1 .. h + (g - pos) /\ k \in 1 .. h + (g - pos)
            /\ k - h \in 1 .. g - pos /\ pos + (k - h) \in pos + 1 .. g
            /\ B + h + (pos + (k - h)) - pos = B + k
        BY <1>1, <2>3
      <3>2. all[k] = got[pos + (k - h)]
        BY <1>3, <1>4, <1>5, <3>1
      <3>3. got[pos + (k - h)] = Stream[B + h + (pos + (k - h)) - pos]
        BY <1>2, <3>1
      <3> QED BY <2>1, <3>1, <3>2, <3>3
    <2>4. CASE k > h + (g - pos)
      <3>1. /\ k \in h + (g - pos) + 1 .. h + (g - pos) + r
            /\ k - (h + (g - pos)) \in 1 .. r
            /\ Held + (k - (h + (g - pos))) = B + k
        BY <1>1, <2>4
      <3> QED BY <1>2, <1>5, <2>1, <3>1
    <2> QED BY <1>1, <2>2, <2>3, <2>4, SMTT(60)
  <1>9. all = whole
    BY <1>5, <1>7, <1>8, SeqEqual
  <1> QED BY <1>6, <1>9 DEF all, one, whole, B

-----------------------------------------------------------------------------
(* The variables keep their shapes, and the header buffer is never filled  *)
(* beyond HTTP_BUFSZ (kitserv_http_recv_request).                          *)
THEOREM TypeCorrect == Spec => []TypeOK
  <1>1. IInv => TypeOK
    BY DEF IInv
  <1> QED BY <1>1, Invariant, PTL

(* No input is lost, repeated or reordered between the socket, the header  *)
(* buffer, the handler and the leftover that finalize_transaction moves.   *)
THEOREM InputIsConserved == Spec => []InputConserved
  <1>1. IInv => InputConserved
    BY InputFromParts DEF IInv
  <1> QED BY <1>1, Invariant, PTL

(* serve_client returns 0 only when an event of the edge-triggered queue   *)
(* is still to come for what it waits for.                                 *)
THEOREM WakeupNeverLost == Spec => []NoLostWakeup
  <1>1. IInv => NoLostWakeup
    BY DEF IInv
  <1> QED BY <1>1, Invariant, PTL

(* resp_fd is never a descriptor that has been closed or another request's *)
(* (prepare_response, send_response_file).                                 *)
THEOREM DescriptorOwned == Spec => []FileOwned
  <1>1. IInv => FileOwned
    BY DEF IInv
  <1> QED BY <1>1, Invariant, PTL

(* A file is closed after it has been sent, but in the three cases the     *)
(* code forgets it.                                                        *)
THEOREM FilesClosed == Spec => []FileClosedAfterSending
  <1>1. IInv => FileClosedAfterSending
    <2> SUFFICES ASSUME IInv, Alive, req.state = "READ", NEW i \in files
                 PROVE  Leaks(i)
      BY DEF FileClosedAfterSending
    <2>1. i <= cur /\ (i < cur => Leaks(i)) /\ i # cur
      BY DEF IInv, FileOK
    <2>2. i \in Int /\ cur \in Int
      BY RequestFacts DEF IInv, TypeOK, cur, N
    <2> QED BY <2>1, <2>2
  <1> QED BY <1>1, Invariant, PTL

(* 431 and 400 are for heads that are too large or malformed, never for    *)
(* what a request before has left behind or the end of its own payload.    *)
THEOREM RefusalsRight == Spec => []RefusedRightly
  <1>1. IInv => RefusedRightly
    BY DEF IInv
  <1> QED BY <1>1, Invariant, PTL

(* read_payload hands the handler its own payload, in order and once.      *)
THEOREM PayloadSeen == Spec => []HandlerSeesPayload
  <1>1. IInv => HandlerSeesPayload
    BY DEF IInv
  <1> QED BY <1>1, Invariant, PTL
=============================================================================
