---------------------------- MODULE BufferProofs ----------------------------
(***************************************************************************)
(* Proofs about Buffer, for any initial size, any increment and any texts: *)
(* the length stays inside the allocation as long as no write has left it, *)
(* small bodies are exact, and a call that fails leaves the body alone.    *)
(* WithinBounds and SmallBodies are inductive as they stand.               *)
(***************************************************************************)
EXTENDS Buffer, TLAPS

-----------------------------------------------------------------------------
(* Sequences of cells.                                                     *)

LEMMA CellsFacts ==
  ASSUME NEW n \in Nat
  PROVE  Cells(n) \in Seq(Nat) /\ Len(Cells(n)) = n
  BY DEF Cells

(* realloc gives n cells, the first of them as they were.                  *)
LEMMA ReallocFacts ==
  ASSUME NEW m \in Seq(Nat), NEW n \in Nat
  PROVE  /\ Realloc(m, n) \in Seq(Nat) /\ Len(Realloc(m, n)) = n
         /\ \A i \in 1 .. n : i <= Len(m) => Realloc(m, n)[i] = m[i]
  <1> DEFINE r == [i \in 1 .. n |-> IF i <= Len(m) THEN m[i] ELSE 0]
  <1>1. \A i \in 1 .. n : (IF i <= Len(m) THEN m[i] ELSE 0) \in Nat
    OBVIOUS
  <1>2. r \in [1 .. n -> Nat]
    BY <1>1
  <1>3. r \in Seq(Nat) /\ Len(r) = n
    BY <1>2
  <1>4. \A i \in 1 .. n : i <= Len(m) => r[i] = m[i]
    OBVIOUS
  <1> QED BY <1>3, <1>4 DEF Realloc

(* A write changes the cells it is told to and no length.                  *)
LEMMA WrittenFacts ==
  ASSUME NEW m \in Seq(Nat), NEW n, len \in Nat
  PROVE  /\ Written(m, n) \in Seq(Nat) /\ Len(Written(m, n)) = Len(m)
         /\ \A i \in 1 .. Len(m) :
              Written(m, n)[i] = IF i \in len + 1 .. len + n THEN i ELSE m[i]
  <1> DEFINE r == [i \in 1 .. Len(m) |-> IF i \in len + 1 .. len + n THEN i ELSE m[i]]
  <1>1. Len(m) \in Nat /\ DOMAIN m = 1 .. Len(m)
    OBVIOUS
  <1>2. \A i \in 1 .. Len(m) : (IF i \in len + 1 .. len + n THEN i ELSE m[i]) \in Nat
    OBVIOUS
  <1>3. r \in [1 .. Len(m) -> Nat]
    BY <1>2
  <1>4. r \in Seq(Nat) /\ Len(r) = Len(m)
    BY <1>1, <1>3
  <1> QED BY <1>1, <1>4 DEF Written

LEMMA JunkFacts ==
  ASSUME NEW m \in Seq(Nat), NEW n, len \in Nat
  PROVE  /\ Junk(m, n) \in Seq(Nat) /\ Len(Junk(m, n)) = Len(m)
         /\ \A i \in 1 .. Len(m) :
              Junk(m, n)[i] = IF i \in len + 1 .. len + n THEN 0 ELSE m[i]
  <1> DEFINE r == [i \in 1 .. Len(m) |-> IF i \in len + 1 .. len + n THEN 0 ELSE m[i]]
  <1>1. Len(m) \in Nat /\ DOMAIN m = 1 .. Len(m)
    OBVIOUS
  <1>2. \A i \in 1 .. Len(m) : (IF i \in len + 1 .. len + n THEN 0 ELSE m[i]) \in Nat
    OBVIOUS
  <1>3. r \in [1 .. Len(m) -> Nat]
    BY <1>2
  <1>4. r \in Seq(Nat) /\ Len(r) = Len(m)
    BY <1>1, <1>3
  <1> QED BY <1>1, <1>4 DEF Junk

(* vsnprintf writes behind the body only; text of its own that has room    *)
(* for its terminator is there in full.                                    *)
LEMMA FormatFacts ==
  ASSUME NEW m \in Seq(Nat), NEW n \in Nat, NEW room \in Int, NEW ours \in BOOLEAN,
         len \in Nat
  PROVE  /\ Format(m, n, room, ours) \in Seq(Nat)
         /\ Len(Format(m, n, room, ours)) = Len(m)
         /\ \A i \in 1 .. len : i <= Len(m) => Format(m, n, room, ours)[i] = m[i]
         /\ ours /\ n < room =>
              \A i \in len + 1 .. len + n : i <= Len(m) => Format(m, n, room, ours)[i] = i
  <1> DEFINE nul == Junk(m, Touched(n, room))
             txt == Written(nul, Chars(n, room))
  <1>1. CASE room = 0
    BY <1>1 DEF Format
  <1>2. CASE room # 0
    <2>1. /\ nul \in Seq(Nat) /\ Len(nul) = Len(m)
          /\ \A i \in 1 .. Len(m) :
               nul[i] = IF i \in len + 1 .. len + Touched(n, room) THEN 0 ELSE m[i]
      BY JunkFacts
    <2> HIDE DEF nul
    <2>2. /\ txt \in Seq(Nat) /\ Len(txt) = Len(m)
          /\ \A i \in 1 .. Len(m) :
               txt[i] = IF i \in len + 1 .. len + Chars(n, room) THEN i ELSE nul[i]
      BY <2>1, WrittenFacts
    <2> HIDE DEF txt
    <2>3. Format(m, n, room, ours) = IF ours THEN txt ELSE nul
      BY <1>2 DEF Format, txt, nul
    <2>4. \A i \in 1 .. len : i <= Len(m) => nul[i] = m[i] /\ txt[i] = m[i]
      <3>1. \A i \in 1 .. len : i <= Len(m) => i \in 1 .. Len(m)
        OBVIOUS
      <3>2. \A k : \A i \in 1 .. len : i \notin len + 1 .. len + k
        OBVIOUS
      <3> QED BY <2>1, <2>2, <3>1, <3>2
    <2>5. n < room => Chars(n, room) = n
      BY DEF Chars
    <2>6. n < room => \A i \in len + 1 .. len + n : i <= Len(m) => txt[i] = i
      BY <2>2, <2>5, SMTT(60)
    <2> QED BY <2>1, <2>2, <2>3, <2>4, <2>6
  <1> QED BY <1>1, <1>2

(* What vsnprintf touches, and where it must end.                          *)
LEMMA TouchedFacts ==
  ASSUME NEW n \in Nat \ {0}, NEW room \in Int
  PROVE  /\ Touched(n, room) \in Nat
         /\ n < room => Touched(n, room) = n + 1
         /\ n = room => Touched(n, room) = n
  BY DEF Touched, Chars

(* The maximum a growth records is beyond the new piece.                   *)
LEMMA RoundedFacts ==
  ASSUME NEW n \in Nat
  PROVE  Rounded(n) \in Nat /\ Rounded(n) > n
  <1>1. Increment \in Nat /\ Increment > 0
    BY BufferAssumption
  <1>2. n \div Increment \in Nat
    BY <1>1
  <1>3. (n \div Increment) * Increment + Increment > n
    BY <1>1, Z3
  <1>4. (n \div Increment + 1) * Increment = (n \div Increment) * Increment + Increment
    BY <1>1, <1>2, Z3
  <1>5. (n \div Increment) * Increment + Increment \in Nat
    BY <1>1, <1>2, Z3
  <1> QED BY <1>3, <1>4, <1>5 DEF Rounded

(* The ways kitserv_buffer_ensure_space can leave the buffer.              *)
LEMMA SpaceFacts ==
  ASSUME NEW n \in Nat, NEW s \in Space(n), mem \in Seq(Nat), max \in Nat, len \in Nat
  PROVE  /\ s.mem \in Seq(Nat) /\ s.max \in Nat /\ s.got \in BOOLEAN
         /\ len + n < max => s.got
         /\ \/ s.mem = mem /\ s.max = max /\ (s.got => len + n < max)
            \/ /\ s.got /\ s.mem = Realloc(mem, n) /\ s.max = Rounded(n)
               /\ Len(s.mem) = n /\ s.max > n /\ len + n >= max
  <1> DEFINE grown == [mem |-> Realloc(mem, n), max |-> Rounded(n), got |-> TRUE]
             failed == [mem |-> mem, max |-> max, got |-> FALSE]
             room == [mem |-> mem, max |-> max, got |-> TRUE]
  <1>1. /\ len + n >= max => s = grown \/ s = failed
        /\ ~ (len + n >= max) => s = room
    BY DEF Space
  <1>2. ~ (len + n >= max) <=> len + n < max
    OBVIOUS
  <1>3. /\ Realloc(mem, n) \in Seq(Nat) /\ Len(Realloc(mem, n)) = n
        /\ Rounded(n) \in Nat /\ Rounded(n) > n
    BY ReallocFacts, RoundedFacts
  <1>4. CASE len + n < max
    <2>1. s = room
      BY <1>1, <1>2, <1>4
    <2> QED BY <1>4, <2>1
  <1>5. CASE s = failed /\ len + n >= max
    BY <1>5
  <1>6. CASE s = grown /\ len + n >= max
    BY <1>3, <1>6
  <1> QED BY <1>1, <1>4, <1>5, <1>6

LEMMA LargerFacts ==
  ASSUME NEW a \in Nat, NEW b \in Nat
  PROVE  Max({a, b}) \in Nat /\ Max({a, b}) >= a /\ Max({a, b}) >= b
  <1> DEFINE S == {a, b}
  <1>1. \E x \in S : \A y \in S : x >= y
    OBVIOUS
  <1>2. Max(S) \in S /\ \A y \in S : Max(S) >= y
    BY <1>1 DEF Max
  <1> QED BY <1>2

-----------------------------------------------------------------------------
(* What each call does to the length and the allocation.                   *)

(* The count of what was asked for.                                        *)
LEMMA CountFacts ==
  ASSUME NEW n \in Nat, WithinBounds, asked + n <= MaxAsked, Count(n)
  PROVE  /\ asked' = asked + n /\ asked' \in 0 .. MaxAsked
         /\ peak' \in Nat /\ asked' <= peak' /\ peak <= peak'
  <1>1. asked + n \in Nat /\ peak \in Nat /\ MaxAsked \in Nat
    BY BufferAssumption DEF WithinBounds
  <1>2. asked' = asked + n /\ peak' = Max({peak, asked + n})
    BY DEF Count
  <1> QED BY <1>1, <1>2, LargerFacts

(* kitserv_buffer_append: the piece is copied behind the body, or nothing  *)
(* changes.                                                                *)
LEMMA AppendFacts ==
  ASSUME NEW n \in Nat \ {0}, WithinBounds, sound, Appended(n)
  PROVE  /\ mem' \in Seq(Nat) /\ len' \in Nat /\ max' \in Nat
         /\ ret' \in {0, -1} /\ sound' \in BOOLEAN
         /\ sound' => len' <= Len(mem') /\ len' <= max' /\ len' <= asked + n
         /\ ret' = -1 => len' = len /\ mem' = mem
         /\ len + n < max => /\ ret' = 0 /\ len' = len + n /\ max' = max
                             /\ mem' = Written(mem, n) /\ sound' = Inside(mem, n)
  <1>1. /\ mem \in Seq(Nat) /\ max \in Nat /\ len \in Nat /\ asked \in Nat
        /\ len <= Len(mem) /\ len <= max /\ len <= asked
    BY BufferAssumption DEF WithinBounds
  <1>2. PICK s \in Space(n) :
          /\ max' = s.max
          /\ IF s.got
               THEN /\ mem' = Written(s.mem, n) /\ len' = len + n /\ ret' = 0
                    /\ sound' = Inside(s.mem, n)
               ELSE mem' = s.mem /\ len' = len /\ ret' = -1 /\ sound' = TRUE
    BY DEF Appended
  <1>3. /\ s.mem \in Seq(Nat) /\ s.max \in Nat /\ s.got \in BOOLEAN
        /\ len + n < max => s.got
        /\ \/ s.mem = mem /\ s.max = max /\ (s.got => len + n < max)
           \/ Len(s.mem) = n /\ s.max > n /\ len + n >= max /\ s.got
    BY <1>1, SpaceFacts
  <1>4. CASE ~ s.got
    <2>1. mem' = mem /\ max' = max /\ len' = len /\ ret' = -1 /\ sound'
          /\ ~ (len + n < max)
      BY <1>2, <1>3, <1>4
    <2> QED BY <1>1, <2>1
  <1>5. CASE s.got
    <2>1. /\ Written(s.mem, n) \in Seq(Nat) /\ Len(Written(s.mem, n)) = Len(s.mem)
      BY <1>1, <1>3, WrittenFacts
    <2>2. /\ mem' = Written(s.mem, n) /\ len' = len + n /\ ret' = 0 /\ max' = s.max
          /\ sound' = Inside(s.mem, n)
      BY <1>2, <1>5
    <2>3. sound' => len + n <= Len(s.mem)
      BY <2>2 DEF Inside
    <2>4. len + n < max => s.mem = mem /\ s.max = max
      BY <1>1, <1>3
    <2>5. sound' => len + n <= s.max
      <3>1. CASE s.mem = mem /\ s.max = max /\ len + n < max
        BY <1>1, <3>1
      <3>2. CASE Len(s.mem) = n /\ s.max > n
        BY <1>1, <1>3, <2>3, <3>2
      <3> QED BY <1>3, <1>5, <3>1, <3>2
    <2>6. sound' \in BOOLEAN
      BY <2>2 DEF Inside
    <2> QED BY <1>1, <1>3, <2>1, <2>2, <2>3, <2>4, <2>5, <2>6
  <1> QED BY <1>3, <1>4, <1>5

(* kitserv_buffer_appendva: what is formatted never reaches the body.      *)
LEMMA FormatStep ==
  ASSUME NEW n \in Lengths, WithinBounds, sound, FormatFits(n) \/ FormatAgain(n)
  PROVE  /\ mem' \in Seq(Nat) /\ len' \in Nat /\ max' \in Nat
         /\ ret' \in {0, -1} /\ sound' \in BOOLEAN
         /\ sound' => len' <= Len(mem') /\ len' <= max' /\ len' <= asked + n
         /\ sound' => /\ len <= Len(mem')
                      /\ \A i \in 1 .. len : mem'[i] = mem[i]
         /\ ret' = -1 => len' = len
         /\ len + n < max => /\ ret' = 0 /\ len' = len + n /\ max' = max
                             /\ mem' = Format(mem, n, max - len, TRUE)
                             /\ sound' = Inside(mem, n + 1)
  <1>1. /\ mem \in Seq(Nat) /\ max \in Nat /\ len \in Nat /\ asked \in Nat
        /\ len <= Len(mem) /\ len <= max /\ len <= asked /\ Len(mem) \in Nat
    BY BufferAssumption DEF WithinBounds
  <1>2. n \in Nat \ {0} /\ max - len \in Nat
    BY <1>1, BufferAssumption
  <1>3. /\ len + n < max => n < max - len
        /\ n <= max - len => len + n <= max
    BY <1>1, <1>2
  <1> DEFINE first == Format(mem, n, max - len, TRUE)
  <1>4. /\ first \in Seq(Nat) /\ Len(first) = Len(mem)
        /\ \A i \in 1 .. len : first[i] = mem[i]
    <2>1. PICK room \in Int : room = max - len
      BY <1>2
    <2>2. /\ Format(mem, n, room, TRUE) \in Seq(Nat)
          /\ Len(Format(mem, n, room, TRUE)) = Len(mem)
          /\ \A i \in 1 .. len : i <= Len(mem) => Format(mem, n, room, TRUE)[i] = mem[i]
      BY <1>1, <1>2, FormatFacts, ZenonT(60)
    <2>3. \A i \in 1 .. len : i <= Len(mem)
      BY <1>1
    <2> QED BY <2>1, <2>2, <2>3
  <1> HIDE DEF first
  <1>5. CASE FormatFits(n)
    <2>1. /\ n <= max - len /\ mem' = first /\ len' = len + n /\ ret' = 0 /\ max' = max
          /\ sound' = Inside(mem, Touched(n, max - len))
      BY <1>5 DEF FormatFits, first
    <2>2. PICK t \in Nat : /\ t = Touched(n, max - len) /\ t >= n
                           /\ n < max - len => t = n + 1
      <3>1. PICK room \in Int : room = max - len
        BY <1>2
      <3>2. /\ Touched(n, room) \in Nat
            /\ n < room => Touched(n, room) = n + 1
            /\ n = room => Touched(n, room) = n
        BY <1>2, TouchedFacts
      <3>3. n < room \/ n = room
        BY <1>2, <2>1, <3>1
      <3> QED BY <1>2, <3>1, <3>2, <3>3
    <2>3. sound' = (len + t <= Len(mem))
      BY <2>1, <2>2 DEF Inside
    <2>4. sound' => len + n <= Len(mem)
      <3>1. len + t <= Len(mem) => len + n <= Len(mem)
        BY <1>1, <1>2, <2>2
      <3> QED BY <2>3, <3>1
    <2>5. len + n < max => sound' = Inside(mem, n + 1)
      BY <1>3, <2>1, <2>2
    <2>6. sound' \in BOOLEAN
      BY <2>3
    <2>7. /\ len' \in Nat /\ len' <= max' /\ len' <= asked + n
          /\ ret' \in {0, -1} /\ ret' # -1
      BY <1>1, <1>2, <1>3, <2>1
    <2>8. mem' \in Seq(Nat) /\ Len(mem') = Len(mem) /\ max' \in Nat
          /\ \A i \in 1 .. len : mem'[i] = mem[i]
      BY <1>1, <1>4, <2>1
    <2>9. len + n < max => /\ ret' = 0 /\ len' = len + n /\ max' = max
                           /\ mem' = Format(mem, n, max - len, TRUE)
      BY <2>1 DEF first
    <2> QED BY <1>1, <2>1, <2>4, <2>5, <2>6, <2>7, <2>8, <2>9
  <1>6. CASE FormatAgain(n)
    <2>1. PICK s \in Space(n), k \in Lengths, ours \in BOOLEAN :
            LET room == s.max - len
                m == IF s.mem = mem THEN first ELSE Realloc(first, Len(s.mem))
            IN  /\ mem' = Format(m, k, room, ours)
                /\ sound' = (Inside(mem, Touched(n, max - len)) /\ Inside(m, Touched(k, room)))
                /\ max' = s.max
                /\ IF k > room THEN len' = len /\ ret' = -1 ELSE len' = len + k /\ ret' = 0
      BY <1>6, ZenonT(60) DEF FormatAgain, first
    <2>2. n > max - len
      BY <1>6 DEF FormatAgain
    <2>3. /\ s.mem \in Seq(Nat) /\ s.max \in Nat
          /\ \/ s.mem = mem /\ s.max = max
             \/ Len(s.mem) = n /\ s.max > n
      BY <1>1, <1>2, SpaceFacts
    <2>4. PICK room \in Int : room = s.max - len
      BY <1>1, <2>3
    <2> DEFINE m == IF s.mem = mem THEN first ELSE Realloc(first, Len(s.mem))
    <2>5. Len(s.mem) \in Nat
      BY <2>3
    <2>6. /\ m \in Seq(Nat)
          /\ \A i \in 1 .. len : i <= Len(m) => m[i] = mem[i]
          /\ (s.mem = mem /\ s.max = max) \/ (Len(m) = n /\ s.max > n)
      <3>1. CASE s.mem = mem
        <4>1. m = first
          BY <3>1
        <4> HIDE DEF m
        <4> QED BY <1>1, <1>4, <2>3, <3>1, <4>1
      <3>2. CASE s.mem # mem
        <4>1. /\ Realloc(first, n) \in Seq(Nat) /\ Len(Realloc(first, n)) = n
              /\ \A i \in 1 .. n : i <= Len(first) => Realloc(first, n)[i] = first[i]
          BY <1>2, <1>4, ReallocFacts
        <4>2. m = Realloc(first, n) /\ Len(s.mem) = n /\ s.max > n
          BY <2>3, <3>2
        <4>3. \A i \in 1 .. len : i <= n => i \in 1 .. n /\ i <= Len(first)
          BY <1>1, <1>2, <1>4
        <4> HIDE DEF m
        <4> QED BY <1>4, <4>1, <4>2, <4>3
      <3> QED BY <3>1, <3>2
    <2>7. /\ mem' = Format(m, k, room, ours)
          /\ sound' = (Inside(mem, Touched(n, max - len)) /\ Inside(m, Touched(k, room)))
          /\ max' = s.max
          /\ k > room => len' = len /\ ret' = -1
          /\ ~ (k > room) => len' = len + k /\ ret' = 0
      BY <2>1, <2>4
    <2> HIDE DEF m
    <2>8. k \in Nat \ {0} /\ Len(m) \in Nat
      BY <2>6, BufferAssumption
    <2>9. /\ mem' \in Seq(Nat) /\ Len(mem') = Len(m)
          /\ \A i \in 1 .. len : i <= Len(m) => mem'[i] = m[i]
      <3>1. mem' = Format(m, k, room, ours) /\ k \in Nat /\ len \in Nat /\ room \in Int
            /\ ours \in BOOLEAN /\ m \in Seq(Nat)
        BY <1>1, <2>6, <2>7, <2>8, BufferAssumption
      <3>2. /\ Format(m, k, room, ours) \in Seq(Nat)
            /\ Len(Format(m, k, room, ours)) = Len(m)
            /\ \A i \in 1 .. len : i <= Len(m) => Format(m, k, room, ours)[i] = m[i]
        BY <3>1, FormatFacts, ZenonT(60)
      <3> QED BY <3>1, <3>2, Zenon
    <2>10. /\ Touched(k, room) \in Nat
           /\ ~ (k > room) => Touched(k, room) >= k
      <3>1. /\ Touched(k, room) \in Nat
            /\ k < room => Touched(k, room) = k + 1
            /\ k = room => Touched(k, room) = k
        BY <2>8, TouchedFacts
      <3>2. ~ (k > room) => k < room \/ k = room
        BY <2>8
      <3> QED BY <2>8, <3>1, <3>2
    <2>11. sound' => len + Touched(k, room) <= Len(m)
      BY <2>7 DEF Inside
    <2>12. sound' => len <= Len(m) /\ (~ (k > room) => len + k <= Len(m))
      BY <1>1, <2>8, <2>10, <2>11, SMTT(60)
    <2>13. sound' => \A i \in 1 .. len : mem'[i] = mem[i]
      <3>1. sound' => \A i \in 1 .. len : i <= Len(m)
        BY <1>1, <2>8, <2>12
      <3> QED BY <2>6, <2>9, <3>1
    <2>14. ~ (len + n < max)
      BY <1>3, <2>2, <1>1, <1>2
    <2>15. len' \in Nat /\ ret' \in {0, -1} /\ (ret' = -1 => len' = len)
      BY <1>1, <2>7, <2>8, SMTT(60)
    <2>16. sound' => len' <= Len(mem')
      BY <2>7, <2>9, <2>12
    <2>17. sound' => len' <= max' /\ len' <= asked + n
      <3>1. CASE k > room
        <4>1. len' = len /\ max' = s.max
          BY <2>7, <3>1
        <4>2. sound' => len <= s.max
          <5>1. CASE s.max = max
            BY <1>1, <5>1
          <5>2. CASE Len(m) = n /\ s.max > n
            BY <1>1, <1>2, <2>3, <2>12, <5>2
          <5> QED BY <2>6, <5>1, <5>2
        <4> QED BY <1>1, <1>2, <4>1, <4>2
      <3>2. CASE ~ (k > room)
        <4>1. len' = len + k /\ max' = s.max /\ k <= s.max - len
          BY <2>4, <2>7, <2>8, <3>2
        <4>2. sound' => k <= n
          <5>1. CASE s.max = max
            BY <1>1, <1>2, <2>2, <2>8, <4>1, <5>1
          <5>2. CASE Len(m) = n
            BY <1>1, <1>2, <2>8, <2>12, <3>2, <5>2
          <5> QED BY <2>6, <5>1, <5>2
        <4> QED BY <1>1, <1>2, <2>3, <2>8, <4>1, <4>2, SMTT(60)
      <3> QED BY <3>1, <3>2
    <2>18. sound' \in BOOLEAN
      BY <2>7 DEF Inside
    <2> QED BY <2>3, <2>7, <2>9, <2>12, <2>13, <2>14, <2>15, <2>16, <2>17, <2>18
  <1> QED BY <1>5, <1>6

-----------------------------------------------------------------------------
(* The invariants.                                                         *)

LEMMA InitWithin == Init => WithinBounds /\ SmallBodies
  <1> SUFFICES ASSUME Init PROVE WithinBounds /\ SmallBodies
    OBVIOUS
  <1>1. Initial \in Nat /\ MaxAsked \in Nat
    BY BufferAssumption
  <1>2. mem \in Seq(Nat) /\ Len(mem) = Initial
    BY <1>1, CellsFacts DEF Init
  <1> QED BY <1>1, <1>2 DEF Init, WithinBounds, SmallBodies, Exact

(* A call of the next transaction starts from an empty body.               *)
LEMMA ResetFacts ==
  ASSUME WithinBounds, BufferReset
  PROVE  /\ mem' \in Seq(Nat) /\ len' = 0 /\ max' \in Nat /\ asked' = 0 /\ ret' = 0
         /\ UNCHANGED <<sound, peak>> /\ sound
         /\ \/ max' = max /\ Len(mem') = Len(mem)
            \/ max > Initial
  <1>1. Len(mem) \in Nat /\ max \in Nat /\ Initial \in Nat
    BY BufferAssumption DEF WithinBounds
  <1>2. /\ Cells(Len(mem)) \in Seq(Nat) /\ Len(Cells(Len(mem))) = Len(mem)
        /\ Cells(Initial) \in Seq(Nat)
    BY <1>1, CellsFacts
  <1> QED BY <1>1, <1>2 DEF BufferReset, Shrink

LEMMA NextWithin == WithinBounds /\ [Next]_vars => WithinBounds'
  <1> SUFFICES ASSUME WithinBounds, [Next]_vars PROVE WithinBounds'
    OBVIOUS
  <1>1. ASSUME NEW n \in Lengths, BufferAppend(n) \/ BufferFormat(n)
        PROVE  WithinBounds'
    <2>1. /\ n \in Nat \ {0} /\ n \in Nat /\ sound /\ asked + n <= MaxAsked /\ Count(n)
          /\ Appended(n) \/ FormatFits(n) \/ FormatAgain(n)
      BY <1>1, BufferAssumption DEF BufferAppend, BufferFormat
    <2>2. /\ mem' \in Seq(Nat) /\ len' \in Nat /\ max' \in Nat
          /\ ret' \in {0, -1} /\ sound' \in BOOLEAN
          /\ sound' => len' <= Len(mem') /\ len' <= max' /\ len' <= asked + n
      BY <2>1, AppendFacts, FormatStep
    <2>3. /\ asked' = asked + n /\ asked' \in 0 .. MaxAsked
          /\ peak' \in Nat /\ asked' <= peak'
      BY <2>1, CountFacts
    <2> QED BY <2>2, <2>3 DEF WithinBounds
  <1>2. CASE BufferReset
    <2>1. /\ mem' \in Seq(Nat) /\ len' = 0 /\ max' \in Nat /\ asked' = 0 /\ ret' = 0
          /\ UNCHANGED <<sound, peak>>
      BY <1>2, ResetFacts
    <2>2. Len(mem') \in Nat /\ MaxAsked \in Nat
      BY <2>1, BufferAssumption
    <2> QED BY <2>1, <2>2 DEF WithinBounds
  <1>3. CASE UNCHANGED vars
    BY <1>3 DEF vars, WithinBounds
  <1> QED BY <1>1, <1>2, <1>3 DEF Next

(* Below the initial size no call grows the buffer, and each writes its    *)
(* piece, with the terminator, where the body ends.                        *)
LEMMA NextSmall == WithinBounds /\ SmallBodies /\ [Next]_vars => SmallBodies'
  <1> SUFFICES ASSUME WithinBounds, SmallBodies, [Next]_vars, peak' < Initial
               PROVE  sound' /\ Exact' /\ len' = asked' /\ Len(mem') = Initial /\ max' = Initial
    BY DEF SmallBodies
  <1>1. /\ mem \in Seq(Nat) /\ {len, max, peak, asked} \subseteq Nat /\ Len(mem) \in Nat
        /\ Initial \in Nat
    BY BufferAssumption DEF WithinBounds
  <1>2. ASSUME NEW n \in Lengths, BufferAppend(n) \/ BufferFormat(n)
        PROVE  sound' /\ Exact' /\ len' = asked' /\ Len(mem') = Initial /\ max' = Initial
    <2>1. /\ n \in Nat \ {0} /\ n \in Nat /\ sound /\ asked + n <= MaxAsked /\ Count(n)
          /\ Appended(n) \/ FormatFits(n) \/ FormatAgain(n)
      BY <1>2, BufferAssumption DEF BufferAppend, BufferFormat
    <2>2. asked' = asked + n /\ asked' <= peak' /\ peak <= peak' /\ peak' \in Nat
      BY <2>1, CountFacts
    <2>3. peak < Initial /\ asked + n < Initial
      BY <1>1, <2>1, <2>2, SMTT(60)
    <2>4. Exact /\ len = asked /\ Len(mem) = Initial /\ max = Initial
      BY <2>3 DEF SmallBodies
    <2>5. len + n < max /\ n < max - len
      BY <1>1, <2>1, <2>3, <2>4
    <2>6. /\ mem' \in Seq(Nat) /\ Len(mem') = Len(mem)
          /\ \A i \in 1 .. len : mem'[i] = mem[i]
          /\ \A i \in len + 1 .. len + n : mem'[i] = i
          /\ len' = len + n /\ max' = max /\ sound'
      <3>1. CASE Appended(n)
        <4>1. /\ len' = len + n /\ max' = max /\ mem' = Written(mem, n)
              /\ sound' = Inside(mem, n)
          BY <2>1, <2>5, <3>1, AppendFacts
        <4>2. /\ mem' \in Seq(Nat) /\ Len(mem') = Len(mem)
              /\ \A i \in 1 .. Len(mem) :
                   mem'[i] = IF i \in len + 1 .. len + n THEN i ELSE mem[i]
          BY <1>1, <2>1, <4>1, WrittenFacts
        <4>3. /\ \A i \in 1 .. len : i \in 1 .. Len(mem) /\ i \notin len + 1 .. len + n
              /\ \A i \in len + 1 .. len + n : i \in 1 .. Len(mem)
          BY <1>1, <2>1, <2>4, <2>5, SMTT(60)
        <4>4. Inside(mem, n)
          BY <1>1, <2>1, <2>4, <2>5 DEF Inside
        <4> QED BY <4>1, <4>2, <4>3, <4>4
      <3>2. CASE FormatFits(n) \/ FormatAgain(n)
        <4>1. /\ len' = len + n /\ max' = max /\ mem' = Format(mem, n, max - len, TRUE)
              /\ sound' = Inside(mem, n + 1)
          BY <2>1, <2>5, <3>2, FormatStep
        <4>2. PICK room \in Int : room = max - len
          BY <1>1
        <4>3. /\ Format(mem, n, room, TRUE) \in Seq(Nat)
              /\ Len(Format(mem, n, room, TRUE)) = Len(mem)
              /\ \A i \in 1 .. len : i <= Len(mem) => Format(mem, n, room, TRUE)[i] = mem[i]
              /\ n < room => \A i \in len + 1 .. len + n :
                               i <= Len(mem) => Format(mem, n, room, TRUE)[i] = i
          BY <1>1, <2>1, FormatFacts, ZenonT(60)
        <4>4. /\ \A i \in 1 .. len : i <= Len(mem)
              /\ \A i \in len + 1 .. len + n : i <= Len(mem)
          BY <1>1, <2>1, <2>4, <2>5, SMTT(60)
        <4>5. Inside(mem, n + 1)
          BY <1>1, <2>1, <2>4, <2>5 DEF Inside
        <4> QED BY <2>5, <4>1, <4>2, <4>3, <4>4, <4>5
      <3> QED BY <2>1, <3>1, <3>2
    <2>7. Exact'
      <3> SUFFICES ASSUME NEW i \in 1 .. len + n
                   PROVE  i <= Len(mem') /\ mem'[i] = i
        BY <2>6 DEF Exact
      <3>1. i \in 1 .. len \/ i \in len + 1 .. len + n
        BY <1>1, <2>1
      <3>2. i <= Len(mem)
        BY <1>1, <2>1, <2>4, <2>5
      <3> QED BY <2>4, <2>6, <3>1, <3>2 DEF Exact
    <2> QED BY <2>2, <2>4, <2>6, <2>7
  <1>3. CASE BufferReset
    <2>1. /\ mem' \in Seq(Nat) /\ len' = 0 /\ asked' = 0
          /\ UNCHANGED <<sound, peak>> /\ sound
          /\ (max' = max /\ Len(mem') = Len(mem)) \/ max > Initial
      BY <1>3, ResetFacts
    <2>2. Len(mem) = Initial /\ max = Initial
      BY <2>1 DEF SmallBodies
    <2>3. max' = Initial /\ Len(mem') = Initial
      BY <1>1, <2>1, <2>2
    <2>4. Exact'
      BY <2>1 DEF Exact
    <2> QED BY <2>1, <2>3, <2>4
  <1>4. CASE UNCHANGED vars
    BY <1>4 DEF vars, SmallBodies, Exact
  <1> QED BY <1>2, <1>3, <1>4 DEF Next

(* The length of a body never leaves the allocation, nor the maximum the   *)
(* code believes in, nor what was asked for, until a write has left the    *)
(* allocation (kitserv_buffer_ensure_space, kitserv_buffer_appendva).      *)
THEOREM LengthsWithin == Spec => []WithinBounds
  BY InitWithin, NextWithin, PTL DEF Spec

(* A body smaller than the initial size is what was appended, byte for     *)
(* byte and in order (kitserv_buffer_append, kitserv_buffer_appendf).      *)
THEOREM SmallBodiesExact == Spec => []SmallBodies
  BY InitWithin, NextWithin, NextSmall, PTL DEF Spec

(* A call that returns -1 leaves the body as it was, also when it grew the *)
(* buffer and formatted into it.                                           *)
THEOREM FailureHarmless == Spec => FailureUnchanged
  <1>1. ASSUME WithinBounds, [Next]_vars
        PROVE  [ret' = -1 /\ sound' => len' = len /\ SubSeq(mem', 1, len) = Body]_vars
    <2> SUFFICES ASSUME Next, ret' = -1, sound'
                 PROVE  len' = len /\ SubSeq(mem', 1, len) = Body
      BY <1>1
    <2>1. ~ BufferReset
      BY DEF BufferReset
    <2>2. PICK n \in Lengths : BufferAppend(n) \/ BufferFormat(n)
      BY <2>1 DEF Next
    <2>3. /\ n \in Nat \ {0} /\ sound
          /\ Appended(n) \/ FormatFits(n) \/ FormatAgain(n)
      BY <2>2, BufferAssumption DEF BufferAppend, BufferFormat
    <2>4. mem \in Seq(Nat) /\ len \in Nat /\ len <= Len(mem)
      BY <1>1, <2>3 DEF WithinBounds
    <2>5. /\ mem' \in Seq(Nat) /\ len' = len /\ len <= Len(mem')
          /\ \A i \in 1 .. len : mem'[i] = mem[i]
      BY <1>1, <2>3, <2>4, AppendFacts, FormatStep
    <2>6. SubSeq(mem', 1, len) = SubSeq(mem, 1, len)
      <3>1. /\ SubSeq(mem', 1, len) = [i \in 1 .. len |-> mem'[i]]
            /\ SubSeq(mem, 1, len) = [i \in 1 .. len |-> mem[i]]
        BY <2>4, <2>5
      <3> QED BY <2>5, <3>1
    <2> QED BY <2>5, <2>6 DEF Body
  <1> QED BY <1>1, LengthsWithin, PTL DEF Spec, FailureUnchanged
=============================================================================
