------------------------------- MODULE Buffer -------------------------------
(***************************************************************************)
(* The response body: a malloc'd buffer that append and appendf grow and   *)
(* that is reset between transactions.                                     *)
(*                                                                         *)
(* The cells of mem are those that were allocated; the i-th byte appended  *)
(* since the reset is written as i, and 0 is any other byte.  A write      *)
(* outside mem is undefined behaviour: sound becomes FALSE and nothing     *)
(* more is said of the buffer.                                             *)
(***************************************************************************)
EXTENDS Integers, Sequences, FiniteSetsExt

CONSTANTS Increment,   \* BUFFER_INCREMENT
          Initial,     \* HTTP_BUFSZ, the size given to init and reset
          Lengths,     \* of the texts appended
          MaxAsked     \* bound on the bytes appended in a transaction

ASSUME BufferAssumption ==
  /\ Increment \in Nat \ {0} /\ Initial \in Nat \ {0} /\ MaxAsked \in Nat
  /\ Lengths \subseteq Nat \ {0}

VARIABLES mem, len, max,
          ret,         (* of the last call                                 *)
          sound,       (* no write has left mem                            *)
          asked,       (* bytes the calls since the reset asked to append  *)
          peak         (* the most asked in one transaction                *)
vars == <<mem, len, max, ret, sound, asked, peak>>

Cells(n) == [i \in 1 .. n |-> 0]

(* kitserv_buffer_init.                                                    *)
Init ==
  /\ mem = Cells(Initial) /\ max = Initial
  /\ len = 0 /\ ret = 0 /\ sound = TRUE /\ asked = 0 /\ peak = 0

-----------------------------------------------------------------------------
(* realloc to n bytes keeps what fits; the new maximum is counted apart.   *)
RoundedFault(n) == (n \div Increment) * Increment
Rounded(n) == (n \div Increment + 1) * Increment
Realloc(m, n) == [i \in 1 .. n |-> IF i <= Len(m) THEN m[i] ELSE 0]

(* kitserv_buffer_ensure_space: the ways it can leave the buffer.          *)
Space(n) ==
  IF len + n >= max
    THEN { [mem |-> Realloc(mem, n), max |-> Rounded(n), got |-> TRUE],
           [mem |-> mem, max |-> max, got |-> FALSE] }
    ELSE { [mem |-> mem, max |-> max, got |-> TRUE] }

(* The first n of the bytes from len on, and whether they lie in m.        *)
Written(m, n) == [i \in DOMAIN m |-> IF i \in len + 1 .. len + n THEN i ELSE m[i]]
Junk(m, n)    == [i \in DOMAIN m |-> IF i \in len + 1 .. len + n THEN 0 ELSE m[i]]
Inside(m, n)  == len + n <= Len(m)

Count(n) == asked' = asked + n /\ peak' = Max({peak, asked + n})

AppendedFault(n) ==
  \E s \in Space(n) :
    /\ mem' = Written(s.mem, n) /\ max' = s.max /\ len' = len + n
    /\ ret' = IF s.got THEN 0 ELSE -1
    /\ sound' = Inside(s.mem, n)
Appended(n) ==
  \E s \in Space(n) :
    /\ max' = s.max
    /\ IF s.got
         THEN mem' = Written(s.mem, n) /\ len' = len + n /\ ret' = 0 /\ sound' = Inside(s.mem, n)
         ELSE mem' = s.mem /\ len' = len /\ ret' = -1 /\ sound' = TRUE

(* kitserv_buffer_append.                                                  *)
BufferAppend(n) ==
  /\ sound /\ asked + n <= MaxAsked /\ Count(n) /\ Appended(n)

(* vsnprintf of n characters into room bytes of m: at most room - 1 of     *)
(* them and a NUL; a negative room becomes a size with no limit.           *)
Chars(n, room) == IF room < 0 \/ n < room THEN n ELSE room - 1
Touched(n, room) == IF room = 0 THEN 0 ELSE Chars(n, room) + 1
Format(m, n, room, ours) ==
  IF room = 0 THEN m
  ELSE LET nul == Junk(m, Touched(n, room))
       IN  IF ours THEN Written(nul, Chars(n, room)) ELSE nul

(* kitserv_buffer_appendva: the first attempt fits, or the text is         *)
(* formatted again after growing.  The second attempt reads a va_list that *)
(* the first has used up, so that what it formats may be any text.         *)
FormatFits(n) ==
  /\ n <= max - len
  /\ mem' = Format(mem, n, max - len, TRUE)
  /\ sound' = Inside(mem, Touched(n, max - len))
  /\ len' = len + n /\ ret' = 0 /\ UNCHANGED max

FormatAgain(n) ==
  /\ n > max - len
  /\ \E s \in Space(n), k \in Lengths, ours \in BOOLEAN :
       LET room == s.max - len
           first == Format(mem, n, max - len, TRUE)
           m == IF s.mem = mem THEN first ELSE Realloc(first, Len(s.mem))
       IN  /\ ours => k = n
           /\ mem' = Format(m, k, room, ours)
           /\ sound' = (Inside(mem, Touched(n, max - len)) /\ Inside(m, Touched(k, room)))
           /\ max' = s.max
           /\ IF k > room THEN len' = len /\ ret' = -1 ELSE len' = len + k /\ ret' = 0

BufferFormat(n) ==
  /\ sound /\ asked + n <= MaxAsked /\ Count(n)
  /\ FormatFits(n) \/ FormatAgain(n)

(* kitserv_buffer_reset, for the next transaction or by the endpoint.  The *)
(* bytes that stay are nobody's.                                           *)
ShrinkFault == max' = max /\ mem' = Cells(Len(mem)) /\ len' = len
Shrink ==
  /\ len' = 0
  /\ \/ max > Initial /\ max' = Initial /\ mem' = Cells(Initial)
     \/ max' = max /\ mem' = Cells(Len(mem))
BufferReset ==
  /\ sound /\ Shrink /\ asked' = 0 /\ ret' = 0 /\ UNCHANGED <<sound, peak>>

Next ==
  \/ \E n \in Lengths : BufferAppend(n) \/ BufferFormat(n)
  \/ BufferReset
Spec == Init /\ [][Next]_vars

-----------------------------------------------------------------------------
(* As long as no write has left the allocation, the length is within it    *)
(* and within the maximum the code believes in, which may be more or less, *)
(* and the body is never longer than what was asked for, also when a       *)
(* second attempt has formatted something else.                            *)
WithinBounds ==
  /\ {len, max, peak} \subseteq Nat /\ asked \in 0 .. MaxAsked /\ asked <= peak
  /\ ret \in {0, -1} /\ sound \in BOOLEAN /\ mem \in Seq(Nat)
  /\ sound => len <= Len(mem) /\ len <= max /\ len <= asked

Exact == \A i \in 1 .. len : i <= Len(mem) /\ mem[i] = i

(* While no transaction has asked for as much as the initial size, every   *)
(* body is what was appended, at its place, and the buffer never moves.    *)
SmallBodies ==
  peak < Initial => sound /\ Exact /\ len = asked /\ Len(mem) = Initial /\ max = Initial

(* A call that fails leaves the body as it was: "If failed, -1 is returned *)
(* and the buffer is unchanged" (buffer.h).                                *)
Body == SubSeq(mem, 1, len)
FailureUnchanged == [][ret' = -1 /\ sound' => len' = len /\ SubSeq(mem', 1, len) = Body]_vars

(* "Append n bytes from *elems to the buffer. Returns 0 if successful"     *)
(* (buffer.h): the bytes go into the buffer, wherever the limit of its old *)
(* allocation was.                                                         *)
AppendsInside == sound
=============================================================================
