--------------------------- MODULE ResponseProofs ---------------------------
(***************************************************************************)
(* What kitserv_http_prepare_response makes of any transaction: which      *)
(* fields of a response survive it, which descriptor it closes, and when   *)
(* the status that was set is the one that is sent.  First the two facts   *)
(* about numbers on which the proofs about connections and transactions    *)
(* rest as well.                                                           *)
(***************************************************************************)
EXTENDS Response, FiniteSetTheorems, TLAPS

-----------------------------------------------------------------------------
(* Numbers.  A set of naturals has a least element, and one that holds 0   *)
(* and every successor holds all of them.                                  *)
LEMMA LeastNatural ==
  ASSUME NEW T, T \subseteq Nat, T # {}
  PROVE  \E x \in T : \A y \in T : x <= y
  <1> DEFINE Upto(n) == 0 .. n
             C == {Upto(n) : n \in T}
             R == StrictSubsetOrdering(Nat)
  <1>1. C \subseteq FiniteSubsetsOf(Nat) /\ C # {}
    <2>1. \A n \in T : IsFiniteSet(0 .. n) /\ 0 .. n \subseteq Nat
      BY FS_Interval
    <2> QED BY <2>1 DEF FiniteSubsetsOf
  <1>2. PICK s \in C : \A t \in C : ~ (<<t, s>> \in R)
    <2>1. IsWellFoundedOn(R, FiniteSubsetsOf(Nat))
      BY FS_StrictSubsetOrderingWellFounded
    <2> HIDE DEF R, C
    <2> QED BY <1>1, <2>1, WFMin
  <1>3. PICK x \in T : s = Upto(x)
    OBVIOUS
  <1>4. ASSUME NEW y \in T, y < x PROVE FALSE
    <2>1. Upto(y) \in SUBSET Nat /\ Upto(x) \in SUBSET Nat
      OBVIOUS
    <2>2. Upto(y) \subseteq Upto(x) /\ x \in Upto(x) /\ x \notin Upto(y)
      BY <1>4
    <2>3. <<Upto(y), Upto(x)>> \in R
      BY <2>1, <2>2 DEF StrictSubsetOrdering
    <2> QED BY <1>2, <1>3, <2>3
  <1> QED BY <1>4

LEMMA Induction ==
  ASSUME NEW P, 0 \in P, \A n \in Nat : n \in P => n + 1 \in P
  PROVE  Nat \subseteq P
  <1> DEFINE T == Nat \ P
  <1>1. ASSUME T # {} PROVE FALSE
    <2>1. PICK x \in T : \A y \in T : x <= y
      BY <1>1, LeastNatural
    <2>2. x # 0 /\ x - 1 \in Nat
      OBVIOUS
    <2>3. x - 1 \in P
      BY <2>1, <2>2
    <2> QED BY <2>2, <2>3
  <1> QED BY <1>1

-----------------------------------------------------------------------------
(* A status line, a header or a wiped buffer leaves a response a response. *)
LEMMA HeaderAddFacts ==
  ASSUME NEW t \in ResponseRecord
  PROVE  LET u == HeaderAdd(t)
         IN  /\ u \in ResponseRecord
             /\ u.fd = t.fd /\ u.pos = t.pos /\ u.end = t.end /\ u.body = t.body
             /\ u.keepHeaders = t.keepHeaders /\ u.keepBody = t.keepBody
             /\ Room(t) > 0 => u.hdrs = t.hdrs + 1 /\ u.status = t.status
             /\ ~ (Room(t) > 0) => u.hdrs = t.hdrs /\ u.status = Insufficient
  BY HeaderAssumption DEF ResponseRecord, HeaderAdd, Room, Insufficient

LEMMA WipedFacts ==
  ASSUME NEW t \in ResponseRecord
  PROVE  LET u == Wiped(t)
         IN  /\ u \in ResponseRecord
             /\ u.status = t.status /\ u.pos = 0 /\ u.body = 0
             /\ u.fd = IF t.fd > 0 THEN FdDisable ELSE t.fd
             /\ u.hdrs = ErrorHeaders(t)
             /\ u.keepHeaders = t.keepHeaders /\ u.keepBody = t.keepBody
  <1>1. ErrorHeaders(t) \in 0 .. MaxHeaders
    <2>1. MaxHeaders \in Nat /\ MaxHeaders >= 1 /\ t.hdrs \in 0 .. MaxHeaders
      BY HeaderAssumption DEF ResponseRecord
    <2>2. CASE t.keepHeaders
      BY <2>1, <2>2 DEF ErrorHeaders
    <2>3. CASE ~ t.keepHeaders /\ t.status = NotAllowed
      BY <2>1, <2>3 DEF ErrorHeaders
    <2>4. CASE ~ t.keepHeaders /\ t.status # NotAllowed
      BY <2>1, <2>4 DEF ErrorHeaders
    <2> QED BY <2>2, <2>3, <2>4
  <1> DEFINE s == [t EXCEPT !.hdrs = ErrorHeaders(t), !.body = 0]
             u == [s EXCEPT !.pos = 0, !.end = 0]
             fd == IF t.fd > 0 THEN FdDisable ELSE t.fd
  <1>2. /\ s \in ResponseRecord
        /\ s.hdrs = ErrorHeaders(t) /\ s.body = 0 /\ s.status = t.status /\ s.fd = t.fd
        /\ s.keepHeaders = t.keepHeaders /\ s.keepBody = t.keepBody
    BY <1>1 DEF ResponseRecord
  <1>3. Wiped(t) = [u EXCEPT !.fd = IF @ > 0 THEN FdDisable ELSE @]
    BY Zenon DEF Wiped
  <1> HIDE DEF s
  <1>4. /\ u \in ResponseRecord
        /\ u.hdrs = ErrorHeaders(t) /\ u.body = 0 /\ u.status = t.status /\ u.fd = t.fd
        /\ u.pos = 0
        /\ u.keepHeaders = t.keepHeaders /\ u.keepBody = t.keepBody
    <2> DEFINE v == [s EXCEPT !.pos = 0]
    <2>1. v \in ResponseRecord /\ v.pos = 0 /\ v.hdrs = s.hdrs /\ v.body = s.body
          /\ v.status = s.status /\ v.fd = s.fd
          /\ v.keepHeaders = s.keepHeaders /\ v.keepBody = s.keepBody
      BY <1>2 DEF ResponseRecord
    <2>2. u = [v EXCEPT !.end = 0]
      BY Zenon
    <2> HIDE DEF u, v
    <2> QED BY <1>2, <2>1, <2>2 DEF ResponseRecord
  <1> HIDE DEF u
  <1> QED BY <1>3, <1>4 DEF ResponseRecord, FdDisable

LEMMA OverflowFacts ==
  ASSUME NEW t \in ResponseRecord, ~ Fits(t)
  PROVE  LET u == Overflow(t)
         IN  /\ u \in ResponseRecord
             /\ u.pos = t.pos /\ u.end = t.end /\ u.body = t.body
             /\ u.keepHeaders = t.keepHeaders /\ u.keepBody = t.keepBody
             /\ Room(t) = 2 => u.status = t.status /\ u.fd = Insufficient
             /\ Room(t) # 2 => u.status = Insufficient /\ u.fd = t.fd
             /\ u.hdrs = MaxHeaders
  <1>1. t.hdrs \in 0 .. MaxHeaders /\ MaxHeaders \in Nat /\ Room(t) = MaxHeaders - t.hdrs
    BY HeaderAssumption DEF ResponseRecord, Room
  <1>2. CASE Room(t) = 2
    <2>1. Overflow(t) = [t EXCEPT !.hdrs = @ + 2, !.fd = Insufficient]
      BY <1>2 DEF Overflow
    <2>2. t.hdrs + 2 \in 0 .. MaxHeaders /\ t.hdrs + 2 = MaxHeaders
      BY <1>1, <1>2
    <2>3. [t EXCEPT !.hdrs = @ + 2] = [t EXCEPT !.hdrs = t.hdrs + 2]
      OBVIOUS
    <2> DEFINE s == [t EXCEPT !.hdrs = t.hdrs + 2]
    <2>4. /\ s \in ResponseRecord
          /\ s.hdrs = t.hdrs + 2 /\ s.status = t.status
          /\ s.pos = t.pos /\ s.end = t.end /\ s.body = t.body
          /\ s.keepHeaders = t.keepHeaders /\ s.keepBody = t.keepBody
      BY <2>2 DEF ResponseRecord
    <2>5. Overflow(t) = [s EXCEPT !.fd = Insufficient]
      BY <2>1, <2>3
    <2> HIDE DEF s
    <2> QED BY <1>2, <2>2, <2>4, <2>5 DEF ResponseRecord, Insufficient
  <1>3. CASE Room(t) = 1
    <2> DEFINE u == HeaderAdd(t)
    <2>1. Overflow(t) = HeaderAdd(u)
      BY <1>3 DEF Overflow
    <2>2. /\ u \in ResponseRecord /\ u.hdrs = t.hdrs + 1 /\ u.fd = t.fd
          /\ u.pos = t.pos /\ u.end = t.end /\ u.body = t.body
          /\ u.keepHeaders = t.keepHeaders /\ u.keepBody = t.keepBody
      BY <1>3, HeaderAddFacts
    <2>3. ~ (Room(u) > 0)
      BY <1>1, <1>3, <2>2 DEF Room
    <2> HIDE DEF u
    <2> QED BY <1>1, <1>3, <2>1, <2>2, <2>3, HeaderAddFacts
  <1>4. CASE Room(t) \notin {1, 2}
    <2>1. Overflow(t) = HeaderAdd(t)
      BY <1>4 DEF Overflow
    <2>2. ~ (Room(t) > 0)
      BY <1>1, <1>4 DEF Fits
    <2> QED BY <1>1, <1>4, <2>1, <2>2, HeaderAddFacts
  <1> QED BY <1>2, <1>3, <1>4

LEMMA LayOutFacts ==
  ASSUME NEW t \in ResponseRecord, t.pos = 0, Fits(t), NEW method
  PROVE  LET u == LayOut(t, method)
         IN  /\ u \in ResponseRecord
             /\ u.status = t.status /\ u.fd = t.fd /\ u.pos = 0 /\ u.end = t.end
             /\ u.bufs[1].len = StartLen
  <1>1. /\ t.hdrs \in 0 .. MaxHeaders /\ MaxHeaders \in Nat /\ Room(t) = MaxHeaders - t.hdrs
        /\ t.body \in Nat /\ t.end \in Int /\ t.hdrs + 3 <= MaxHeaders /\ t.pos \in Nat
    BY HeaderAssumption DEF ResponseRecord, Room, Fits
  <1> DEFINE full == [t EXCEPT !.hdrs = @ + 3, !.length = ContentLength(t)]
  <1>2. ContentLength(t) \in Int
    BY <1>1 DEF ContentLength
  <1>3. /\ full \in ResponseRecord /\ full.status = t.status /\ full.fd = t.fd
        /\ full.pos = 0 /\ full.end = t.end /\ full.hdrs \in Nat /\ full.body \in Nat
    <2> DEFINE s == [t EXCEPT !.hdrs = @ + 3]
    <2>1. /\ s \in ResponseRecord /\ s.status = t.status /\ s.fd = t.fd
          /\ s.pos = 0 /\ s.end = t.end /\ s.body = t.body
      BY <1>1 DEF ResponseRecord
    <2>2. full = [s EXCEPT !.length = ContentLength(t)]
      OBVIOUS
    <2> HIDE DEF s, full
    <2> QED BY <1>2, <2>1, <2>2 DEF ResponseRecord
  <1> HIDE DEF full
  <1>4. /\ Buffers(full, method) \in [1 .. 3 -> [base : Nat, len : Nat]]
        /\ Buffers(full, method)[1].len = StartLen
    BY <1>3 DEF Buffers, NoBuf, StartLen
  <1>5. LayOut(t, method) = [full EXCEPT !.bufs = Buffers(full, method)]
    BY DEF LayOut, full
  <1> QED BY <1>3, <1>4, <1>5 DEF ResponseRecord

LEMMA CannedFacts ==
  ASSUME NEW t \in ResponseRecord, Room(Wiped(t)) > 0
  PROVE  LET u == Canned(t)
         IN  /\ u \in ResponseRecord
             /\ u.status = t.status /\ u.pos = 0
             /\ u.fd = IF t.fd > 0 THEN FdDisable ELSE t.fd
             /\ u.hdrs = ErrorHeaders(t) + 1
  <1> DEFINE s == HeaderAdd(Wiped(t))
  <1>1. /\ s \in ResponseRecord /\ s.status = t.status /\ s.pos = 0
        /\ s.fd = IF t.fd > 0 THEN FdDisable ELSE t.fd
        /\ s.hdrs = ErrorHeaders(t) + 1
    <2> DEFINE w == Wiped(t)
    <2>1. /\ w \in ResponseRecord /\ w.status = t.status /\ w.pos = 0
          /\ w.fd = IF t.fd > 0 THEN FdDisable ELSE t.fd
          /\ w.hdrs = ErrorHeaders(t) /\ Room(w) > 0
      BY WipedFacts
    <2> HIDE DEF w
    <2>2. /\ HeaderAdd(w) \in ResponseRecord /\ HeaderAdd(w).status = w.status
          /\ HeaderAdd(w).pos = w.pos /\ HeaderAdd(w).fd = w.fd
          /\ HeaderAdd(w).hdrs = w.hdrs + 1
      BY <2>1, HeaderAddFacts
    <2> QED BY <2>1, <2>2 DEF w
  <1>2. Canned(t) = [s EXCEPT !.body = CannedLen]
    BY DEF Canned
  <1> HIDE DEF s
  <1> QED BY <1>1, <1>2 DEF ResponseRecord, CannedLen

(* The error path.                                                         *)
LEMMA PrepareErrorFacts ==
  ASSUME NEW t \in ResponseRecord, t.pos = 0, NEW method
  PROVE  LET r == PrepareError(t, method)
         IN  /\ r.rc \in {0, -1} /\ r.ta \in ResponseRecord
             /\ r.closes = Closes(t) /\ r.ta.status \in {t.status, Insufficient}
             /\ r.rc = 0 =>
                  /\ r.ta.status = t.status /\ r.ta.pos = 0 /\ r.ta.bufs[1].len = StartLen
                  /\ t.keepBody => Fits(t) /\ r.ta.fd = t.fd /\ r.ta.end = t.end
                  /\ ~ t.keepBody => /\ r.ta.fd = IF t.fd > 0 THEN FdDisable ELSE t.fd
                                     /\ ErrorHeaders(t) + 4 <= MaxHeaders
  <1> DEFINE w == Wiped(t)
             e == ErrorResponse(t)
             r == PrepareError(t, method)
  <1>1. w \in ResponseRecord /\ w.status = t.status
    BY WipedFacts
  <1>2. CASE ~ CanCan(t)
    <2>1. r = Dropped(HeaderAdd(w), Closes(t))
      BY <1>2 DEF PrepareError
    <2> HIDE DEF w
    <2>2. HeaderAdd(w) \in ResponseRecord /\ HeaderAdd(w).status \in {t.status, Insufficient}
      BY <1>1, HeaderAddFacts
    <2> QED BY <2>1, <2>2 DEF Dropped
  <1>3. ASSUME CanCan(t)
        PROVE  /\ e \in ResponseRecord /\ e.status = t.status /\ e.pos = 0
               /\ t.keepBody => e = t
               /\ ~ t.keepBody => /\ e.fd = IF t.fd > 0 THEN FdDisable ELSE t.fd
                                  /\ e.hdrs = ErrorHeaders(t) + 1
    <2>1. CASE t.keepBody
      BY <2>1 DEF ErrorResponse
    <2>2. CASE ~ t.keepBody
      <3>1. e = Canned(t) /\ Room(Wiped(t)) > 0
        BY <1>3, <2>2 DEF ErrorResponse, CanCan
      <3> HIDE DEF e
      <3> QED BY <2>2, <3>1, CannedFacts
    <2> QED BY <2>1, <2>2
  <1>4. CASE CanCan(t) /\ Fits(e)
    <2>1. r = Prepared(e, Closes(t), method)
      BY <1>4 DEF PrepareError
    <2> HIDE DEF e
    <2>2. LET u == LayOut(e, method)
          IN  /\ u \in ResponseRecord /\ u.status = e.status /\ u.fd = e.fd /\ u.pos = 0
              /\ u.end = e.end /\ u.bufs[1].len = StartLen
      BY <1>3, <1>4, LayOutFacts
    <2>3. ~ t.keepBody => ErrorHeaders(t) + 4 <= MaxHeaders
      <3>1. e.hdrs \in Nat /\ MaxHeaders \in Nat /\ MaxHeaders - e.hdrs >= 3
        BY <1>3, <1>4, HeaderAssumption DEF ResponseRecord, Fits, Room
      <3>2. ErrorHeaders(t) \in Nat
        BY WipedFacts, <1>1 DEF ResponseRecord
      <3> QED BY <1>3, <1>4, <3>1, <3>2
    <2> QED BY <1>3, <1>4, <2>1, <2>2, <2>3 DEF Prepared
  <1>5. CASE CanCan(t) /\ ~ Fits(e)
    <2>1. r = Dropped(Overflow(e), Closes(t))
      BY <1>5 DEF PrepareError
    <2> HIDE DEF e
    <2>2. Overflow(e) \in ResponseRecord /\ Overflow(e).status \in {t.status, Insufficient}
      BY <1>3, <1>5, OverflowFacts
    <2> QED BY <2>1, <2>2 DEF Dropped
  <1> QED BY <1>2, <1>4, <1>5

(* A response that is laid out begins with its status line.  Its status,   *)
(* when it is no error, is the one that was set; its descriptor, when it   *)
(* has one, was set before and is not closed; and only the blank line that *)
(* does not fit makes it forget one that it does not close.                *)
LEMMA PrepareFacts ==
  ASSUME NEW t \in ResponseRecord, t.pos = 0, NEW method
  PROVE  LET r == PrepareResponse(t, method)
             tight == MaxHeaders - t.hdrs = 2
         IN  /\ r.rc \in {0, -1} /\ r.ta \in ResponseRecord
             /\ r.ta.status \in {t.status, Insufficient}
             /\ r.rc = 0 =>
                  /\ r.ta.pos = 0 /\ r.ta.bufs[1].len = StartLen
                  /\ r.ta.fd > 0 => /\ r.ta.fd = t.fd /\ r.ta.end = t.end /\ r.closes = {}
                                    /\ t.fd > 0
                  /\ t.fd > 0 => \/ r.ta.fd = t.fd \/ t.fd \in r.closes
                                 \/ tight /\ ~ StatusIsError(t.status)
                  /\ ~ StatusIsError(r.ta.status) =>
                       /\ r.ta.status = t.status /\ t.status # HANGUP
                       /\ t.hdrs + 3 > MaxHeaders =>
                            tight /\ ~ t.keepHeaders /\ ~ t.keepBody /\ MaxHeaders >= 4
             /\ t.status = HANGUP => r.rc = -1
  <1> DEFINE r == PrepareResponse(t, method)
  <1>1. /\ t.status \in Nat /\ t.fd \in Int /\ t.hdrs \in 0 .. MaxHeaders /\ MaxHeaders \in Nat
        /\ Room(t) = MaxHeaders - t.hdrs /\ (Fits(t) <=> MaxHeaders - t.hdrs >= 3)
    BY HeaderAssumption DEF ResponseRecord, Room, Fits
  <1>2. CASE t.status = HANGUP
    <2>1. ~ StatusIsError(t.status)
      BY <1>2 DEF StatusIsError, HANGUP
    <2>2. r = Dropped(t, {})
      BY <1>2, <2>1 DEF PrepareResponse
    <2> HIDE DEF r
    <2>3. r.rc = -1 /\ r.ta = t
      BY <2>2 DEF Dropped
    <2> QED BY <1>1, <1>2, <2>1, <2>3 DEF r
  <1>3. CASE t.status # HANGUP /\ StatusIsError(t.status)
    <2>1. r = PrepareError(t, method)
      BY <1>3 DEF PrepareResponse
    <2> HIDE DEF r
    <2>2. /\ r.rc \in {0, -1} /\ r.ta \in ResponseRecord
          /\ r.closes = Closes(t) /\ r.ta.status \in {t.status, Insufficient}
          /\ r.rc = 0 =>
               /\ r.ta.status = t.status /\ r.ta.pos = 0 /\ r.ta.bufs[1].len = StartLen
               /\ t.keepBody => Fits(t) /\ r.ta.fd = t.fd /\ r.ta.end = t.end
               /\ ~ t.keepBody => r.ta.fd = IF t.fd > 0 THEN FdDisable ELSE t.fd
      BY <2>1, PrepareErrorFacts
    <2>3. Closes(t) = IF ~ t.keepBody /\ t.fd > 0 THEN {t.fd} ELSE {}
      BY DEF Closes
    <2> QED BY <1>1, <1>3, <2>2, <2>3 DEF FdDisable, r
  <1>4. CASE t.status # HANGUP /\ ~ StatusIsError(t.status) /\ Fits(t)
    <2>1. r = Prepared(t, {}, method)
      BY <1>4 DEF PrepareResponse
    <2>2. LET u == LayOut(t, method)
          IN  /\ u \in ResponseRecord /\ u.status = t.status /\ u.fd = t.fd /\ u.pos = 0
              /\ u.end = t.end /\ u.bufs[1].len = StartLen
      BY <1>4, LayOutFacts
    <2> HIDE DEF r
    <2>3. /\ r.rc = 0 /\ r.closes = {} /\ r.ta = LayOut(t, method)
      BY <2>1 DEF Prepared
    <2> QED BY <1>1, <1>4, <2>2, <2>3 DEF r
  <1>5. CASE t.status # HANGUP /\ ~ StatusIsError(t.status) /\ ~ Fits(t)
    <2> DEFINE o == Overflow(t)
    <2>1. r = PrepareError(o, method)
      BY <1>5 DEF PrepareResponse
    <2>2. /\ o \in ResponseRecord /\ o.pos = 0 /\ o.end = t.end
          /\ o.keepHeaders = t.keepHeaders /\ o.keepBody = t.keepBody
          /\ Room(t) = 2 => o.status = t.status /\ o.fd = Insufficient
          /\ Room(t) # 2 => o.status = Insufficient /\ o.fd = t.fd
          /\ o.hdrs = MaxHeaders
      BY <1>5, OverflowFacts
    <2> HIDE DEF r, o
    <2>3. /\ r.rc \in {0, -1} /\ r.ta \in ResponseRecord
          /\ r.closes = Closes(o) /\ r.ta.status \in {o.status, Insufficient}
          /\ r.rc = 0 =>
               /\ r.ta.status = o.status /\ r.ta.pos = 0 /\ r.ta.bufs[1].len = StartLen
               /\ o.keepBody => Fits(o) /\ r.ta.fd = o.fd /\ r.ta.end = o.end
               /\ ~ o.keepBody => /\ r.ta.fd = IF o.fd > 0 THEN FdDisable ELSE o.fd
                                  /\ ErrorHeaders(o) + 4 <= MaxHeaders
      BY <2>1, <2>2, PrepareErrorFacts
    <2>4. Closes(o) = IF ~ o.keepBody /\ o.fd > 0 THEN {o.fd} ELSE {}
      BY DEF Closes
    <2>5. ~ Fits(o)
      BY <1>1, <2>2 DEF Fits, Room
    <2>6. /\ o.keepHeaders => ErrorHeaders(o) = MaxHeaders
          /\ ErrorHeaders(o) >= 0 /\ ErrorHeaders(o) \in Int
      BY <1>1, <2>2 DEF ErrorHeaders
    <2>7. r.rc = 0 => ~ o.keepBody /\ ~ o.keepHeaders /\ MaxHeaders >= 4
      BY <1>1, <2>3, <2>5, <2>6
    <2>8. StatusIsError(Insufficient) /\ Insufficient > 0
      BY DEF StatusIsError, Insufficient
    <2>9. r.rc = 0 => ~ (r.ta.fd > 0)
      BY <1>1, <2>2, <2>3, <2>7 DEF FdDisable, ResponseRecord
    <2>10. r.rc = 0 /\ t.fd > 0 => \/ t.fd \in r.closes \/ MaxHeaders - t.hdrs = 2
      BY <1>1, <2>2, <2>3, <2>4, <2>7
    <2>11. r.rc = 0 /\ ~ StatusIsError(r.ta.status) => r.ta.status = t.status /\ MaxHeaders - t.hdrs = 2
      BY <1>1, <2>2, <2>3, <2>8
    <2>12. r.rc = 0 => r.ta.pos = 0 /\ r.ta.bufs[1].len = StartLen
      BY <2>3
    <2>13. /\ r.rc \in {0, -1} /\ r.ta \in ResponseRecord
           /\ r.ta.status \in {t.status, Insufficient}
      BY <1>1, <2>2, <2>3
    <2>14. r.rc = 0 /\ ~ StatusIsError(r.ta.status) =>
             ~ t.keepHeaders /\ ~ t.keepBody /\ MaxHeaders >= 4
      BY <2>2, <2>7
    <2> QED BY <1>5, <2>9, <2>10, <2>11, <2>12, <2>13, <2>14 DEF r
  <1> QED BY <1>2, <1>3, <1>4, <1>5
=============================================================================
