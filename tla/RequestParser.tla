--------------------------- MODULE RequestParser ---------------------------
(***************************************************************************)
(* kitserv_http_recv_request: the resumable parser of request heads over a *)
(* non-blocking socket, and the pipelined requests it finds one after the  *)
(* other in the header buffer.                                             *)
(*                                                                         *)
(* The input is a sequence of character classes.  "g" is a method kitserv  *)
(* knows and "h" the text HTTP/, "1" and "0" its versions (and digits),    *)
(* "%", "2" and "5" what else a percent code is written with, "c" the      *)
(* header name content-length, "u" a character that does not print, "^" a  *)
(* path segment attempted_path_traversal refuses, and "x" any other        *)
(* character.  How a read splits the input is arbitrary.                   *)
(***************************************************************************)
EXTENDS Integers, Sequences, FiniteSets

CONSTANTS
  Inputs,      (* what a peer may send                                     *)
  BufSz        (* HTTP_BUFSZ                                               *)

Chars == {"g", "h", "1", "0", "c", "x", "u", "^", "?", ":", "%", "2", "5", "sp", "cr", "lf"}

ASSUME InputAssumption == Inputs \subseteq Seq(Chars) /\ BufSz \in Nat \ {0}

Null == -1

(* The request fields of a transaction: spans of req_headers.              *)
ZeroTa == [parse_state |-> "NEW", blk |-> Null, iter |-> Null, path |-> <<>>,
           query |-> <<>>, version |-> "1", headers |-> <<>>, status |-> 0]

VARIABLES
  input,       (* the whole of what the peer sends                         *)
  taken,       (* how much of it has been read                             *)
  req_headers, (* the header buffer                                        *)
  ta,          (* the saved fields of the transaction                      *)
  pc,          (* "read", "parse", "blocked", "head" (complete), "error"   *)
  label,       (* the case of the switch the parser is in                  *)
  p, r,        (* its locals: start of the block, segment iterator         *)
  results      (* the heads parsed so far                                  *)

vars == <<input, taken, req_headers, ta, pc, label, p, r, results>>

Char(k) == req_headers[k + 1]          \* positions count from 0, as in C
Span(i, j) == SubSeq(req_headers, i + 1, j)
PastEnd(ptr) == ptr # Null /\ ptr >= Len(req_headers)

Init ==
  /\ input \in Inputs /\ taken = 0 /\ req_headers = <<>>
  /\ ta = ZeroTa /\ pc = "read" /\ label = "NEW" /\ p = Null /\ r = Null
  /\ results = <<>>

-----------------------------------------------------------------------------
(* read_more.                                                              *)
SpaceFault == BufSz
Space == BufSz - Len(req_headers)

EnterParser == pc' = "parse" /\ label' = ta.parse_state

ReadData ==
  /\ pc = "read"
  /\ \E n \in 1 .. Space :
       /\ taken + n <= Len(input)
       /\ req_headers' = req_headers \o SubSeq(input, taken + 1, taken + n)
       /\ taken' = taken + n
  /\ EnterParser
  /\ UNCHANGED <<input, ta, p, r, results>>

ReadBlock ==
  /\ pc = "read" /\ Space > 0
  /\ IF PastEnd(r)
       THEN /\ ta' = [ta EXCEPT !.blk = p, !.iter = r]
            /\ pc' = "blocked"
            /\ UNCHANGED label
       ELSE EnterParser /\ UNCHANGED ta
  /\ UNCHANGED <<input, taken, req_headers, p, r, results>>

Fail(status) ==
  /\ ta' = [ta EXCEPT !.status = status]
  /\ pc' = "error"
  /\ results' = Append(results, [status |-> status])

ReadFull ==
  /\ pc = "read" /\ Space = 0
  /\ IF PastEnd(r) THEN Fail(431) /\ UNCHANGED label
                   ELSE EnterParser /\ UNCHANGED <<ta, results>>
  /\ UNCHANGED <<input, taken, req_headers, p, r>>

(* The next event: the locals are taken from the transaction again.        *)
Resume ==
  /\ pc = "blocked" /\ taken < Len(input)
  /\ p' = ta.blk /\ r' = ta.iter /\ pc' = "read"
  /\ UNCHANGED <<input, taken, req_headers, ta, label, results>>

-----------------------------------------------------------------------------
(* The states of the parser.  A state that runs out of data records itself *)
(* and goes back to read_more; r stays at the end of the data.             *)
Until(c, from) ==
  LET found == {k \in from .. Len(req_headers) - 1 : Char(k) = c}
  IN  IF found = {} THEN Len(req_headers) ELSE CHOOSE k \in found : \A j \in found : k <= j

NeedMoreFault(state, end) ==
  /\ r' = end /\ pc' = "read"
  /\ UNCHANGED <<ta, label, p, results>>

NeedMore(state, end) ==
  /\ ta' = [ta EXCEPT !.parse_state = state]
  /\ r' = end /\ pc' = "read"
  /\ UNCHANGED <<label, p, results>>

GoOn(state, end) == label' = state /\ p' = end + 1 /\ r' = end + 1

ParseNew ==
  /\ pc = "parse" /\ label = "NEW"
  /\ label' = "METHOD" /\ p' = 0 /\ r' = 0
  /\ UNCHANGED <<input, taken, req_headers, ta, pc, results>>

(* parse_advance, after a segment that ended at end.                       *)
ParseMethod ==
  /\ pc = "parse" /\ label = "METHOD"
  /\ LET end == Until("sp", r)
     IN  CASE PastEnd(end) -> NeedMore("METHOD", end)
           [] ~ PastEnd(end) /\ Span(p, end) = <<"g">> ->
                GoOn("PATH", end) /\ UNCHANGED <<ta, pc, results>>
           [] OTHER -> Fail(501) /\ UNCHANGED <<label, p, r>>
  /\ UNCHANGED <<input, taken, req_headers>>

(* url_decode: one pass, and a code for NUL ends the string.               *)
Hex == {"0", "1", "2", "5"}
IsCode(s, k) == k + 2 <= Len(s) /\ s[k] = "%" /\ s[k + 1] \in Hex /\ s[k + 2] \in Hex
Coded(a, b) ==
  CASE <<a, b>> = <<"2", "5">> -> <<"%">>
    [] <<a, b>> = <<"2", "0">> -> <<"sp">>
    [] <<a, b>> = <<"0", "0">> -> <<>>
    [] a \in {"0", "1"} /\ <<a, b>> # <<"0", "0">> -> <<"u">>
    [] OTHER -> <<"x">>

Decode(s) ==
  LET D[k \in 1 .. Len(s) + 1] ==
        CASE k > Len(s) -> <<>>
          [] k <= Len(s) /\ IsCode(s, k) ->
               LET x == Coded(s[k + 1], s[k + 2])
               IN  IF x = <<>> THEN <<>> ELSE x \o D[k + 3]
          [] OTHER -> <<s[k]>> \o D[k + 1]
  IN  D[1]

Has(s, c) == \E k \in 1 .. Len(s) : s[k] = c
At(s, c) == CHOOSE k \in 1 .. Len(s) : s[k] = c /\ \A j \in 1 .. k - 1 : s[j] # c
Path(s) == IF Has(s, "?") THEN SubSeq(s, 1, At(s, "?") - 1) ELSE s
Query(s) == IF Has(s, "?") THEN SubSeq(s, At(s, "?") + 1, Len(s)) ELSE <<>>
BadPath(s) == Has(s, "u") \/ Has(Decode(Path(s)), "^")

ParsePath ==
  /\ pc = "parse" /\ label = "PATH"
  /\ LET end == Until("sp", r)
         s == Span(p, end)
     IN  CASE PastEnd(end) -> NeedMore("PATH", end)
           [] ~ PastEnd(end) /\ ~ BadPath(s) ->
                /\ ta' = [ta EXCEPT !.path = Decode(Path(s)), !.query = Decode(Query(s))]
                /\ GoOn("VERSION", end) /\ UNCHANGED <<pc, results>>
           [] OTHER -> Fail(400) /\ UNCHANGED <<label, p, r>>
  /\ UNCHANGED <<input, taken, req_headers>>

ParseVersion ==
  /\ pc = "parse" /\ label = "VERSION"
  /\ LET end == Until("cr", r)
         s == Span(p, end)
     IN  CASE PastEnd(end) -> NeedMore("VERSION", end)
           [] ~ PastEnd(end) /\ s \in {<<"h", "1">>, <<"h", "0">>} ->
                /\ ta' = [ta EXCEPT !.version = s[2]]
                /\ GoOn("VERSION_LF", end) /\ UNCHANGED <<pc, results>>
           [] ~ PastEnd(end) /\ (s = <<>> \/ s[1] # "h") ->
                Fail(400) /\ UNCHANGED <<label, p, r>>
           [] OTHER -> Fail(505) /\ UNCHANGED <<label, p, r>>
  /\ UNCHANGED <<input, taken, req_headers>>

ParseVersionLF ==
  /\ pc = "parse" /\ label = "VERSION_LF"
  /\ CASE PastEnd(r) -> NeedMore("VERSION_LF", r)
       [] ~ PastEnd(r) /\ Char(r) = "lf" -> GoOn("HEAD", r) /\ UNCHANGED <<ta, pc, results>>
       [] OTHER -> Fail(400) /\ UNCHANGED <<label, p, r>>
  /\ UNCHANGED <<input, taken, req_headers>>

(* A header line is split at its first colon and the white space after it; *)
(* of the headers kitserv looks at only content-length can be refused.     *)
Name(s) == SubSeq(s, 1, At(s, ":") - 1)
Value(s) ==
  LET v == SubSeq(s, At(s, ":") + 1, Len(s))
      ink == {k \in 1 .. Len(v) : v[k] # "sp"}
  IN  IF ink = {} THEN <<>>
      ELSE SubSeq(v, CHOOSE k \in ink : \A j \in ink : k <= j, Len(v))
Number(s) == \A k \in 1 .. Len(s) : s[k] \in {"0", "1", "2", "5"}
BadHeader(s) == ~ Has(s, ":") \/ (Name(s) = <<"c">> /\ ~ Number(Value(s)))

ParseHead ==
  /\ pc = "parse" /\ label = "HEAD"
  /\ LET end == Until("cr", r)
         s == Span(p, end)
     IN  CASE PastEnd(end) -> NeedMore("HEAD", end)
           [] ~ PastEnd(end) /\ end = p ->
                \* the blank line: p stays, so that HEAD_LF can tell
                label' = "HEAD_LF" /\ r' = end + 1 /\ UNCHANGED <<ta, pc, p, results>>
           [] ~ PastEnd(end) /\ end # p /\ ~ BadHeader(s) ->
                /\ ta' = [ta EXCEPT !.headers = Append(@, <<Name(s), Value(s)>>)]
                /\ GoOn("HEAD_LF", end) /\ UNCHANGED <<pc, results>>
           [] OTHER -> Fail(400) /\ UNCHANGED <<label, p, r>>
  /\ UNCHANGED <<input, taken, req_headers>>

Parsed(t) == [status |-> 0, path |-> t.path, query |-> t.query,
              version |-> t.version, headers |-> t.headers]

ParseHeadLF ==
  /\ pc = "parse" /\ label = "HEAD_LF"
  /\ CASE PastEnd(r) -> NeedMore("HEAD_LF", r)
       [] ~ PastEnd(r) /\ Char(r) # "lf" -> Fail(400) /\ UNCHANGED <<label, p, r>>
       [] ~ PastEnd(r) /\ Char(r) = "lf" /\ r = p ->
            GoOn("HEAD", r) /\ UNCHANGED <<ta, pc, results>>
       [] OTHER -> /\ pc' = "head" /\ p' = r + 1 /\ r' = r + 1
                   /\ results' = Append(results, Parsed(ta))
                   /\ UNCHANGED <<ta, label>>
  /\ UNCHANGED <<input, taken, req_headers>>

(* The request is served and finalized: what follows its head is moved to  *)
(* the front of the buffer and read as the next request.                   *)
FinalizeFault ==
  /\ pc = "head"
  /\ req_headers' = <<>>
  /\ ta' = ZeroTa /\ pc' = "read" /\ p' = Null /\ r' = Null
  /\ UNCHANGED <<input, taken, label, results>>

Finalize ==
  /\ pc = "head"
  /\ req_headers' = SubSeq(req_headers, p + 1, Len(req_headers))
  /\ ta' = ZeroTa /\ pc' = "read" /\ p' = Null /\ r' = Null
  /\ UNCHANGED <<input, taken, label, results>>

Read == ReadData \/ ReadBlock \/ ReadFull \/ Resume
Parse == \/ ParseNew \/ ParseMethod \/ ParsePath \/ ParseVersion
         \/ ParseVersionLF \/ ParseHead \/ ParseHeadLF
Next == Read \/ Parse \/ Finalize
Spec == Init /\ [][Next]_vars

-----------------------------------------------------------------------------
(* The reference: the heads in a whole input, by the positions of its      *)
(* separators.  FirstAt is 0 when there is none.                           *)
FirstAt(s, c, from) ==
  LET found == {k \in from .. Len(s) : s[k] = c}
  IN  IF found = {} THEN 0 ELSE CHOOSE k \in found : \A j \in found : k <= j

Part(s, i, j) == SubSeq(s, i, j - 1)
Incomplete == [status |-> -1]
Error(status) == [status |-> status]

(* The header line of s from k up to its CR at e, and those after it; a    *)
(* result is [end, headers], or an error.                                  *)
Blank(s, e) == [status |-> 0, end |-> e + 2, headers |-> <<>>]
Cons(line, rest) ==
  IF rest.status # 0 THEN rest
  ELSE [rest EXCEPT !.headers = <<<<Name(line), Value(line)>>>> \o @]

HeaderLine(s, k, e, line, H) ==
  IF e = 0 THEN Incomplete
  ELSE IF e # k /\ BadHeader(line) THEN Error(400)
  ELSE IF e = Len(s) THEN Incomplete
  ELSE IF s[e + 1] # "lf" THEN Error(400)
  ELSE IF e = k THEN Blank(s, e) ELSE Cons(line, H[e + 2])

Ended(s, k, e, H) == HeaderLine(s, k, e, Part(s, k, e), H)
HeadersFrom(s) ==
  LET H[k \in 1 .. Len(s) + 3] == Ended(s, k, FirstAt(s, "cr", k), H) IN H

(* Percent codes cannot overlap: what is decoded are the characters outside *)
(* of codes and the first of each, up to a NUL.                            *)
Decoded(s) ==
  LET codes == { k \in 1 .. Len(s) : IsCode(s, k) }
      nuls  == { k \in codes : s[k + 1] = "0" /\ s[k + 2] = "0" }
      kept  == { k \in 1 .. Len(s) : (\A c \in codes : k \notin {c + 1, c + 2})
                                   /\ \A n \in nuls : k < n }
      Nth(n) == CHOOSE k \in kept : Cardinality({j \in kept : j <= k}) = n
  IN  [ n \in 1 .. Cardinality(kept) |->
          IF Nth(n) \in codes THEN Coded(s[Nth(n) + 1], s[Nth(n) + 2])[1] ELSE s[Nth(n)] ]

Whole(path, version, h) ==
  IF h.status # 0 THEN h
  ELSE [status |-> 0, path |-> Decoded(Path(path)), query |-> Decoded(Query(path)),
        version |-> version[2], headers |-> h.headers, end |-> h.end]

(* The head at the start of s: the method ends at a, the path at b, the    *)
(* version at c.                                                           *)
StartLine(s, path, version, c) ==
  IF c = 0 THEN Incomplete
  ELSE IF version = <<>> \/ version[1] # "h" THEN Error(400)
  ELSE IF version \notin {<<"h", "1">>, <<"h", "0">>} THEN Error(505)
  ELSE IF c = Len(s) THEN Incomplete
  ELSE IF s[c + 1] # "lf" THEN Error(400)
  ELSE Whole(path, version, HeadersFrom(s)[c + 2])

Versioned(s, path, b, c) == StartLine(s, path, Part(s, b + 1, c), c)
Pathed(s, path, b) ==
  IF b = 0 THEN Incomplete
  ELSE IF BadPath(path) THEN Error(400)
  ELSE Versioned(s, path, b, FirstAt(s, "cr", b + 1))

Methoded(s, a, b) ==
  IF a = 0 THEN Incomplete
  ELSE IF Part(s, 1, a) # <<"g">> THEN Error(501)
  ELSE Pathed(s, Part(s, a + 1, b), b)
From(s, a) == Methoded(s, a, FirstAt(s, "sp", a + 1))
HeadOf(s) == From(s, FirstAt(s, "sp", 1))

(* A head longer than the buffer is refused with 431.                      *)
Refused(s, whole) == IF whole.status = -1 /\ Len(s) >= BufSz THEN Error(431) ELSE whole
Limited(s) == Refused(s, HeadOf(SubSeq(s, 1, IF Len(s) < BufSz THEN Len(s) ELSE BufSz)))

(* All the heads in s up to the first that is in error or incomplete.      *)
Strip(h) == [status |-> 0, path |-> h.path, query |-> h.query,
             version |-> h.version, headers |-> h.headers]
Then(h, k, A) ==
  IF h.status = -1 THEN <<>>
  ELSE IF h.status > 0 THEN <<h>>
  ELSE <<Strip(h)>> \o A[k + h.end - 1]
HeadsOf(s) ==
  LET A[k \in 1 .. Len(s) + 1] == Then(Limited(SubSeq(s, k, Len(s))), k, A) IN A[1]

Expected == [i \in Inputs |-> HeadsOf(i)]

-----------------------------------------------------------------------------
(* The buffer is never overfilled and the iterators stay inside it.        *)
TypeOK ==
  /\ input \in Inputs /\ taken \in 0 .. Len(input) /\ Len(req_headers) <= BufSz
  /\ pc \in {"read", "parse", "blocked", "head", "error"}
  /\ {label, ta.parse_state} \subseteq
       {"NEW", "METHOD", "PATH", "VERSION", "VERSION_LF", "HEAD", "HEAD_LF"}
  /\ {p, r, ta.blk, ta.iter} \subseteq {Null} \union 0 .. Len(req_headers)
  /\ p <= r

(* The parser finds the heads the input contains: however the input is     *)
(* split into reads, and wherever the parser is interrupted, the requests  *)
(* and the errors are those of the whole input, in order.                  *)
ResultsRight ==
  LET all == Expected[input]
  IN  Len(results) <= Len(all) /\ results = SubSeq(all, 1, Len(results))

(* And it misses none: a parser that waits with all the input read has     *)
(* delivered every head that is complete.                                  *)
NothingMissed ==
  pc = "blocked" /\ taken = Len(input) => results = Expected[input]
=============================================================================
