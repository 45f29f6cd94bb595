--------------------------- MODULE RequestFields ---------------------------
(***************************************************************************)
(* What an endpoint asks of the header of its request: cookies, which are  *)
(* parsed when the first is asked for and then kept in a table that        *)
(* outlives the request, and the range, which is parsed in place every     *)
(* time.  The operators are pure; Transaction runs them.                   *)
(*                                                                         *)
(* A header value is a sequence of characters; <<>> stands for no header,  *)
(* which every function treats like an empty one.  "bytes=" is a character *)
(* of its own.                                                             *)
(***************************************************************************)
EXTENDS Integers, Sequences, SequencesExt, FiniteSetsExt

CONSTANTS
  MaxCookies,    (* HTTP_MAX_COOKIES                                       *)
  MaxOff         (* the largest off_t                                      *)

ASSUME FieldsAssumption == MaxCookies \in Nat \ {0} /\ MaxOff \in Nat

(* A slot of req_cookies that no cookie of this request was stored in      *)
(* holds what an earlier request left: here, as good as any, a cookie that *)
(* endpoints ask for with a value no request sends.                        *)
Stale == [key |-> <<"k">>, value |-> <<"old">>]

NoFields == [fresh |-> <<>>, num |-> 0, range |-> <<>>,
             table |-> [i \in 1 .. MaxCookies |-> Stale]]

(* The parser notes where the values of the headers are.                   *)
Noted(f, cookies, range) == [f EXCEPT !.fresh = cookies, !.range = range]

(* The memset between two requests; the table stays as it is, and what it  *)
(* holds is as good as any again.                                          *)
ForgetFault(f) == [NoFields EXCEPT !.num = f.num]
Forget(f) == NoFields

-----------------------------------------------------------------------------
(* kitserv_http_parse_cookies.  strchr from position i; a NULL is one past *)
(* the end.                                                                *)
Strchr(s, c, i) ==
  LET at == { j \in i .. Len(s) : s[j] = c }
  IN  IF at = {} THEN Len(s) + 1 ELSE Min(at)

SkipSpaces(s, i) ==
  CHOOSE j \in i .. Len(s) + 1 :
    /\ j <= Len(s) => s[j] # " "
    /\ \A k \in i .. j - 1 : s[k] = " "

(* A round of the loop: from position at, the next cookie is stored behind *)
(* those of list.  A cookie with an empty value is not stored unless it is *)
(* the last; the one for which there is no slot ends the parsing, and so   *)
(* does a rest without "=", of which nothing counts.                       *)
CookieRound(s, c) ==
  LET k      == SkipSpaces(s, c.at)
      r      == Strchr(s, "=", k)
      q      == Strchr(s, ";", r)
      valued == q # r + 1 \/ q > Len(s)
      cookie == [key |-> SubSeq(s, k, r - 1), value |-> SubSeq(s, r + 1, q - 1)]
  IN  CASE c.done                  -> c
        [] ~ c.done /\ r > Len(s)  -> [c EXCEPT !.ok = FALSE, !.done = TRUE]
        [] OTHER ->
             [at |-> q + 1, ok |-> TRUE,
              done |-> q > Len(s) \/ (valued /\ Len(c.list) = MaxCookies),
              list |-> IF valued /\ Len(c.list) < MaxCookies THEN Append(c.list, cookie)
                                                             ELSE c.list]

CookieRounds(s) ==
  LET Round[i \in 0 .. Len(s) + 1] ==
        IF i = 0 THEN [at |-> 1, ok |-> TRUE, done |-> FALSE, list |-> <<>>]
                 ELSE CookieRound(s, Round[i - 1])
  IN  Round
ParseCookies(s) == CookieRounds(s)[Len(s) + 1]

Refreshed(f) ==
  LET parsed == ParseCookies(f.fresh)
      n == Len(parsed.list)
  IN  [f EXCEPT !.fresh = <<>>,
                !.num = IF parsed.ok THEN n ELSE @,
                !.table = parsed.list \o SubSeq(@, n + 1, MaxCookies)]

(* kitserv_api_get_request_cookie: the fields it leaves and its answer.    *)
GetCookie(f, key) ==
  LET g == IF f.fresh = <<>> THEN f ELSE Refreshed(f)
      hits == { i \in 1 .. g.num : g.table[i].key = key }
  IN  [fields |-> g, found |-> hits # {},
       value |-> IF hits = {} THEN <<>> ELSE g.table[Min(hits)].value]

-----------------------------------------------------------------------------
(* kitserv_http_parse_range.  The hyphen is a NUL while the first number   *)
(* is read.  A range is [from, to] with -1 for a missing end; numbers says  *)
(* whether strtonum was called.                                            *)
Digits == <<"0", "1", "2", "3", "4", "5", "6", "7", "8", "9">>
Digit(c) == CHOOSE d \in 0 .. 9 : Digits[d + 1] = c
CString(s) == SubSeq(s, 1, Strchr(s, "NUL", 1) - 1)

Strtonum(s) ==
  LET Value[k \in 0 .. Len(s)] == IF k = 0 THEN 0 ELSE 10 * Value[k - 1] + Digit(s[k])
  IN  IF s = <<>> THEN -1 ELSE Value[Len(s)]

RestoreFault(s, h) == s
Restore(s, h) == [s EXCEPT ![h] = "-"]

NoSpan(kind, numbers, text) ==
  [kind |-> kind, from |-> -1, to |-> -1, numbers |-> numbers, text |-> text]

RangeOf(text, s, h) ==
  LET left  == SubSeq(s, 2, h - 1)
      right == SubSeq(s, h + 1, Len(s))
      from  == Strtonum(left)
      to    == Strtonum(right)
      back  == Restore(IF left = <<>> THEN text ELSE [text EXCEPT ![h] = "NUL"], h)
  IN  CASE left \o right = <<>>         -> NoSpan("bad", FALSE, back)
        [] from > MaxOff \/ to > MaxOff -> NoSpan("bad", TRUE, back)
        [] 0 <= to /\ to < from         -> NoSpan("bad", TRUE, back)
        [] OTHER -> [NoSpan("bytes", TRUE, back) EXCEPT !.from = from, !.to = to]

ParseRange(text) ==
  LET s == CString(text)
      hyphens == { i \in DOMAIN s : s[i] = "-" }
  IN  CASE text = <<>> -> NoSpan("none", FALSE, text)
        [] text # <<>> /\ s # <<>> /\ s[1] = "bytes=" /\ Cardinality(hyphens) = 1
             /\ (\A i \in 2 .. Len(s) : i \in hyphens \/ s[i] \in Range(Digits)) ->
             RangeOf(text, s, Min(hyphens))
        [] OTHER -> NoSpan("bad", FALSE, text)

-----------------------------------------------------------------------------
(* The reference.  A client writes its cookies one after another, and gets *)
(* the first of a name back, of those there is room for; one without a     *)
(* value counts only at the end.  The marks between them are not in them.  *)
WrittenTo(jar) ==
  LET Text[i \in 0 .. Len(jar)] ==
        IF i = 0 THEN <<>>
        ELSE Text[i - 1] \o (IF i = 1 THEN <<>> ELSE <<";", " ">>)
             \o jar[i].key \o <<"=">> \o jar[i].value
  IN  Text
Written(jar) == WrittenTo(jar)[Len(jar)]

Writable(jar) ==
  \A i \in DOMAIN jar :
    /\ "=" \notin Range(jar[i].key) /\ ";" \notin Range(jar[i].value)
    /\ jar[i].key = <<>> \/ Head(jar[i].key) # " "

Counts(jar, i) == jar[i].value # <<>> \/ i = Len(jar)
Kept(jar) ==
  { i \in DOMAIN jar : Counts(jar, i) /\
      Cardinality({ j \in 1 .. i : Counts(jar, j) }) <= MaxCookies }
Meant(jar, key) == { i \in Kept(jar) : jar[i].key = key }

(* The number that digits spell: they are the remainders, from the last,   *)
(* of dividing it by ten until nothing is left.  What two numbers of a     *)
(* range select, and the range that a header selects.                      *)
Quotients(n, m) ==
  LET Quotient[k \in 0 .. m] == IF k = 0 THEN n ELSE Quotient[k - 1] \div 10
  IN  Quotient
Spelled(n, s) ==
  LET rest == Quotients(n, Len(s))
  IN  /\ s # <<>> /\ rest[Len(s)] = 0
      /\ \A i \in 1 .. Len(s) : s[i] \in Range(Digits) /\ Digit(s[i]) = rest[Len(s) - i] % 10

Ends(left, right, from, to) ==
  /\ IF left = <<>> THEN from = -1 ELSE Spelled(from, left)
  /\ IF right = <<>> THEN to = -1 ELSE Spelled(to, right)
  /\ left \o right # <<>>
  /\ from >= 0 /\ to >= 0 => from <= to
Selects(text, from, to) ==
  \E h \in 2 .. Len(text) :
    /\ text[1] = "bytes=" /\ text[h] = "-"
    /\ Ends(SubSeq(text, 2, h - 1), SubSeq(text, h + 1, Len(text)), from, to)
=============================================================================
