---------------------------- MODULE Transaction -----------------------------
(***************************************************************************)
(* What a worker thread does with one request after another between the    *)
(* parser and the socket: the walk of the API tree, the endpoint or the    *)
(* static file, and the preparation of the response.                       *)
(*                                                                         *)
(* A request carries what the file system and the endpoint would do with   *)
(* it: names, isRoot, size and since for StaticPath, cookies and range for *)
(* RequestFields, in asks the keys of the cookies its endpoint looks for   *)
(* (<<>> for the range), and in reply the transaction it leaves, or the    *)
(* number of headers it adds before it hands the request to                *)
(* kitserv_http_handle_static_path.                                        *)
(***************************************************************************)
EXTENDS StaticPath, ApiTree, RequestFields

CONSTANT Requests

Optional == FileKind \union {"off"}
Request ==
  [path : Seq(Seq(STRING)), tail : Seq(Seq(STRING)),
   method : {"GET", "HEAD", "PUT", "POST", "DELETE"}, isRoot : BOOLEAN,
   names : [direct : FileKind, root : Optional, html : Optional, fallback : Optional],
   size : Nat, range : Seq(STRING), since : {"none", "bad", "current"},
   cookies : Seq(STRING), jar : Seq([key : Seq(STRING), value : Seq(STRING)]),
   asks : SUBSET Seq(STRING),
   reply : [static : BOOLEAN, ta : ResponseRecord, hdrs : 0 .. MaxHeaders]]

(* A header is a C string, without a NUL.  An endpoint that answers sets a *)
(* status; it gives a descriptor, or KITSERV_FD_HEAD for a HEAD request    *)
(* (kitserv.h).                                                            *)
ASSUME RequestAssumption ==
  /\ Requests \subseteq Request
  /\ \A r \in Requests : "NUL" \notin Range(r.range)
  /\ \A r \in Requests : ~ r.reply.static =>
       /\ r.reply.ta.status # UNSET
       /\ r.reply.ta.fd \in {FdHead, FdDisable, Fd}
       /\ r.reply.ta.fd = FdHead => r.method = "HEAD"

VARIABLES
  errno,       (* of the thread: "EACCES" or "other"                       *)
  found,       (* errno when the search for the file began                 *)
  method,      (* req_method                                               *)
  ta,          (* the response fields that serving the request leaves      *)
  fields,      (* cookies and range of the request                         *)
  answer,      (* what the endpoint was told when it last asked            *)
  rc,          (* of kitserv_http_handle_static_path, or 0                 *)
  sent         (* the prepared response                                    *)

fieldVars == <<fields, answer>>
vars == <<treeVars, fieldVars, errno, found, method, ta, rc, sent>>

NoAnswer == [of |-> "nothing"]
Unsent == [rc |-> 1, ta |-> ZeroResponse, closes |-> {}]

Init ==
  /\ TreeInit
  /\ errno = "other" /\ found = "other" /\ method = "GET" /\ ta = ZeroResponse /\ rc = 0
  /\ fields = NoFields /\ answer = NoAnswer /\ sent = Unsent

-----------------------------------------------------------------------------
(* A read that blocks and the number of a content-length set errno;        *)
(* otherwise that of the last request stays.                               *)
ReceiveRequest ==
  /\ phase = "recv"
  /\ \E r \in Requests :
       Receive(r) /\ method' = r.method /\ fields' = Noted(fields, r.cookies, r.range)
  /\ errno' \in {errno, "other"}
  /\ UNCHANGED <<answer, found, ta, rc, sent>>

Walk ==
  /\ Hit \/ Descend
  /\ UNCHANGED <<fieldVars, errno, found, method, ta, rc, sent>>

RefuseMethod ==
  /\ MethodRefused /\ ta' = [ta EXCEPT !.status = NotAllowed]
  /\ UNCHANGED <<fieldVars, errno, found, method, rc, sent>>

(* kitserv_http_handle_static_path, and the transaction it leaves.         *)
Static(hdrs) ==
  LET in == [request EXCEPT !.range = ParseRange(fields.range)]
      h == HandleStaticPath(in, hdrs, errno)
  IN  /\ found' = errno /\ ta' = h.res.ta /\ rc' = h.res.rc /\ errno' = h.errno
      /\ method' = MethodAfter(request, h.res.ta)
      /\ fields' = [fields EXCEPT !.range = in.range.text] /\ UNCHANGED answer

ServeStatic == NoMatch /\ Static(0) /\ UNCHANGED sent

(* The endpoint asks for a cookie or the range before it answers.          *)
EndpointAsksCookie ==
  /\ phase = "serve"
  /\ \E key \in request.asks \ {<<>>} :
       LET c == GetCookie(fields, key)
       IN  /\ answer' = [of |-> "cookie", key |-> key, found |-> c.found, value |-> c.value]
           /\ fields' = c.fields
  /\ UNCHANGED <<treeVars, errno, found, method, ta, rc, sent>>

EndpointAsksRange ==
  /\ phase = "serve" /\ <<>> \in request.asks
  /\ LET r == ParseRange(fields.range)
     IN  /\ answer' = [of |-> "range", kind |-> r.kind, from |-> r.from, to |-> r.to]
         /\ fields' = [fields EXCEPT !.range = r.text]
         /\ errno' = ErrnoAfter(r, errno)
  /\ UNCHANGED <<treeVars, found, method, ta, rc, sent>>

(* The endpoint waits, answers, or hands the request on; it may have left  *)
(* anything in errno.                                                      *)
EndpointWaits ==
  /\ Call(FALSE) /\ errno' \in {"EACCES", "other"}
  /\ UNCHANGED <<fieldVars, found, method, ta, rc, sent>>
EndpointAnswers ==
  /\ Call(TRUE) /\ ~ request.reply.static
  /\ ta' = request.reply.ta /\ UNCHANGED <<fieldVars, errno, found, method, rc, sent>>
EndpointServesFile ==
  /\ Call(TRUE) /\ request.reply.static
  /\ Static(request.reply.hdrs) /\ UNCHANGED sent

(* A 405 of the walk gets its allow header from the flags in              *)
(* PrepareResponse; the response is sent or the connection dropped.        *)
Prepare ==
  /\ phase = "prepare" /\ phase' = "send"
  /\ sent' = PrepareResponse(ta, method)
  /\ UNCHANGED <<request, node, at, allow, hit, data, turn, fieldVars, errno, found, method, ta, rc>>

Done ==
  /\ NextTransaction
  /\ ta' = ZeroResponse /\ rc' = 0 /\ sent' = Unsent /\ method' = "GET"
  /\ fields' = Forget(fields) /\ answer' = NoAnswer
  /\ found' = "other" /\ UNCHANGED errno

Next ==
  \/ ReceiveRequest \/ Walk \/ RefuseMethod \/ ServeStatic
  \/ EndpointAsksCookie \/ EndpointAsksRange \/ EndpointWaits
  \/ EndpointAnswers \/ EndpointServesFile
  \/ Prepare \/ Done
Spec == Init /\ [][Next]_vars

-----------------------------------------------------------------------------
Served == phase \in {"prepare", "send"}
IsStatic == Served /\ (hit = None \/ request.reply.static) /\ ~ (hit = None /\ allow # {})
Handlers == UNION { { Entries[n][i].handler : i \in 1 .. Len(Entries[n]) } : n \in Nodes }

(* The variables are in range, the header buffer is not overfilled, and    *)
(* the worker prepares a response exactly when there is a status for it.   *)
TypeOK ==
  /\ phase \in {"recv", "parse", "serve", "prepare", "send"} /\ turn \in {0, 1}
  /\ node \in Nodes /\ at \in 1 .. Cardinality(Nodes)
  /\ hit \in Handlers \union {None} /\ data \in {None, 0, 1}
  /\ {errno, found} \subseteq {"EACCES", "other"}
  /\ rc \in {0, -1} /\ ta.hdrs \in 0 .. MaxHeaders /\ ta.fd \in {FdHead, FdDisable, Fd}
  /\ Served <=> ta.status # UNSET

(* No descriptor outlives its response: a failed static request holds none *)
(* before its error response is prepared, and one that succeeded holds a   *)
(* file only when it is a GET whose response sends it (err_closefd, 304).  *)
DescriptorKept ==
  IsStatic =>
    /\ rc # 0 => ta.fd <= 0
    /\ ta.fd > 0 =>
         /\ method = "GET" /\ ta.status \in {OK, 206}
         /\ phase = "send" /\ Fits(ta) => sent.ta.fd = ta.fd /\ sent.ta.bufs[3] = NoBuf

(* A range whose first byte is in the file, or a suffix shorter than it,   *)
(* is answered with exactly the bytes RFC 9110 selects, and their number   *)
(* is announced.                                                           *)
Satisfied(from, to, size) == IF from >= 0 THEN from < size ELSE to \in 1 .. size - 1
LastByte(from, to, size) == IF from >= 0 /\ to \in 0 .. size - 1 THEN to ELSE size - 1

RangeExact ==
  IsStatic /\ ta.status = 206 =>
    \E from, to \in -1 .. MaxOff :
      /\ Selects(request.range, from, to)
      /\ Satisfied(from, to, request.size) =>
           LET first == IF from >= 0 THEN from ELSE request.size - to
               last == LastByte(from, to, request.size)
           IN  /\ ta.pos = first /\ ta.end = last
               /\ phase = "send" /\ Fits(ta) => sent.ta.length = last - first + 1

(* "Kitserv skips cookies if the key length does not match": whatever was  *)
(* asked before, in this request or an earlier one, an endpoint is given   *)
(* the cookie its client has sent, and never one that is not in the header *)
(* (kitserv_api_get_request_cookie, kitserv_http_parse_cookies).           *)
Within(v, h) == \E i \in 0 .. Len(h) : SubSeq(h, i + 1, i + Len(v)) = v

CookieRight ==
  answer.of = "cookie" =>
    IF Writable(request.jar) /\ request.cookies = Written(request.jar)
      THEN LET meant == Meant(request.jar, answer.key)
           IN  /\ answer.found <=> meant # {}
               /\ answer.found => answer.value = request.jar[Min(meant)].value
      ELSE answer.found => Within(answer.value, request.cookies)

(* The range can be asked for as often as one likes, by whoever: each time *)
(* the header is cut in two and is left as it came                         *)
(* (kitserv_http_parse_range).                                             *)
RangeKept == phase # "recv" => fields.range = request.range

(* So an endpoint that asks for it is told what the header selects.        *)
RangeRead ==
  /\ RangeKept
  /\ answer.of = "range" =>
       IF answer.kind = "bytes" THEN Selects(request.range, answer.from, answer.to)
       ELSE ~ \E from, to \in -1 .. MaxOff : Selects(request.range, from, to)

(* The file served is the first of path (or root fallback), path.html and  *)
(* fallback that is there; a directory is skipped like a missing file, and *)
(* an error is that of the first candidate that is neither, provided no    *)
(* earlier call left EACCES in errno for it to find.                       *)
Wanted == (IF request.isRoot /\ request.names["root"] # "off" THEN {"root"} ELSE {"direct"})
          \union {x \in {"html", "fallback"} : request.names[x] # "off"}
Before(x) == Wanted \ (CASE x = "html" -> {"html", "fallback"}
                         [] x = "fallback" -> {"fallback"}
                         [] OTHER -> Wanted)
Skipped(x) == request.names[x] \in {"dir", "missing"}
Due(x) == ~ Skipped(x) /\ \A y \in Before(x) : Skipped(y)

FirstFileServed ==
  IsStatic /\ request.method \in {"GET", "HEAD"} /\ found # "EACCES" =>
    IF \A x \in Wanted : Skipped(x) THEN ta.status = 404
    ELSE \E x \in Wanted :
           /\ Due(x)
           /\ CASE request.names[x] = "denied" -> ta.status = 403
                [] request.names[x] = "long"   -> ta.status = 414
                [] request.names[x] = "unreadable" /\ request.method = "GET" -> ta.status = 500
                [] OTHER -> ta.status \in {OK, 206, 304, BadRequest, 416, 500, Insufficient}

-----------------------------------------------------------------------------
IsPrepared == phase = "send" /\ sent.rc = 0
IsCanned == StatusIsError(ta.status) /\ ~ ta.keepBody

(* The content-length header is the number of body units that will follow, *)
(* whichever of body, file and canned text is sent in the end (http.h).    *)
LengthHonest ==
  IsPrepared /\ method # "HEAD" =>
    sent.ta.length = sent.ta.bufs[3].len
                     + (IF sent.ta.fd > 0 THEN sent.ta.end - sent.ta.pos + 1 ELSE 0)

(* An error response keeps what the endpoint asked to keep and nothing     *)
(* else: preserving the body implies the headers, and preserved headers    *)
(* get a content-type only with the canned text                            *)
(* (kitserv_api_set_preserve_headers_on_error(3)).                         *)
ErrorAsAsked ==
  IsPrepared /\ StatusIsError(ta.status) =>
    LET own == IF ta.keepBody \/ ta.keepHeaders THEN ta.hdrs
               ELSE IF ta.status = NotAllowed THEN 1 ELSE 0
    IN  /\ sent.ta.hdrs = own + 3 + (IF ta.keepBody THEN 0 ELSE 1)
        /\ ta.keepBody => sent.ta.body = ta.body /\ sent.ta.fd = ta.fd
        /\ IsCanned => sent.ta.body = CannedLen /\ sent.ta.pos = 0 /\ sent.ta.fd <= 0

-----------------------------------------------------------------------------
(* The inductive invariant.                                                *)

(* A step of the cycle finds what the step before it has left.             *)
ControlOK ==
  /\ phase = "recv" =>
       /\ hit = None /\ allow = {} /\ data = None
       /\ request = None /\ node = Root /\ at = 1
  /\ phase # "recv" => request \in Requests
  /\ phase = "serve" => hit # None
  /\ ~ Served => ta = ZeroResponse /\ rc = 0
  /\ phase \in {"parse", "serve"} => method = request.method
  /\ \A depth \in Depths : at = depth[node]
  /\ DOMAIN fields = {"fresh", "num", "range", "table"}

(* What will be sent, or has been.                                         *)
PreparedOK ==
  /\ Served => ta \in ResponseRecord /\ (ta.fd = FdHead => method = "HEAD")
  /\ phase = "send" => sent = PrepareResponse(ta, method)

(* A file is open for a response that sends it.                            *)
StaticOK ==
  IsStatic =>
    /\ rc # 0 => ta.fd <= 0
    /\ ta.fd > 0 => method = "GET" /\ ta.status \in {OK, 206}

(* A 206 sends the span that the header of this request asks for, and an   *)
(* endpoint is told of that header and no other.                           *)
SpanAsked(t) ==
  LET range == ParseRange(request.range)
  IN  /\ range.kind = "bytes" /\ t.fd # FdDisable
      /\ [from |-> t.pos, to |-> t.end] = ByteRange(range, request.size)
RangeOK == IsStatic /\ ta.status = 206 => SpanAsked(ta)
AnswerOK ==
  /\ phase = "recv" => answer = NoAnswer
  /\ answer.of = "range" =>
       LET range == ParseRange(request.range)
       IN  /\ answer.kind = range.kind
           /\ answer.from = range.from /\ answer.to = range.to

(* The cookies of this request are still unread, or the table begins with  *)
(* those of its header, and its endpoint is told of these.                 *)
Stored(h) ==
  LET parsed == ParseCookies(h) IN IF h # <<>> /\ parsed.ok THEN parsed.list ELSE <<>>
Namesakes(list, key) == { i \in DOMAIN list : list[i].key = key }
Carries(f, h) ==
  LET stored == Stored(h)
  IN  \/ f.fresh = h /\ f.num = 0
      \/ /\ f.fresh = <<>> /\ f.num = Len(stored)
         /\ \A i \in DOMAIN stored : f.table[i] = stored[i]
CookiesOK ==
  /\ phase = "recv" => fields.num = 0
  /\ phase # "recv" => Carries(fields, request.cookies)
  /\ answer.of = "cookie" =>
       LET stored == Stored(request.cookies)
           hits == Namesakes(stored, answer.key)
       IN  /\ answer.found <=> hits # {}
           /\ answer.found => answer.value = stored[Min(hits)].value

Base ==
  /\ TypeOK
  /\ OwnState
  /\ ControlOK
  /\ PreparedOK
  /\ StaticOK
  /\ RangeKept
  /\ FirstFileServed
IInv == Base /\ RangeOK /\ AnswerOK
=============================================================================
