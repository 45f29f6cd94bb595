------------------------------ MODULE Response ------------------------------
(***************************************************************************)
(* How kitserv turns a served transaction into the bytes it will send:     *)
(* kitserv_http_prepare_response and the error responses it falls back to. *)
(* The operators are pure; ServeClient runs them as one step of a          *)
(* connection, and Transaction behind the API tree and the static files,   *)
(* where they are compared with what the documentation promises.           *)
(*                                                                         *)
(* A length is counted in units: the start line is StartLen units, a       *)
(* header line is one, and the header buffer holds MaxHeaders of them.     *)
(***************************************************************************)
EXTENDS Integers

CONSTANT MaxHeaders     \* header lines that fit in HTTP_BUFSZ

ASSUME HeaderAssumption == MaxHeaders \in Nat /\ MaxHeaders >= 1

UNSET   == 0            \* HTTP_X_RESP_STATUS_UNSET
HANGUP  == 1            \* HTTP_X_HANGUP
OK      == 200
BadRequest == 400
NotAllowed == 405
TooLarge   == 431
Insufficient == 507     \* HTTP_507_INSUFFICIENT_STORAGE

FdDisable == 0          \* KITSERV_FD_DISABLE
FdHead    == -1         \* KITSERV_FD_HEAD

StartLen  == 2          \* version and status text of the start line
CannedLen == 1          \* the text of a canned error response

StatusIsError(status) == status >= 400

NoBuf == [base |-> 0, len |-> 0]
NoBufs == <<NoBuf, NoBuf, NoBuf>>

(* The response fields of a transaction after a memset: body stands for    *)
(* client.resp_body.len, hdrs for resp_bufs[1].iov_len while the headers   *)
(* are collected, length for the content-length header.                    *)
ZeroResponse ==
  [status |-> UNSET, fd |-> FdDisable, pos |-> 0, end |-> 0, body |-> 0,
   hdrs |-> 0, keepHeaders |-> FALSE, keepBody |-> FALSE,
   bufs |-> NoBufs, length |-> 0]

ResponseRecord ==
  [status : Nat, fd : Int, pos : Nat, end : Int, body : Nat,
   hdrs : 0 .. MaxHeaders, keepHeaders : BOOLEAN, keepBody : BOOLEAN,
   bufs : [1 .. 3 -> [base : Nat, len : Nat]], length : Int]

-----------------------------------------------------------------------------
(* kitserv_http_header_add: a line that does not fit turns the response    *)
(* into a 507 and leaves the buffer as it was.                             *)
RoomFault(t) == MaxHeaders - t.hdrs + 1
Room(t) == MaxHeaders - t.hdrs

HeaderAdd(t) ==
  IF Room(t) > 0 THEN [t EXCEPT !.hdrs = @ + 1]
                 ELSE [t EXCEPT !.status = Insufficient]

ContentLengthFault(t) ==
  IF t.fd # FdDisable THEN t.end - t.pos ELSE t.body - t.pos

ContentLength(t) ==
  IF t.fd # FdDisable THEN t.end - t.pos + 1 ELSE t.body - t.pos

(* The success part of prepare_response: content-length, server and the    *)
(* blank line are added, and the three buffers are laid out.  When the     *)
(* blank line does not fit the code assigns the status to resp_fd.         *)
Fits(t) == Room(t) >= 3

Buffers(t, method) ==
  << [base |-> 0, len |-> StartLen],
     [base |-> 0, len |-> t.hdrs],
     IF t.fd = FdDisable /\ method # "HEAD"
       THEN [base |-> t.pos, len |-> t.body - t.pos]
       ELSE NoBuf >>

LayOut(t, method) ==
  LET full == [t EXCEPT !.hdrs = @ + 3, !.length = ContentLength(t)]
  IN  [full EXCEPT !.bufs = Buffers(full, method)]

Overflow(t) ==
  CASE Room(t) = 2 -> [t EXCEPT !.hdrs = @ + 2, !.fd = Insufficient]
    [] Room(t) = 1 -> HeaderAdd(HeaderAdd(t))
    [] OTHER       -> HeaderAdd(t)

(* The canned error response: unless the body is preserved, the headers    *)
(* are wiped (unless they are), the descriptor is closed and the body is   *)
(* replaced by a line of text.  It cannot be written when its content-type *)
(* header does not fit.                                                    *)
ErrorHeadersFault(t) == IF t.status = NotAllowed THEN 1 ELSE 0

ErrorHeaders(t) ==
  CASE t.keepHeaders                               -> t.hdrs
    [] ~ t.keepHeaders /\ t.status = NotAllowed   -> 1
    [] OTHER                                       -> 0

Wiped(t) ==
  [t EXCEPT !.hdrs = ErrorHeaders(t), !.body = 0, !.pos = 0, !.end = 0,
            !.fd = IF @ > 0 THEN FdDisable ELSE @]
Canned(t) == [HeaderAdd(Wiped(t)) EXCEPT !.body = CannedLen]

CanCan(t) == t.keepBody \/ Room(Wiped(t)) > 0
ErrorResponse(t) == IF t.keepBody THEN t ELSE Canned(t)

-----------------------------------------------------------------------------
(* kitserv_http_prepare_response.  rc = 0 means the response is laid out;  *)
(* closes is the set of descriptors the step closed.                       *)
Closes(t) == IF ~ t.keepBody /\ t.fd > 0 THEN {t.fd} ELSE {}

Prepared(t, closed, method) == [rc |-> 0, ta |-> LayOut(t, method), closes |-> closed]
Dropped(t, closed) == [rc |-> -1, ta |-> t, closes |-> closed]

PrepareError(t, method) ==
  LET e == ErrorResponse(t)
  IN  CASE ~ CanCan(t)         -> Dropped(HeaderAdd(Wiped(t)), Closes(t))
        [] CanCan(t) /\ Fits(e) -> Prepared(e, Closes(t), method)
        [] OTHER               -> Dropped(Overflow(e), Closes(t))

PrepareResponse(t, method) ==
  CASE t.status = HANGUP        -> Dropped(t, {})
    [] StatusIsError(t.status)  -> PrepareError(t, method)
    [] OTHER -> IF Fits(t) THEN Prepared(t, {}, method)
                           ELSE PrepareError(Overflow(t), method)
=============================================================================
