---------------------------- MODULE ServeClient ----------------------------
(***************************************************************************)
(* One connection as a client worker serves it: kitserv_http_serve_client  *)
(* and the five functions it drives over a non-blocking socket, the        *)
(* payload reads of an API handler, and the peer at the other end.         *)
(*                                                                         *)
(* The worker runs serve_client when the edge-triggered queue reports the  *)
(* socket, and returns to the queue when a system call would block.  A     *)
(* step of the worker is one system call and the code up to the next one.  *)
(*                                                                         *)
(* Data is counted in units.  Unit <<i, k>> of the input is the k-th of    *)
(* request i: its first Requests[i].hdr units are the request line and     *)
(* the headers, the others its payload.                                    *)
(***************************************************************************)
EXTENDS Response, Sequences, FiniteSets

CONSTANTS
  Requests,      (* what the peer sends, in order                          *)
  BufSz,         (* HTTP_BUFSZ: units the request header buffer holds      *)
  TxCap,         (* units the send buffer of the socket holds              *)
  Splits,        (* a short writev may end beyond the first unsent buffer  *)
  MayShutdown,   (* the peer may close its sending side                    *)
  MayReset       (* the peer may reset the connection                      *)

(* reply is what serving the request sets: a file of so many units (NoFile *)
(* for a body), which may have shrunk since it was opened, the number of   *)
(* header lines, the body and the status.  reads is how much of the        *)
(* payload the endpoint takes before it answers; what it leaves is parsed  *)
(* as the next request.  That, and a malformed request, the parser refuses *)
(* somewhere: where is left open.                                          *)
NoFile == -1
Reply == [status : Nat \ {UNSET, HANGUP}, hdrs : 0 .. MaxHeaders, body : Nat, file : Nat \union {NoFile},
          shrinks : BOOLEAN, keepHeaders : BOOLEAN, keepBody : BOOLEAN]
Request == [hdr : Nat \ {0}, malformed : BOOLEAN, pay : Nat, reads : Nat,
            route : {"static", "api"}, method : {"GET", "HEAD", "POST"},
            v10 : BOOLEAN, reply : Reply]
Unread(q) == q.pay - q.reads

ASSUME RequestAssumption ==
  /\ Requests \in Seq(Request)
  /\ \A i \in 1 .. Len(Requests) :
       /\ Unread(Requests[i]) >= 0
       /\ Requests[i].route = "static" =>
            Requests[i].reads = 0 /\ Requests[i].method \in {"GET", "HEAD"}
       /\ Unread(Requests[i]) > 0 => i < Len(Requests)
ASSUME BufferAssumption == BufSz \in Nat \ {0} /\ TxCap \in Nat \ {0}
ASSUME KernelAssumption == {Splits, MayShutdown, MayReset} \subseteq BOOLEAN

(* Start[i] input units come before those of request i.                    *)
Size(i) == Requests[i].hdr + Requests[i].pay
Start[i \in 1 .. Len(Requests) + 1] ==
  IF i = 1 THEN 0 ELSE Start[i - 1] + Size(i - 1)
Total == Start[Len(Requests) + 1]

Stream ==
  [n \in 1 .. Total |->
    LET i == CHOOSE j \in 1 .. Len(Requests) : Start[j] < n /\ n <= Start[j + 1]
    IN  <<i, n - Start[i]>>]

Null == -1             \* req_parse_iter of a new transaction

ZeroRequest ==
  [state |-> "READ", iter |-> Null, payload |-> 0, payload_len |-> 0, payload_pos |-> 0]

VARIABLES
  sent,        (* input units the peer has sent                            *)
  rx,          (* those the socket holds                                   *)
  peer,        (* "up", "eof" after a shutdown, "reset"                    *)
  txq,         (* units in the send buffer                                 *)
  nospace,     (* a write has blocked since the peer last received         *)
  edge,        (* the queue has an event for the socket                    *)
  pc,          (* where the worker is                                      *)
  req_headers, (* the units in req_headers                                 *)
  req,         (* request fields of client.ta                              *)
  resp,        (* response fields of client.ta, and resp_body.len          *)
  nbytes,      (* arguments and locals of kitserv_api_read_payload         *)
  written,
  got,         (* payload units the handler has, through its saved state   *)
  files,       (* open file descriptors; the file of request i is i        *)
  served,      (* transactions finished                                    *)
  due,         (* units of the responses laid out, but what a file lacked  *)
  wire         (* units the socket has accepted                            *)

netvars  == <<sent, rx, peer, txq, nospace>>
callvars == <<nbytes, written, got>>
outvars  == <<files, served, due, wire>>
vars == <<netvars, edge, pc, req_headers, req, resp, callvars, outvars>>

cur == served + 1      \* the request being served
Min2(a, b) == IF a < b THEN a ELSE b
First(s, n) == SubSeq(s, 1, n)
After(s, n) == SubSeq(s, n + 1, Len(s))

Init ==
  /\ sent = 0 /\ rx = <<>> /\ peer = "up" /\ txq = 0 /\ nospace = FALSE
  /\ edge = TRUE /\ pc = "idle"
  /\ req_headers = <<>> /\ req = ZeroRequest /\ resp = ZeroResponse
  /\ nbytes = 0 /\ written = 0 /\ got = <<>>
  /\ files = {} /\ served = 0 /\ due = <<>> /\ wire = <<>>

-----------------------------------------------------------------------------
(* The peer and the kernel.  New input, a hangup and, once a write has     *)
(* blocked, new space in the send buffer are edges.                        *)
Alive == pc # "closed"

PeerSend ==
  /\ Alive /\ peer = "up" /\ sent < Total
  /\ sent' = sent + 1
  /\ rx' = Append(rx, Stream[sent + 1])
  /\ edge' = TRUE
  /\ UNCHANGED <<peer, txq, nospace, pc, req_headers, req, resp, callvars, outvars>>

PeerShutdown ==
  /\ Alive /\ MayShutdown /\ peer = "up"
  /\ peer' = "eof" /\ edge' = TRUE
  /\ UNCHANGED <<sent, rx, txq, nospace, pc, req_headers, req, resp, callvars, outvars>>

PeerReset ==
  /\ Alive /\ MayReset /\ peer # "reset"
  /\ peer' = "reset" /\ rx' = <<>> /\ edge' = TRUE
  /\ UNCHANGED <<sent, txq, nospace, pc, req_headers, req, resp, callvars, outvars>>

PeerReceive ==
  /\ Alive /\ peer # "reset"
  /\ \E n \in 1 .. txq : txq' = txq - n
  /\ edge' = (edge \/ nospace)
  /\ nospace' = FALSE
  /\ UNCHANGED <<sent, rx, peer, pc, req_headers, req, resp, callvars, outvars>>

-----------------------------------------------------------------------------
(* serve_client enters at the state the transaction was left in, and       *)
(* returns 0 to wait for the next event or -1 to close the connection.     *)
Enter(state) ==
  CASE state = "READ" -> "recv"
    [] state = "SERVE" -> "serve"
    [] state = "SEND" -> "send"
    [] state = "SEND_FILE" -> "sendfile"

Event ==
  /\ pc = "idle" /\ edge
  /\ edge' = FALSE
  /\ pc' = Enter(req.state)
  /\ UNCHANGED <<netvars, req_headers, req, resp, callvars, outvars>>

Block == pc' = "idle"
Prepare == pc' = "prepare"
Drop == pc' = "close"

-----------------------------------------------------------------------------
(* kitserv_http_recv_request.  Each read is followed by the parser, which  *)
(* goes on from req_parse_iter and asks for more at the end of the data.   *)
SpaceFault == BufSz + 1 - Len(req_headers)
SpaceEarlyFault == BufSz - 1 - Len(req_headers)
PastEndFault == TRUE
Space == BufSz - Len(req_headers)
PastEnd == req.iter # Null /\ req.iter >= Len(req_headers)

(* Payload that was left is no request either.                             *)
Junk(buf) == buf # <<>> /\ (buf[1][2] # 1 \/ Requests[buf[1][1]].malformed)
HeadLen(buf) == Requests[buf[1][1]].hdr
Complete(buf) == buf # <<>> /\ ~ Junk(buf) /\ HeadLen(buf) <= Len(buf)

ParseMore(buf) ==
  /\ ~ Complete(buf)
  /\ req' = [req EXCEPT !.iter = Len(buf)]
  /\ UNCHANGED <<pc, resp>>

ParseReject(buf) ==
  /\ Junk(buf)
  /\ resp' = [resp EXCEPT !.status = BadRequest]
  /\ req' = [req EXCEPT !.state = "PREPARE_RESPONSE"]
  /\ Prepare

ParseDone(buf) ==
  /\ Complete(buf)
  /\ req' = [req EXCEPT !.state = "SERVE", !.payload = HeadLen(buf),
                        !.payload_len = Len(buf) - HeadLen(buf)]
  /\ pc' = "serve"
  /\ UNCHANGED resp

Parse(buf) == ParseMore(buf) \/ ParseReject(buf) \/ ParseDone(buf)

(* read returned data: parse on.                                           *)
RecvData ==
  /\ pc = "recv" /\ Space > 0 /\ peer # "reset" /\ rx # <<>>
  /\ LET n == Min2(Len(rx), Space)
     IN  /\ req_headers' = req_headers \o First(rx, n)
         /\ rx' = After(rx, n)
         /\ Parse(req_headers \o First(rx, n))
  /\ UNCHANGED <<sent, peer, txq, nospace, edge, callvars, outvars>>

(* It would block, and all there is has been parsed: wait for more.        *)
RecvBlock ==
  /\ pc = "recv" /\ Space > 0 /\ peer = "up" /\ rx = <<>> /\ PastEnd
  /\ Block
  /\ UNCHANGED <<netvars, edge, req_headers, req, resp, callvars, outvars>>

(* It would block, or the buffer is full, but the buffer holds data left   *)
(* by the transaction before: parse that.                                  *)
RecvLeftover ==
  /\ pc = "recv" /\ ~ PastEnd
  /\ Space > 0 => peer = "up" /\ rx = <<>>
  /\ Parse(req_headers)
  /\ UNCHANGED <<netvars, edge, req_headers, callvars, outvars>>

(* The buffer is full and the head is not complete: 431.                   *)
RecvFull ==
  /\ pc = "recv" /\ Space = 0 /\ PastEnd
  /\ resp' = [resp EXCEPT !.status = TooLarge]
  /\ req' = [req EXCEPT !.state = "PREPARE_RESPONSE"]
  /\ Prepare
  /\ UNCHANGED <<netvars, edge, req_headers, callvars, outvars>>

(* The read failed or found the end of the input: hang up.                 *)
RecvHangup ==
  /\ pc = "recv" /\ Space > 0
  /\ peer = "reset" \/ (peer = "eof" /\ rx = <<>>)
  /\ resp' = [resp EXCEPT !.status = HANGUP]
  /\ Drop
  /\ UNCHANGED <<netvars, edge, req_headers, req, callvars, outvars>>

-----------------------------------------------------------------------------
(* kitserv_http_serve_request: a static path is answered at once, an API   *)
(* endpoint is called until it sets the status.                            *)
Served(reply, method) ==
  LET fd == CASE reply.file = NoFile -> FdDisable
              [] /\ reply.file # NoFile
                 /\ method = "HEAD" /\ Requests[cur].route = "static" -> FdHead
              [] OTHER -> cur
  IN  /\ resp' = [resp EXCEPT !.status = reply.status, !.hdrs = reply.hdrs,
                     !.body = reply.body, !.fd = fd,
                     !.end = IF fd = FdDisable THEN 0 ELSE reply.file - 1,
                     !.keepHeaders = reply.keepHeaders, !.keepBody = reply.keepBody]
      /\ files' = IF fd > 0 THEN files \union {fd} ELSE files
      /\ req' = [req EXCEPT !.state = "PREPARE_RESPONSE"]
      /\ Prepare

ServeStatic ==
  /\ pc = "serve" /\ Requests[cur].route = "static"
  /\ Served(Requests[cur].reply, Requests[cur].method)
  /\ UNCHANGED <<netvars, edge, req_headers, callvars, served, due, wire>>

ServeApi ==
  /\ pc = "serve" /\ Requests[cur].route = "api"
  /\ pc' = "handler"
  /\ UNCHANGED <<netvars, edge, req_headers, req, resp, callvars, outvars>>

(* The handler, written as read_payload(3) asks: it reads its payload in   *)
(* as many calls as it takes, returns when a read blocks or fails, and     *)
(* answers when it has what it wants.                                      *)
Wanted == Requests[cur].reads - Len(got)

HandlerAnswer ==
  /\ pc = "handler" /\ Wanted = 0
  /\ Served(Requests[cur].reply, Requests[cur].method)
  /\ UNCHANGED <<netvars, edge, req_headers, callvars, served, due, wire>>

(* kitserv_api_read_payload: what was read beyond the headers comes first. *)
OverreadFault == 0
Overread == req.payload_len - req.payload_pos

HandlerRead ==
  /\ pc = "handler" /\ Wanted > 0
  /\ \E n \in 1 .. Wanted :
       LET m == Min2(n, Overread)
           p == req.payload + req.payload_pos
       IN  /\ got' = got \o SubSeq(req_headers, p + 1, p + m)
           /\ req' = [req EXCEPT !.payload_pos = @ + m]
           /\ nbytes' = n - m
           /\ written' = m
           /\ pc' = IF n > m THEN "payload" ELSE "handler"
  /\ UNCHANGED <<netvars, edge, req_headers, resp, outvars>>

PayloadData ==
  /\ pc = "payload" /\ peer # "reset" /\ rx # <<>>
  /\ LET n == Min2(Len(rx), nbytes)
     IN  /\ got' = got \o First(rx, n)
         /\ rx' = After(rx, n)
         /\ nbytes' = nbytes - n
         /\ written' = written + n
         /\ pc' = IF n < nbytes THEN "payload" ELSE "handler"
  /\ UNCHANGED <<sent, peer, txq, nospace, edge, req_headers, req, resp, outvars>>

(* Nothing to read: a partial result is returned to the handler, otherwise *)
(* the handler returns with no status set, which ends this round.  So does *)
(* the end of the input: -1, with no errno and no status of its own.       *)
PayloadPartial ==
  /\ pc = "payload" /\ peer # "reset" /\ rx = <<>> /\ written > 0
  /\ pc' = "handler"
  /\ UNCHANGED <<netvars, edge, req_headers, req, resp, callvars, outvars>>

PayloadBlock ==
  /\ pc = "payload" /\ peer = "up" /\ rx = <<>> /\ written = 0
  /\ Block
  /\ UNCHANGED <<netvars, edge, req_headers, req, resp, callvars, outvars>>

PayloadEof ==
  /\ pc = "payload" /\ peer = "eof" /\ rx = <<>> /\ written = 0
  /\ Block
  /\ UNCHANGED <<netvars, edge, req_headers, req, resp, callvars, outvars>>

PayloadError ==
  /\ pc = "payload" /\ peer = "reset"
  /\ resp' = [resp EXCEPT !.status = HANGUP]
  /\ req' = [req EXCEPT !.state = "PREPARE_RESPONSE"]
  /\ Prepare
  /\ UNCHANGED <<netvars, edge, req_headers, callvars, outvars>>

-----------------------------------------------------------------------------
(* kitserv_http_prepare_response.                                          *)
BufUnits(b, buf) == [k \in 1 .. buf.len |-> <<cur, b, buf.base + k>>]
HeadUnits(bufs) == BufUnits(1, bufs[1]) \o BufUnits(2, bufs[2]) \o BufUnits(3, bufs[3])
SendsFile(t) == t.fd > 0 /\ Requests[cur].method # "HEAD"
FileUnits(t) ==
  IF SendsFile(t) THEN [k \in 1 .. t.end - t.pos + 1 |-> <<cur, 4, t.pos + k>>] ELSE <<>>

PrepareOk ==
  /\ pc = "prepare"
  /\ LET r == PrepareResponse(resp, Requests[cur].method)
     IN  /\ r.rc = 0
         /\ resp' = r.ta
         /\ files' = files \ r.closes
         /\ due' = due \o HeadUnits(r.ta.bufs) \o FileUnits(r.ta)
  /\ req' = [req EXCEPT !.state = "SEND"]
  /\ pc' = "send"
  /\ UNCHANGED <<netvars, edge, req_headers, callvars, served, wire>>

PrepareFail ==
  /\ pc = "prepare"
  /\ LET r == PrepareResponse(resp, Requests[cur].method)
     IN  /\ r.rc # 0
         /\ resp' = r.ta
         /\ files' = files \ r.closes
  /\ Drop
  /\ UNCHANGED <<netvars, edge, req_headers, req, callvars, served, due, wire>>

-----------------------------------------------------------------------------
(* kitserv_http_send_response: writev until the three buffers are empty.   *)
(* After a short write the lengths are brought up to date buffer by        *)
(* buffer, each compared with the whole of rc.                             *)
TxSpace == TxCap - txq

AdvanceFault(bufs, rc) ==
  [i \in 1 .. 3 |-> [bufs[i] EXCEPT !.len = IF @ <= rc THEN 0 ELSE @ - rc]]

Advance(bufs, rc) ==
  LET stop == {i \in 1 .. 3 : bufs[i].len > rc}
      last == IF stop = {} THEN 4 ELSE CHOOSE i \in stop : \A j \in stop : i <= j
  IN  [i \in 1 .. 3 |->
         CASE i < last -> [base |-> bufs[i].base + rc, len |-> 0]
           [] i = last -> [base |-> bufs[i].base + rc, len |-> bufs[i].len - rc]
           [] i > last -> bufs[i]]

AllSent(bufs) == \A i \in 1 .. 3 : bufs[i].len = 0

(* What the kernel may take of n units: everything, a part of the first    *)
(* unsent buffer, or with Splits any part.                                 *)
FirstUnsent(bufs) ==
  LET i == CHOOSE j \in 1 .. 3 : bufs[j].len > 0 /\ \A k \in 1 .. j - 1 : bufs[k].len = 0
  IN  bufs[i].len

Writable(bufs) ==
  {n \in 1 .. TxSpace :
     \/ n = Len(HeadUnits(bufs))
     \/ n < Len(HeadUnits(bufs)) /\ (Splits \/ n < FirstUnsent(bufs))}

Writev ==
  /\ pc = "send" /\ peer # "reset"
  /\ \E rc \in Writable(resp.bufs) :
       LET bufs == Advance(resp.bufs, rc)
       IN  /\ wire' = wire \o First(HeadUnits(resp.bufs), rc)
           /\ txq' = txq + rc
           /\ resp' = [resp EXCEPT !.bufs = bufs]
           /\ IF AllSent(bufs)
                THEN req' = [req EXCEPT !.state = "SEND_FILE"] /\ pc' = "sendfile"
                ELSE UNCHANGED <<req, pc>>
  /\ UNCHANGED <<sent, rx, peer, nospace, edge, req_headers, callvars, files, served, due>>

WritevBlock ==
  /\ pc = "send" /\ peer # "reset" /\ Writable(resp.bufs) = {}
  /\ nospace' = TRUE
  /\ Block
  /\ UNCHANGED <<sent, rx, peer, txq, edge, req_headers, req, resp, callvars, outvars>>

(* The test of a failing writev is on the constant EAGAIN: it returns 0    *)
(* whatever the error was.                                                 *)
WritevError ==
  /\ pc = "send" /\ peer = "reset"
  /\ Block
  /\ UNCHANGED <<netvars, edge, req_headers, req, resp, callvars, outvars>>

-----------------------------------------------------------------------------
(* kitserv_http_send_response_file: sendfile until the range is sent, then *)
(* close the descriptor.                                                   *)
Left == resp.end - resp.pos + 1

SendFileNone ==
  /\ pc = "sendfile" /\ ~ SendsFile(resp)
  /\ req' = [req EXCEPT !.state = "DONE"] /\ pc' = "done"
  /\ UNCHANGED <<netvars, edge, req_headers, resp, callvars, outvars>>

FileSentLeakFault(t) ==
  /\ resp' = [t EXCEPT !.fd = FdDisable]
  /\ req' = [req EXCEPT !.state = "DONE"] /\ pc' = "done"
  /\ UNCHANGED files
FileSentStaleFault(t) ==
  /\ resp' = t
  /\ files' = files \ {t.fd}
  /\ req' = [req EXCEPT !.state = "DONE"] /\ pc' = "done"

FileSent(t) ==
  /\ resp' = [t EXCEPT !.fd = FdDisable]
  /\ files' = files \ {t.fd}
  /\ req' = [req EXCEPT !.state = "DONE"] /\ pc' = "done"

SendFile ==
  /\ pc = "sendfile" /\ SendsFile(resp) /\ peer # "reset"
  /\ \E rc \in 1 .. Min2(TxSpace, Left) :
       LET t == [resp EXCEPT !.pos = @ + rc]
       IN  /\ wire' = wire \o [k \in 1 .. rc |-> <<cur, 4, resp.pos + k>>]
           /\ txq' = txq + rc
           /\ IF t.pos > t.end THEN FileSent(t)
                               ELSE resp' = t /\ UNCHANGED <<req, pc, files>>
  /\ UNCHANGED <<sent, rx, peer, nospace, edge, req_headers, callvars, served, due>>

SendFileEmpty ==
  /\ pc = "sendfile" /\ SendsFile(resp) /\ Left = 0
  /\ FileSent(resp)
  /\ UNCHANGED <<netvars, edge, req_headers, callvars, served, due, wire>>

(* sendfile found the end of the file early: done, the descriptor stays    *)
(* and the rest of what the response promised is never sent.               *)
SendFileShort ==
  /\ pc = "sendfile" /\ SendsFile(resp) /\ Left > 0 /\ peer # "reset"
  /\ Requests[cur].reply.shrinks
  /\ req' = [req EXCEPT !.state = "DONE"] /\ pc' = "done"
  /\ due' = wire
  /\ UNCHANGED <<netvars, edge, req_headers, resp, callvars, files, served, wire>>

SendFileBlock ==
  /\ pc = "sendfile" /\ SendsFile(resp) /\ Left > 0 /\ TxSpace = 0 /\ peer # "reset"
  /\ nospace' = TRUE
  /\ Block
  /\ UNCHANGED <<sent, rx, peer, txq, edge, req_headers, req, resp, callvars, outvars>>

SendFileErrorFault ==
  /\ pc = "sendfile" /\ SendsFile(resp) /\ Left > 0 /\ peer = "reset"
  /\ Block
  /\ UNCHANGED <<netvars, edge, req_headers, req, resp, callvars, outvars>>
SendFileError ==
  /\ pc = "sendfile" /\ SendsFile(resp) /\ Left > 0 /\ peer = "reset"
  /\ Drop
  /\ UNCHANGED <<netvars, edge, req_headers, req, resp, callvars, outvars>>

-----------------------------------------------------------------------------
(* The end of a transaction: an error or HTTP/1.0 closes the connection,   *)
(* otherwise finalize_transaction moves what was read beyond this request  *)
(* to the front of the header buffer and the next one starts.              *)
LastOne == StatusIsError(resp.status) \/ Requests[cur].v10

EndConnection ==
  /\ pc = "done" /\ LastOne
  /\ Drop
  /\ UNCHANGED <<netvars, edge, req_headers, req, resp, callvars, outvars>>

RemainingFault == After(req_headers, req.payload)
Remaining == After(req_headers, req.payload + req.payload_pos)

Finalize ==
  /\ pc = "done" /\ ~ LastOne
  /\ req_headers' = Remaining
  /\ req' = ZeroRequest /\ resp' = ZeroResponse
  /\ nbytes' = 0 /\ written' = 0 /\ got' = <<>>
  /\ served' = served + 1
  /\ pc' = "recv"
  /\ UNCHANGED <<netvars, edge, files, due, wire>>

(* client_worker removes, closes and resets the connection (ConnPool).     *)
Close ==
  /\ pc = "close"
  /\ pc' = "closed"
  /\ req_headers' = <<>> /\ req' = ZeroRequest /\ resp' = ZeroResponse
  /\ edge' = FALSE
  /\ UNCHANGED <<netvars, callvars, outvars>>

-----------------------------------------------------------------------------
Recv == RecvData \/ RecvBlock \/ RecvLeftover \/ RecvFull \/ RecvHangup
Payload == \/ PayloadData \/ PayloadPartial \/ PayloadBlock
           \/ PayloadEof \/ PayloadError
Serve == ServeStatic \/ ServeApi \/ HandlerAnswer \/ HandlerRead \/ Payload
PrepareResp == PrepareOk \/ PrepareFail
Send == Writev \/ WritevBlock \/ WritevError
SendResponseFile == \/ SendFileNone \/ SendFile \/ SendFileEmpty
                    \/ SendFileShort \/ SendFileBlock \/ SendFileError
Worker == \/ Event \/ Recv \/ Serve \/ PrepareResp \/ Send \/ SendResponseFile
          \/ EndConnection \/ Finalize \/ Close
Peer == PeerSend \/ PeerShutdown \/ PeerReset \/ PeerReceive

Next == Worker \/ Peer
Spec == Init /\ [][Next]_vars

(* The worker thread is scheduled, a peer sends what it has to send and    *)
(* receives what is sent to it; nothing makes it hang up.                  *)
FairSpec == Spec /\ WF_vars(Worker) /\ WF_vars(PeerSend) /\ WF_vars(PeerReceive)

-----------------------------------------------------------------------------
InUnit  == (1 .. Len(Requests)) \X (Nat \ {0})
OutUnit == (1 .. Len(Requests)) \X (1 .. 4) \X Int

RequestRecord ==
  [state : {"READ", "SERVE", "PREPARE_RESPONSE", "SEND", "SEND_FILE", "DONE"},
   iter : {Null} \union 0 .. BufSz, payload : 0 .. BufSz,
   payload_len : 0 .. BufSz, payload_pos : 0 .. BufSz]

(* The variables have the shapes they are declared with, and the header    *)
(* buffer is never filled beyond its size.                                 *)
TypeOK ==
  /\ sent \in 0 .. Total /\ peer \in {"up", "eof", "reset"}
  /\ txq \in 0 .. TxCap /\ {nospace, edge} \subseteq BOOLEAN
  /\ pc \in {"idle", "recv", "serve", "handler", "payload", "prepare", "send",
             "sendfile", "done", "close", "closed"}
  /\ rx \in Seq(InUnit) /\ req_headers \in Seq(InUnit) /\ got \in Seq(InUnit)
  /\ Len(req_headers) <= BufSz
  /\ req \in RequestRecord
  /\ req.payload_pos <= req.payload_len
  /\ resp \in ResponseRecord
  /\ nbytes \in Nat /\ written \in Nat
  /\ files \subseteq 1 .. Len(Requests) /\ served \in 0 .. Len(Requests)
  /\ due \in Seq(OutUnit) /\ wire \in Seq(OutUnit)

(* No input is lost, repeated or reordered on its way through the header   *)
(* buffer, the payload reads and the move of leftover data by              *)
(* finalize_transaction: what the buffer holds, what the handler read past *)
(* it and what is still in the socket are, in this order, what the peer    *)
(* sent after the last unit an earlier request has used.                   *)
UnreadBefore(i) == IF i = 1 THEN 0 ELSE Unread(Requests[i - 1])
Base(i) == Start[i] - UnreadBefore(i)
Direct == After(got, req.payload_pos)
InputConserved ==
  Alive /\ peer # "reset" =>
    req_headers \o Direct \o rx = SubSeq(Stream, Base(cur) + 1, sent)

(* The handler gets the units of its own payload, each once and in order,  *)
(* whether they came with the headers or later, and never what an earlier  *)
(* request left of its own (read_payload).                                 *)
HandlerSeesPayload ==
  \A k \in 1 .. Len(got) : got[k] = <<cur, Requests[cur].hdr + k>>

(* What the socket accepted is a prefix of the responses, in the order of  *)
(* the requests, and a response is complete before the next request is     *)
(* looked at (send_response, send_response_file).                          *)
ResponsesWhole ==
  /\ Len(wire) <= Len(due) /\ wire = First(due, Len(wire))
  /\ Alive /\ req.state \in {"READ", "SERVE"} => wire = due

(* The connection waits for the queue only when the queue has something to *)
(* tell it: every return of 0 from serve_client follows a system call that *)
(* would have blocked, and nothing has arrived since without an event.     *)
(* (A writev that fails because of a reset returns 0 as well: HangsUp.)    *)
NoLostWakeup ==
  pc = "idle" /\ ~ edge /\ peer # "reset" =>
    \/ req.state = "READ" /\ ~ Complete(req_headers) /\ rx = <<>> /\ peer = "up"
    \/ req.state = "SERVE" /\ rx = <<>>
    \/ req.state \in {"SEND", "SEND_FILE"} /\ nospace

(* A request is refused as too large only if its head is larger than the   *)
(* buffer, and as malformed only if it is: data an earlier request left in *)
(* the buffer, the end of its own payload excepted, neither takes room     *)
(* from it nor is taken for a part of it (recv_request, cases 4 and 5).    *)
Spoiled(i) == UnreadBefore(i) > 0 \/ Requests[i].malformed
RefusedRightly ==
  resp.status \in {TooLarge, BadRequest} /\ Requests[cur].reply.status # resp.status =>
    Spoiled(cur) \/ (resp.status = TooLarge /\ Requests[cur].hdr > BufSz)

(* A descriptor in resp_fd is open and is the one this request was served  *)
(* with: it is never used after it was closed.  (A connection that is to   *)
(* be closed uses it no more.)                                             *)
FileOwned == resp.fd > 0 /\ pc # "close" => resp.fd = cur /\ resp.fd \in files

(* "fd will be closed after the file has been sent" (kitserv.h): when a    *)
(* transaction is over no file is left open, unless it ended early, was    *)
(* given to a HEAD request, or was forgotten because only the blank line   *)
(* after the headers did not fit.                                          *)
BlankMisfit(i) == MaxHeaders - Requests[i].reply.hdrs = 2
Leaks(i) == LET q == Requests[i]
            IN  \/ q.reply.shrinks \/ BlankMisfit(i)
                \/ q.route = "api" /\ q.method = "HEAD"
FileClosedAfterSending ==
  Alive /\ req.state = "READ" => \A i \in files : Leaks(i)

-----------------------------------------------------------------------------
(* Every request of a peer that sends and receives is answered, up to the  *)
(* first whose response ends the connection, unless the peer hangs up.     *)
Overruns(q) ==
  /\ q.reply.hdrs + 3 > MaxHeaders
  /\ q.reply.hdrs + 2 = MaxHeaders =>
       q.reply.keepHeaders \/ q.reply.keepBody \/ MaxHeaders < 4
Ends(i) == LET q == Requests[i]
           IN  \/ q.hdr > BufSz \/ Spoiled(i) \/ q.v10
               \/ StatusIsError(q.reply.status) \/ Overruns(q)
Answerable ==
  {i \in 1 .. Len(Requests) : \A j \in 1 .. i : ~ Ends(j)}
AllAnswered == <>(served = Cardinality(Answerable) \/ peer # "up")

(* "On error, ... close the connection" (http.h): a connection whose peer  *)
(* has reset it is dropped, so that its slot can serve another.            *)
HangsUp == peer = "reset" ~> pc = "closed"

(* It is, whichever system call the reset meets, but for a writev.         *)
HangupNoticed ==
  peer = "reset" ~> (pc = "closed" \/ req.state = "SEND")

(* The connection implements Connection: a response needs the head of its  *)
(* request, as far as the parser reads it, and what the endpoint reads.    *)
Needed(i) == Base(i) +
  CASE Spoiled(i) -> 1
    [] ~ Spoiled(i) /\ Requests[i].hdr > BufSz -> BufSz
    [] OTHER -> Requests[i].hdr + Requests[i].reads

Abstract == INSTANCE Connection WITH
  Need      <- [i \in 1 .. Len(Requests) |-> Needed(i)],
  Final     <- {i \in 1 .. Len(Requests) : Ends(i)},
  MayCut    <- {i \in 1 .. Len(Requests) : Requests[i].reply.shrinks},
  arrived   <- sent,
  promised  <- due,
  delivered <- wire,
  live      <- Alive

(* Whatever the reads, writes and events do to it, every step of serving   *)
(* is one of the abstract connection, or none that the peer can see.       *)
ConnectionSpec == Abstract!Spec
-----------------------------------------------------------------------------
(* The inductive invariant.                                                *)

(* serve_client is entered where the transaction was left.                 *)
ControlOK ==
  /\ pc \in {"recv", "closed"} => req.state = "READ"
  /\ pc \in {"serve", "handler", "payload"} => req.state = "SERVE"
  /\ pc = "prepare" => req.state = "PREPARE_RESPONSE"
  /\ pc = "send" => req.state = "SEND"
  /\ pc = "sendfile" => req.state = "SEND_FILE"
  /\ pc = "done" => req.state = "DONE"
  /\ pc = "idle" => req.state \in {"READ", "SERVE", "SEND", "SEND_FILE"}
  /\ pc = "close" => req.state \notin {"SERVE", "SEND"}
  /\ req.state # "READ" => served < Len(Requests)

(* Each unit the connection holds is the one that comes next in the input. *)
(* A reset loses what the socket still held.                               *)
Held == Base(cur) + Len(req_headers) + Len(got) - req.payload_pos
InputOK ==
  Alive =>
    /\ req.payload_pos <= Len(got)
    /\ \A k \in 1 .. Len(req_headers) : req_headers[k] = Stream[Base(cur) + k]
    /\ \A k \in req.payload_pos + 1 .. Len(got) :
         got[k] = Stream[Base(cur) + Len(req_headers) + k - req.payload_pos]
    /\ IF peer = "reset"
         THEN Held <= sent
         ELSE /\ Held + Len(rx) = sent
              /\ \A k \in 1 .. Len(rx) : rx[k] = Stream[Held + k]

(* The head of a request that is served is its own, and its endpoint takes *)
(* first what was read beyond it.                                          *)
Accepted == req.payload # 0
PayloadOK ==
  /\ Accepted =>
       /\ ~ Spoiled(cur) /\ req.payload = Requests[cur].hdr
       /\ req.payload + req.payload_len = Len(req_headers)
       /\ Len(got) <= Requests[cur].reads
       /\ req.payload_pos < Len(got) => req.payload_pos = req.payload_len
       /\ \A k \in 1 .. req.payload_pos : got[k] = req_headers[req.payload + k]
  /\ ~ Accepted => req.payload_len = 0 /\ (Alive => got = <<>>)
  /\ req.state = "READ" => ~ Accepted
  /\ req.state = "SERVE" => Accepted
  /\ pc = "payload" =>
       /\ nbytes > 0 /\ nbytes <= Wanted
       /\ req.payload_pos = req.payload_len

(* What has been parsed and was not enough is not parsed again.            *)
ParsedOK ==
  Alive /\ req.state = "READ" =>
    req.iter = Null \/ (req.iter = Len(req_headers) /\ ~ Complete(req_headers))

(* Where a response comes from: the endpoint or file of the request, or a  *)
(* refusal.                                                                *)
Answered ==
  /\ Accepted /\ Len(got) = Requests[cur].reads
  /\ resp.status = Requests[cur].reply.status
Refused ==
  /\ resp = [ZeroResponse EXCEPT !.status = resp.status]
  /\ \/ resp.status = HANGUP
     \/ resp.status = BadRequest /\ Spoiled(cur) /\ req_headers # <<>>
     \/ /\ resp.status = TooLarge /\ Len(req_headers) = BufSz
        /\ Spoiled(cur) \/ Requests[cur].hdr > BufSz

ResponseOK ==
  /\ req.state \in {"READ", "SERVE"} /\ pc # "close" => resp = ZeroResponse
  /\ req.state = "READ" /\ pc = "close" => resp = [ZeroResponse EXCEPT !.status = HANGUP]
  /\ pc = "prepare" =>
       /\ resp.pos = 0
       /\ resp.fd \in {FdDisable, FdHead, cur}
       /\ resp.fd = cur => resp.end >= -1
       /\ resp.fd = cur => Requests[cur].route = "api" \/ Requests[cur].method # "HEAD"
       /\ \/ Refused
          \/ /\ Answered
             /\ resp.hdrs = Requests[cur].reply.hdrs
             /\ resp.keepHeaders = Requests[cur].reply.keepHeaders
             /\ resp.keepBody = Requests[cur].reply.keepBody
  /\ req.state \in {"SEND", "SEND_FILE", "DONE"} =>
       /\ ~ StatusIsError(resp.status) => Answered /\ ~ Overruns(Requests[cur])
       /\ resp.fd = cur => Requests[cur].route = "api" \/ Requests[cur].method # "HEAD"
       /\ resp.fd = cur => resp.pos <= resp.end + 1

(* A file that is open is this request's, or one its request has leaked.   *)
FileOK ==
  /\ \A i \in files : i <= cur /\ (i < cur => Leaks(i))
  /\ Alive /\ req.state \in {"READ", "SERVE"} => cur \notin files
  /\ pc \in {"prepare", "idle", "send", "sendfile"} /\ cur \in files =>
       resp.fd = cur \/ Leaks(cur)
  /\ pc = "done" /\ cur \in files => Leaks(cur)

IInv ==
  /\ TypeOK
  /\ ControlOK
  /\ InputOK
  /\ PayloadOK
  /\ ParsedOK
  /\ ResponseOK
  /\ FileOK
  /\ FileOwned
  /\ NoLostWakeup
  /\ RefusedRightly
  /\ HandlerSeesPayload

(* Besides, for the refinement: what is due and not yet on the wire is     *)
(* what the buffers and the rest of the file hold, and the last response   *)
(* begun is that of the request before, until this one is prepared.        *)
Pending ==
  CASE req.state = "SEND"      -> HeadUnits(resp.bufs) \o FileUnits(resp)
    [] req.state = "SEND_FILE" -> FileUnits(resp)
    [] OTHER                   -> <<>>
Sending == req.state \in {"SEND", "SEND_FILE", "DONE"}
PromiseOK ==
  Alive =>
    /\ due = wire \o Pending
    /\ Abstract!begun = IF Sending THEN cur ELSE served
    /\ req.state = "SEND_FILE" => wire # <<>> /\ wire[Len(wire)][1] = cur
    /\ served > 0 => ~ Ends(served)
=============================================================================
