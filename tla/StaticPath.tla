----------------------------- MODULE StaticPath -----------------------------
(***************************************************************************)
(* kitserv_http_handle_static_path: the search for the file of a request,  *)
(* its range and its modification date, on a worker thread whose errno     *)
(* outlives the requests it serves.                                        *)
(*                                                                         *)
(* The file system is what a stat and an open of each candidate path give: *)
(* "file", "unreadable" (stat works, open does not), "dir", "missing",     *)
(* "denied" (stat fails with EACCES), "long" (the path does not fit), or   *)
(* "off" when the context does not configure the fallback.  The operators  *)
(* are pure; Transaction runs them.                                        *)
(***************************************************************************)
EXTENDS Response, Sequences

CONSTANT Fd            \* the descriptor that open gives

ASSUME StaticAssumption == Fd \in Nat \ {0}

FileKind == {"file", "unreadable", "dir", "missing", "denied", "long"}

-----------------------------------------------------------------------------
(* The search.  A candidate is verified by a stat, which sets errno only   *)
(* when it fails; a directory leaves errno as it was.  Of its values the   *)
(* code knows EACCES only.                                                 *)
Found(kind) == kind \in {"file", "unreadable"}

StatErrno(kind, e) ==
  CASE kind = "denied"              -> "EACCES"
    [] kind \in {"missing", "long"} -> "other"
    [] OTHER                        -> e

VerifyStatus(kind, e) ==
  CASE kind = "long" -> 414
    [] kind \in {"dir", "missing", "denied"} /\ StatErrno(kind, e) = "EACCES" -> 403
    [] OTHER -> UNSET

CandidatesFault(in) ==
  << IF in.isRoot /\ in.names["root"] # "off" THEN "root" ELSE "direct" >>
  \o (IF in.names["fallback"] # "off" THEN <<"fallback">> ELSE <<>>)
  \o (IF in.names["html"] # "off" THEN <<"html">> ELSE <<>>)

Candidates(in) ==
  << IF in.isRoot /\ in.names["root"] # "off" THEN "root" ELSE "direct" >>
  \o (IF in.names["html"] # "off" THEN <<"html">> ELSE <<>>)
  \o (IF in.names["fallback"] # "off" THEN <<"fallback">> ELSE <<>>)

Search(in, e0) ==
  LET cand == Candidates(in)
      Try[k \in 0 .. Len(cand)] ==
        IF k = 0 THEN [errno |-> e0, status |-> UNSET, name |-> "none"]
        ELSE LET was == Try[k - 1]
                 kind == in.names[cand[k]]
             IN  IF was.status # UNSET \/ was.name # "none" THEN was
                 ELSE [errno |-> StatErrno(kind, was.errno),
                       status |-> VerifyStatus(kind, was.errno),
                       name |-> IF Found(kind) THEN cand[k] ELSE "none"]
  IN  Try[Len(cand)]

-----------------------------------------------------------------------------
(* parse_range_request.  in.range is what kitserv_http_parse_range makes   *)
(* of the header: "none", "bad", or "bytes" with -1 for a missing end.     *)
Clamp(to, size) == IF to < 0 \/ to > size - 1 THEN size - 1 ELSE to

ByteRangeFault(range, size) == [from |-> range.from, to |-> range.to]

ByteRange(range, size) ==
  LET to == Clamp(range.to, size)
  IN  IF range.from < 0 THEN [from |-> size - to, to |-> size - 1]
                        ELSE [from |-> range.from, to |-> to]
Satisfiable(range, size) == range.from <= size

(* The response fields once the file is found.                             *)
Start0(in, hdrs, fd) ==
  [ZeroResponse EXCEPT !.fd = fd, !.end = in.size - 1, !.hdrs = hdrs]

(* close_fd_to_zero; what is opened stays open only where fd still is.     *)
CloseFdFault(t) == t
CloseFd(t) == [t EXCEPT !.fd = IF @ > 0 THEN FdDisable ELSE @]

Failed(t, status) == [rc |-> -1, ta |-> CloseFd([t EXCEPT !.status = status])]

(* The range, when there is one, and its content-range header.             *)
WithRange(in, t) ==
  LET range == ByteRange(in.range, in.size)
      r == [t EXCEPT !.pos = range.from, !.end = range.to]
  IN  CASE in.range.kind \in {"none", "bad"} -> [rc |-> 0, ta |-> t]
        [] in.range.kind = "bytes" /\ ~ Satisfiable(in.range, in.size) ->
             LET h == HeaderAdd([t EXCEPT !.status = 416])
             IN  [rc |-> -1, ta |-> CloseFd([h EXCEPT !.keepHeaders = TRUE])]
        [] in.range.kind = "bytes" /\ Satisfiable(in.range, in.size) /\ Room(t) = 0 ->
             Failed(r, 500)
        [] OTHER -> [rc |-> 0, ta |-> HeaderAdd(r)]

(* content-type, accept-ranges, last-modified, and If-Modified-Since.      *)
Conditional(in, t) ==
  LET h == [t EXCEPT !.hdrs = IF Room(t) < 3 THEN MaxHeaders ELSE @ + 3]
      ok == IF in.range.kind = "bytes" THEN 206 ELSE OK
  IN  CASE Room(t) < 3 -> Failed(h, 500)
        [] Room(t) >= 3 /\ in.since = "bad" -> Failed(h, BadRequest)
        [] Room(t) >= 3 /\ in.since = "current" ->
             [rc |-> 0, ta |-> CloseFd([h EXCEPT !.status = 304])]
        [] OTHER -> [rc |-> 0, ta |-> [h EXCEPT !.status = ok]]

Transfer(in, hdrs, fd) ==
  LET ranged == WithRange(in, Start0(in, hdrs, fd))
  IN  IF ranged.rc # 0 THEN ranged ELSE Conditional(in, ranged.ta)

-----------------------------------------------------------------------------
(* Reading the numbers of a range sets errno.                              *)
ErrnoAfter(range, e) == IF range.numbers THEN "other" ELSE e

(* The whole function, called with hdrs header lines already added: its    *)
(* result and the errno it leaves.                                         *)
Refuse(hdrs, status) ==
  [rc |-> -1, ta |-> [ZeroResponse EXCEPT !.status = status, !.hdrs = hdrs]]

FindFile(in, hdrs, s) ==
  CASE s.status # UNSET -> [res |-> Refuse(hdrs, s.status), errno |-> s.errno]
    [] s.status = UNSET /\ s.name = "none" -> [res |-> Refuse(hdrs, 404), errno |-> s.errno]
    [] OTHER ->
         CASE in.method = "HEAD" -> 
                [res |-> Transfer(in, hdrs, FdHead), errno |-> ErrnoAfter(in.range, s.errno)]
           [] in.method = "GET" /\ in.names[s.name] = "unreadable" ->
                [res |-> Refuse(hdrs, 500), errno |-> "EACCES"]
           [] in.method = "GET" /\ in.names[s.name] = "file" ->
                [res |-> Transfer(in, hdrs, Fd), errno |-> ErrnoAfter(in.range, s.errno)]

HandleStaticPath(in, hdrs, e) ==
  IF in.method \in {"GET", "HEAD"}
    THEN FindFile(in, hdrs, Search(in, e))
    ELSE [res |-> Refuse(hdrs, NotAllowed), errno |-> "other"]

(* A 304 is sent as the response to a HEAD.                                *)
MethodAfter(in, ta) == IF ta.status = 304 THEN "HEAD" ELSE in.method
=============================================================================
