--------------------------- MODULE MCTransaction ----------------------------
(* Trees, file systems and endpoints for the runs of Transaction.          *)
EXTENDS Transaction

a == <<"a">>
b == <<"b">>
c == <<"c">>
ab == <<"a", "b">>
end == <<>>
Entry(p, m, f, h) == [prefix |-> p, method |-> m, finishes |-> f, handler |-> h]

(* Endpoints that share a prefix, two subtrees of the root, and one of     *)
(* theirs, called like the root's of the same index.                       *)
TwoNodes == {"root", "t1", "t2", "t3"}
TwoPrefix == [root |-> end, t1 |-> c, t2 |-> ab, t3 |-> c]
TwoEntries ==
  [root |-> << Entry(a, "GET", TRUE, "rootA"), Entry(a, "POST", FALSE, "rootA2"),
               Entry(b, "PUT", TRUE, "rootB") >>,
   t1 |-> << Entry(a, "GET", FALSE, "t1A"), Entry(ab, "GET", TRUE, "t1AB"),
             Entry(ab, "POST", TRUE, "t1AB2") >>,
   t2 |-> << Entry(b, "GET", TRUE, "t2B") >>,
   t3 |-> << Entry(b, "POST", TRUE, "t3B"), Entry(end, "GET", TRUE, "t3end") >>]
TwoSubtrees == [root |-> << "t1", "t2" >>, t1 |-> << "t3" >>, t2 |-> <<>>, t3 |-> <<>>]

(* A subtree of a subtree, at the same index as a subtree of the root with *)
(* another name.                                                           *)
DeepNodes == {"root", "t1", "t2"}
DeepPrefix == [root |-> end, t1 |-> a, t2 |-> b]
DeepEntries == [root |-> <<>>, t1 |-> <<>>, t2 |-> << Entry(c, "GET", TRUE, "deep") >>]
DeepSubtrees == [root |-> << "t1" >>, t1 |-> << "t2" >>, t2 |-> <<>>]

-----------------------------------------------------------------------------
Kinds == {"file", "unreadable", "dir", "missing", "denied", "long"}
Configured == Kinds \union {"off"}
Names(d, r, h, f) == [direct |-> d, root |-> r, html |-> h, fallback |-> f]
Absent == Names("missing", "off", "off", "off")
Present == Names("file", "off", "off", "off")

Answer(t) == [static |-> FALSE, ta |-> t, hdrs |-> 0]
HandOn(hdrs) == [static |-> TRUE, ta |-> ZeroResponse, hdrs |-> hdrs]
Fine == Answer([ZeroResponse EXCEPT !.status = OK, !.hdrs = 1, !.body = 1])

Plain(p, m) ==
  [path |-> p, tail |-> <<>>, method |-> m, isRoot |-> FALSE, names |-> Absent,
   size |-> 1, range |-> <<>>, since |-> "none", cookies |-> <<>>, jar |-> <<>>, asks |-> {},
   reply |-> Fine]

(* The slashes at the front are cut off.                                   *)
Paths(letters, n) ==
  { p \in UNION { [1 .. k -> letters] : k \in 1 .. n } : p[1] # end \/ Len(p) = 1 }

(* Every path of three segments, with and without a query.                 *)
Routings ==
  { [Plain(p, m) EXCEPT !.tail = t] :
    p \in Paths({a, b, c, ab, end}, 3), m \in {"GET", "HEAD", "PUT", "POST"},
    t \in {<<>>, << b >>} }

(* Every way that the candidate files can turn out; the root fallback is   *)
(* for the root only.                                                      *)
Roots == {<<FALSE, "file">>, <<TRUE, "off">>, <<TRUE, "file">>, <<TRUE, "missing">>}
Lookups ==
  { [Plain(<< c, c >>, m) EXCEPT !.names = Names(d, root[2], h, f), !.isRoot = root[1]] :
    m \in {"GET", "HEAD"}, d \in Kinds, root \in Roots, h \in Configured, f \in Configured }

(* Every range and date of one readable file, behind an endpoint that has  *)
(* added some headers.                                                     *)
Bytes(from, to) == <<"bytes=">> \o from \o <<"-">> \o to
Numbers(n) == { <<Digits[i]>> : i \in 1 .. n + 1 }
Ranges ==
  {<<>>, <<"lines=">>}
  \union { Bytes(f, t) : f \in Numbers(3) \union {<<>>}, t \in Numbers(4) \union {<<>>} }
Transfers ==
  { [Plain(<< a >>, m) EXCEPT !.names = Present, !.size = n, !.range = r, !.since = s,
                              !.reply = HandOn(h)] :
    m \in {"GET", "HEAD"}, n \in {0, 1, 3}, r \in Ranges,
    s \in {"none", "bad", "current"}, h \in 0 .. MaxHeaders }

(* Every response an endpoint can leave.                                   *)
Heads ==
  { [ZeroResponse EXCEPT !.status = s, !.hdrs = h, !.keepHeaders = kh, !.keepBody = kb] :
    s \in {HANGUP, OK, BadRequest, NotAllowed}, h \in 0 .. MaxHeaders,
    kh \in BOOLEAN, kb \in BOOLEAN }
Spans == {<<0, 0>>, <<0, 2>>, <<1, 2>>}
WithBody(t) == { [t EXCEPT !.pos = q[1], !.body = q[2]] : q \in Spans }
WithFile(t, fd) == { [t EXCEPT !.fd = fd, !.pos = q[1], !.end = q[2] - 1] : q \in Spans }
Answers ==
  { [Plain(<< a >>, m) EXCEPT !.reply = Answer(t)] :
    m \in {"GET", "HEAD", "POST"}, t \in UNION { WithBody(t) \union WithFile(t, Fd) : t \in Heads } }
  \union { [Plain(<< a >>, "HEAD") EXCEPT !.reply = Answer(t)] :
           t \in UNION { WithFile(t, FdHead) : t \in Heads } }

(* Every text of four characters behind "bytes=", asked for and then       *)
(* served; MaxOff is 41.                                                   *)
Texts == UNION { [1 .. k -> {"0", "4", "-", ","}] : k \in 0 .. 4 }
Asked ==
  { [Plain(<< a >>, "GET") EXCEPT !.names = Present, !.size = 3, !.reply = HandOn(0),
                                  !.range = <<"bytes=">> \o t, !.asks = {<<>>}] :
    t \in Texts }

(* Every jar of three cookies, where there is room for two, and every      *)
(* short text.                                                             *)
k1 == <<"k">>
k2 == <<"k", "k">>
Cookies == { [key |-> k, value |-> v] : k \in {k1, k2}, v \in {<<>>, <<"v">>, <<"=">>} }
Jars == UNION { [1 .. n -> Cookies] : n \in 0 .. 3 }
Lookup(text, jar) ==
  [Plain(<< a >>, "GET") EXCEPT !.cookies = text, !.jar = jar, !.asks = {k1, k2}]
Jarred ==
  { Lookup(Written(jar), jar) : jar \in Jars }
  \union { Lookup(t, <<>>) : t \in UNION { [1 .. n -> {"k", "=", ";", " "}] : n \in 0 .. 4 } }

TwoRequests ==
  UNION {Routings, Lookups, Transfers, Answers, Asked, Jarred}
DeepRequests == { Plain(p, "GET") : p \in Paths({a, b, c}, 3) }
=============================================================================
