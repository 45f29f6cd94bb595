--------------------------- MODULE MCServeClient ---------------------------
(* Request sequences for the runs of ServeClient.                          *)
EXTENDS ServeClient

Body(body) ==
  [status |-> OK, hdrs |-> 0, body |-> body, file |-> NoFile,
   shrinks |-> FALSE, keepHeaders |-> FALSE, keepBody |-> FALSE]
File(size) == [Body(0) EXCEPT !.file = size]

Req(hdr, pay, route, method, reply) ==
  [hdr |-> hdr, malformed |-> FALSE, pay |-> pay, reads |-> pay, route |-> route,
   method |-> method, v10 |-> FALSE, reply |-> reply]

Small   == Req(1, 0, "api", "GET", Body(1))
Exact   == Req(3, 0, "api", "GET", Body(1))
Fetch   == Req(3, 0, "api", "GET", File(2))
Early   == [Req(1, 3, "api", "POST", Body(1)) EXCEPT !.reads = 2]
Shrunk  == Req(1, 0, "static", "GET", [File(1) EXCEPT !.shrinks = TRUE])
Empty   == Req(1, 0, "static", "GET", File(0))
Info    == Req(1, 0, "static", "HEAD", File(2))

(* Every route to a response on one connection.  The head of the first     *)
(* request fills the buffer exactly, the last begins with payload that was *)
(* left to it.                                                             *)
Pipeline == <<Fetch, Shrunk, Empty, Info, Early, Exact>>
Plain    == <<Small, Shrunk>>
=============================================================================
