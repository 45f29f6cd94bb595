--------------------------- MODULE MCRequestParser ---------------------------
(* Inputs for the runs of RequestParser.                                   *)
EXTENDS RequestParser

Line == <<"g", "sp", "x", "?", "x", "sp", "h", "1", "cr", "lf">>
Head1 == <<"c", ":", "sp", "1", "cr", "lf">>
Head2 == <<"x", ":", "sp", "x", "cr", "lf">>
End == <<"cr", "lf">>

Simple == Line \o End
Full == Line \o Head1 \o Head2 \o End

(* One character of a request replaced by another.                         *)
Changed(s) == {[s EXCEPT ![k] = c] : k \in 1 .. Len(s), c \in Chars \ {"2", "5", "%"}}

(* Pipelined requests, of which one, or two, are as long as the buffer, and *)
(* every damaged request before a good one.                                 *)
Pipelined == {Simple \o Simple, Simple \o Full \o Simple}
Damaged == {d \o Simple : d \in Changed(Line \o Head1 \o End)}
(* Every short path with percent codes and a query.                        *)
Paths == UNION { [1 .. n -> {"%", "2", "0", "?"}] : n \in 0 .. 3 }
         \union { <<"%", "2", "5", "2", "0">>, <<"x", "?", "%", "0", "0", "x">>, <<"%", "%", "5", "1", "^">> }
Encoded ==
  { <<"g", "sp">> \o path \o <<"sp", "h", "1", "cr", "lf">> \o End : path \in Paths }
Streams == Pipelined \union Damaged \union Encoded
=============================================================================
