----------------------------- MODULE MCConnection -----------------------------
(***************************************************************************)
(* Values for the constants of Connection.                                 *)
(***************************************************************************)
EXTENDS Connection

Hdr(n) == [t |-> "hdr", n |-> n]
Tok(t, n) == [t |-> t, n |-> n]
Data(a, b) == [i \in 1..(b - a + 1) |-> Tok("data", a + i - 1)]

Get(script, out, hdr) ==
  [kind |-> "cgi", framing |-> "none", len |-> 0, max |-> 0,
   stream |-> <<Tok("part", 1), Hdr(1)>>, script |-> script,
   out |-> out, hdr |-> hdr, lf |-> 0]

Post(script, k, out, hdr) ==
  [kind |-> "cgi", framing |-> "length", len |-> k, max |-> 0,
   stream |-> <<Hdr(1)>> \o Data(1, k), script |-> script,
   out |-> out, hdr |-> hdr, lf |-> 0]

ChunkedPost(script, k, out, hdr) ==
  [kind |-> "cgi", framing |-> "chunked", len |-> 0, max |-> 0,
   stream |-> <<Hdr(1)>> \o Data(1, k) \o <<Tok("end", 1)>>, script |-> script,
   out |-> out, hdr |-> hdr, lf |-> 0]

Upload(k, max) ==
  [kind |-> "static", framing |-> "length", len |-> k, max |-> max,
   stream |-> <<Tok("part", 1), Hdr(1)>> \o Data(1, k), script |-> "any",
   out |-> 0, hdr |-> 0, lf |-> 0]

ChunkedUpload(k, max) ==
  [kind |-> "static", framing |-> "chunked", len |-> 0, max |-> max,
   stream |-> <<Hdr(1)>> \o Data(1, k) \o <<Tok("end", 1)>>, script |-> "any",
   out |-> 0, hdr |-> 0, lf |-> 0]

Malformed ==
  [kind |-> "invalid", framing |-> "none", len |-> 0, max |-> 0,
   stream |-> <<Hdr(1), Tok("data", 1)>>, script |-> "any",
   out |-> 0, hdr |-> 0, lf |-> 0]

(* A malformed chunk in the middle of a chunked body.                      *)
BadChunkPost(k, out, hdr) ==
  [kind |-> "cgi", framing |-> "chunked", len |-> 0, max |-> 0,
   stream |-> <<Hdr(1)>> \o Data(1, k) \o <<Tok("bad", 1)>> \o Data(k + 1, k + 1),
   script |-> "any", out |-> out, hdr |-> hdr, lf |-> 0]

(* The requests of each run.                                               *)
StreamRequests ==
  {Get("any", 6, 1), Post("any", 4, 2, 1), ChunkedPost("any", 4, 1, 1), BadChunkPost(3, 1, 1)}
ClosedRequests ==
  {Upload(2, 0), Upload(2, 1), ChunkedUpload(2, 0), ChunkedUpload(2, 1), Malformed,
   [Get("any", 3, 0) EXCEPT !.lf = 2], Get("any", 0, 0), Get("any", 2, 1),
   Post("any", 2, 1, 1), ChunkedPost("any", 1, 1, 1)}
AnsweredRequests ==
  {Get("filter", 5, 2), Post("filter", 5, 4, 1), Upload(3, 0), ChunkedUpload(2, 0)}
OrderRequests == {Post("any", 3, 1, 1)}

(* Requests for the other comments that the model refutes.                 *)
ZombieRequests  == {Get("any", 1, 1)}
WholeRequests   == {ChunkedPost("filter", 1, 1, 1)}
LfRequests      == {[Get("any", 6, 0) EXCEPT !.lf = 2]}
EarlyRequests   == {Post("any", 2, 1, 1)}
HalfRequests    == {Get("filter", 3, 1)}
ExcessRequests  == {[Post("filter", 2, 1, 1) EXCEPT !.stream = @ \o Data(3, 3)]}
NoBlankRequests == {Get("filter", 2, 0)}
OverwrittenRequests ==
  {[Post("any", 1, 3, 0) EXCEPT !.stream = <<Hdr(1), Tok("text", 1)>>, !.lf = 1]}
===============================================================================
