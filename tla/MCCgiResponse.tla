--------------------------- MODULE MCCgiResponse ---------------------------
EXTENDS CgiResponse

(* Single units, whole lines with either ending, and the blank line.  The  *)
(* single units bring every line end apart over several reads.             *)
AnyReads ==
  {<<"CR">>, <<"LF">>, <<"t">>, <<"L">>, <<"CR", "LF">>, Crlf2, <<"LF", "CR">>,
   <<"S404", "CR", "LF">>, <<"S302", "CR", "LF">>, <<"L", "CR", "LF">>, <<"S404", "LF">>, Lf2}
=============================================================================
