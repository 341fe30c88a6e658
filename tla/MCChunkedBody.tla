-------------------------- MODULE MCChunkedBody --------------------------
(***************************************************************************)
(* Small messages for ChunkedBody, written by an encoder: what was meant   *)
(* is known without a decoder, and the reference has to agree with it.     *)
(***************************************************************************)
EXTENDS ChunkedBody

MCByte == {CR, LF, ";", " ", "x", "0", "1", "2"}

Crlf == <<CR, LF>>
MCHex == [c \in {"0", "1", "2"} |-> CASE c = "0" -> 0 [] c = "1" -> 1 [] c = "2" -> 2]

(* A chunk may hold what looks like framing.                               *)
Datas == {<<"x">>, <<CR, LF>>, <<"0", CR>>}
Digit(d) == IF Len(d) = 1 THEN <<"1">> ELSE <<"2">>

Styles == {"plain", "zeros", "extension", "blanks"}
SizeLine(digit, style) ==
  CASE style = "plain"     -> digit \o Crlf
    [] style = "zeros"     -> <<"0">> \o digit \o Crlf
    [] style = "extension" -> digit \o <<";", "x">> \o Crlf
    [] style = "blanks"    -> <<" ">> \o digit \o <<" ">> \o Crlf

Chunk(d, style) == SizeLine(Digit(d), style) \o d \o Crlf

Encode(datas, style, trailers, next) ==
  [wire |-> FlattenSeq([i \in DOMAIN datas |-> Chunk(datas[i], style)])
              \o SizeLine(<<"0">>, style) \o trailers \o Crlf \o next,
   body |-> FlattenSeq(datas), legal |-> TRUE, spaced |-> style = "blanks"]

(* Up to one chunk in every style, two in the plain one and with blanks.   *)
Legal ==
  {Encode(ds, style, t, next) :
     ds \in {<<>>} \cup [1 .. 1 -> Datas], style \in Styles,
     t \in {<<>>, <<"x">> \o Crlf}, next \in {<<>>, <<"x">>}}
  \cup {Encode(ds, "plain", <<>>, next) : ds \in [1 .. 2 -> Datas], next \in {<<>>, <<"x">>}}
  \cup {Encode(ds, "blanks", <<>>, <<>>) : ds \in [1 .. 2 -> Datas]}

Broken(bytes, meant) == [wire |-> bytes, body |-> meant, legal |-> FALSE, spaced |-> FALSE]

(* A size that is no number, with and without another chunk behind it; a   *)
(* chunk longer than its size; no last chunk; a line without a size; a     *)
(* size that does not fit.                                                 *)
Malformed ==
  {Broken(Chunk(<<"x">>, "plain") \o <<"x">> \o Crlf \o Crlf, <<"x">>),
   Broken(Chunk(<<"x">>, "plain") \o <<"x">> \o Crlf \o Chunk(<<"x">>, "plain"), <<"x">>),
   Broken(<<"1">> \o Crlf \o <<"x", "x">> \o Crlf, <<"x">>),
   Broken(Chunk(<<"x">>, "plain"), <<"x">>)}
NoSize == {Broken(Chunk(<<"x">>, "plain") \o Crlf \o Crlf, <<"x">>)}
TooBig == {Broken(<<"1", "0", "0">> \o Crlf \o Crlf, <<>>)}

MCMessages == Legal \cup Malformed \cup NoSize \cup TooBig
=============================================================================
