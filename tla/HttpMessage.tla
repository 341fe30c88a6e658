----------------------------- MODULE HttpMessage -----------------------------
(***************************************************************************)
(* What a client sends, as the server tells it apart, and the two parsers  *)
(* that read it: HTTPRequest (requests that are answered once complete,    *)
(* and the part of a CGI request that arrives with its headers) and        *)
(* Client::decode_chunked_for_cgi (the rest of a chunked CGI request).     *)
(*                                                                         *)
(* A stream is a sequence of tokens, each an indivisible run of bytes:     *)
(*   part  some complete header lines, without the blank line              *)
(*   hdr   the rest of a header block, blank line included; n = 1 for the  *)
(*         request under study, n > 1 for a request pipelined after it     *)
(*   data  body bytes without a blank line (under chunked framing one      *)
(*         whole chunk); they do not read as a request line                *)
(*   text  the same, with a blank line (CRLF CRLF) in the bytes            *)
(*   end   the last chunk and the end of the trailers                      *)
(*   bad   a chunk-size line that is not hexadecimal                       *)
(* How bytes inside one token are split over reads is left out here.       *)
(***************************************************************************)
EXTENDS Integers, Sequences, FiniteSets

TokenKinds == {"part", "hdr", "data", "text", "end", "bad"}
Token == [t : TokenKinds, n : Nat]

(***************************************************************************)
(* A request: which answer its route gives it (a CGI script, anything      *)
(* HTTPHandler answers, or a header block the parser rejects), its framing *)
(* and Content-Length, the effective client_max_body_size (0: no limit),   *)
(* everything the client will send, and what the CGI script does with it:  *)
(* out units of output, whose header block ends with the unit hdr (CRLF    *)
(* CRLF) or lf (LF LF), 0 if it has no such end.                           *)
(***************************************************************************)
Request == [kind    : {"cgi", "static", "invalid"},
            framing : {"none", "length", "chunked"},
            len     : Nat,
            max     : Nat,
            stream  : Seq(Token),
            script  : {"any", "filter"},
            out     : Nat,
            hdr     : Nat,
            lf      : Nat]

Least(a, b) == IF a <= b THEN a ELSE b
Take(s, k) == SubSeq(s, 1, k)
Drop(s, k) == SubSeq(s, k + 1, Len(s))

BlankLine == {"hdr", "text", "end"}
ChunkKinds == {"data", "text"}

(* Client::has_complete_header: the bytes hold CRLF CRLF somewhere.        *)
HasBlankLine(s) == \E i \in DOMAIN s : s[i].t \in BlankLine

(* The position of the first token that satisfies the test, Len(s) + 1 if  *)
(* none does.                                                              *)
FirstIn(s, kinds) ==
  IF \E i \in DOMAIN s : s[i].t \in kinds
  THEN CHOOSE i \in DOMAIN s : /\ s[i].t \in kinds
                               /\ \A j \in 1..(i-1) : s[j].t \notin kinds
  ELSE Len(s) + 1

FirstBlank(s) == FirstIn(s, BlankLine)
FirstStop(s)  == FirstIn(s, TokenKinds \ ChunkKinds)

(***************************************************************************)
(* HTTPRequest::parse_body, with body what earlier calls collected and s   *)
(* the unread bytes.  A Content-Length above the limit is refused before   *)
(* any byte of the body is looked at; a chunked body is refused after the  *)
(* chunk that takes it over the limit.                                     *)
(***************************************************************************)
Parsed(st, body, left) == [st |-> st, body |-> body, left |-> left]

ParseLengthBody(r, body, s) ==
  LET k == IF r.len > Len(body) THEN Least(r.len - Len(body), Len(s)) ELSE 0
  IN  IF r.max > 0 /\ r.len > r.max THEN Parsed("error", body, s)
      ELSE Parsed(IF Len(body) + k >= r.len THEN "done" ELSE "more",
                  body \o Take(s, k), Drop(s, k))

ParseChunkedBody(r, body, s) ==
  LET k    == FirstStop(s) - 1
      all  == body \o Take(s, k)
  IN  CASE r.max > 0 /\ Len(all) > r.max -> Parsed("error", all, Drop(s, k))
        [] OTHER ->
             IF k = Len(s) THEN Parsed("more", all, <<>>)
             ELSE IF s[k + 1].t = "end" THEN Parsed("done", all, Drop(s, k + 1))
             ELSE Parsed("error", all, Drop(s, k + 1))

ParseBody(r, body, s) ==
  CASE r.framing = "none"    -> Parsed("done", body, s)
    [] r.framing = "length"  -> ParseLengthBody(r, body, s)
    [] r.framing = "chunked" -> ParseChunkedBody(r, body, s)

(***************************************************************************)
(* HTTPRequest::parse on the first bytes of a request, which hold a blank  *)
(* line.  A header block must start the bytes; a pipelined request has no  *)
(* body of its own.                                                        *)
(***************************************************************************)
IsFirstRequest(s) == s[FirstBlank(s)] = [t |-> "hdr", n |-> 1]

ParseRequest(r, s) ==
  LET h == FirstBlank(s)
  IN  CASE \/ s[h].t # "hdr"
           \/ \E j \in 1..(h-1) : s[j].t # "part" -> Parsed("error", <<>>, <<>>)
        [] OTHER ->
             IF s[h].n # 1 THEN Parsed("done", <<>>, Drop(s, h))
             ELSE IF r.kind = "invalid" THEN Parsed("error", <<>>, <<>>)
             ELSE ParseBody(r, <<>>, Drop(s, h))

(***************************************************************************)
(* Client::decode_chunked_for_cgi: state the decoder is in, held what it   *)
(* kept, s the new bytes.  A refused size line has been removed from what  *)
(* is held and everything decoded in the same call is lost; after the end  *)
(* of the body nothing more is decoded.                                    *)
(***************************************************************************)
Decoded(st, data, state, held) ==
  [st |-> st, data |-> data, state |-> state, held |-> held]

(* Mutant: what was decoded together with the last chunk is lost.          *)
decode_loses_last(state, held, s) ==
  LET all == held \o s
      k   == FirstStop(all) - 1
  IN  CASE state = "size" ->
             IF k = Len(all) THEN Decoded("ok", all, "size", <<>>)
             ELSE IF all[k + 1].t = "end"
             THEN Decoded("eof", <<>>, "done", Drop(all, k + 1))
             ELSE Decoded("error", <<>>, "size", Drop(all, k + 1))
        [] state = "trailers" ->
             IF HasBlankLine(all)
             THEN Decoded("eof", <<>>, "done", Drop(all, FirstBlank(all)))
             ELSE Decoded("ok", <<>>, "trailers", <<>>)
        [] OTHER -> Decoded("eof", <<>>, "done", all)

decode_chunked_for_cgi(state, held, s) ==
  LET all == held \o s
      k   == FirstStop(all) - 1
  IN  CASE state = "size" ->
             IF k = Len(all) THEN Decoded("ok", all, "size", <<>>)
             ELSE IF all[k + 1].t = "end"
             THEN Decoded("eof", Take(all, k), "done", Drop(all, k + 1))
             ELSE Decoded("error", <<>>, "size", Drop(all, k + 1))
        [] state = "trailers" ->
             IF HasBlankLine(all)
             THEN Decoded("eof", <<>>, "done", Drop(all, FirstBlank(all)))
             ELSE Decoded("ok", <<>>, "trailers", <<>>)
        [] OTHER -> Decoded("eof", <<>>, "done", all)

(***************************************************************************)
(* What the client meant, read off its whole stream: the positions of the  *)
(* tokens that are the body of the request under study.  No parser is      *)
(* involved: the reference the properties compare the server with.         *)
(***************************************************************************)
BodyStart(r) == FirstBlank(r.stream) + 1
BodyIndices(r) ==
  CASE r.framing = "none"    -> {}
    [] r.framing = "length"  -> BodyStart(r) .. (BodyStart(r) + r.len - 1)
    [] r.framing = "chunked" ->
         {i \in BodyStart(r) .. Len(r.stream) :
             \A j \in BodyStart(r) .. i : r.stream[j].t \in ChunkKinds}

(* The stream is one legal request and nothing after it.                   *)
WellFramed(r) ==
  /\ r.kind # "invalid"
  /\ HasBlankLine(r.stream)
  /\ r.stream[FirstBlank(r.stream)] = [t |-> "hdr", n |-> 1]
  /\ \A j \in 1..(FirstBlank(r.stream) - 1) : r.stream[j].t = "part"
  /\ CASE r.framing = "none"    -> Len(r.stream) = FirstBlank(r.stream)
       [] r.framing = "length"  -> Len(r.stream) = FirstBlank(r.stream) + r.len
       [] r.framing = "chunked" ->
            /\ Len(r.stream) > FirstBlank(r.stream)
            /\ r.stream[Len(r.stream)].t = "end"
            /\ \A j \in BodyStart(r) .. (Len(r.stream) - 1) :
                  r.stream[j].t \in ChunkKinds
=============================================================================
