---------------------------- MODULE ChunkedBody ----------------------------
(***************************************************************************)
(* A chunked request body, byte by byte.  HTTPRequest decodes it as it     *)
(* arrives; when the request is for a CGI script, dispatch_cgi takes over  *)
(* after the first call of parse() and Client::decode_chunked_for_cgi      *)
(* decodes the rest.  HttpMessage treats a chunk as one token; here a read *)
(* may end inside a size line, a chunk, a CRLF or a trailer.               *)
(*                                                                         *)
(* Every action but Read and Dispatch is one round of a decoder's loop.    *)
(***************************************************************************)
EXTENDS Integers, Sequences, FiniteSets, SequencesExt

CONSTANTS
  Byte,
  Messages,  \* what clients send: wire (bytes), body (its meaning), legal
             \* (one well-formed body) and spaced (blanks in size lines)
  Hex,       \* the value of each hexadecimal digit
  Modulus,   \* sizes are computed modulo this (2^64 in the program)
  Limits     \* values of client_max_body_size, 0 for none

ASSUME NumbersAssumption ==
  /\ Hex \in [DOMAIN Hex -> Nat] /\ " " \notin DOMAIN Hex
  /\ Modulus \in Nat \ {0} /\ Limits \subseteq Nat

VARIABLES
  msg, cgi, max,  \* the message, whether its route is CGI, the limit
  wire,           \* bytes not yet read from the socket
  buffer,         \* buffer_, later cgi_chunk_buf_
  st,             \* chunked_state_, later cgi_chunk_state_
  remaining,      \* chunk_remaining_, later cgi_chunk_remaining_
  body,           \* body_, later all that was handed to the script
  fresh,          \* decoded: what this call of the decoder produced
  who,            \* the decoder in charge
  run,            \* what its last round ended in
  line,           \* history: the digits of the last size line
  resumed         \* history: reading went on after a refused chunk

vars == <<msg, cgi, max, wire, buffer, st, remaining, body, fresh, who, run, line, resumed>>
input == <<msg, cgi, max>>

CR == "CR"
LF == "LF"

Drop(s, k) == SubSeq(s, k + 1, Len(s))

(* find("\r\n"), 0 for npos; the line before it, and the bytes after it.   *)
FindCrlf(s) ==
  LET at == {i \in 1 .. Len(s) - 1 : s[i] = CR /\ s[i + 1] = LF}
  IN  IF at = {} THEN 0 ELSE Min(at)
Line == SubSeq(buffer, 1, FindCrlf(buffer) - 1)
AfterLine == Drop(buffer, FindCrlf(buffer) + 1)

StripExtension(s) == LET semi == SelectInSeq(s, LAMBDA c : c = ";")
                     IN  IF semi = 0 THEN s ELSE SubSeq(s, 1, semi - 1)
TrimBlanks(s) == LET solid == {i \in DOMAIN s : s[i] # " "}
                 IN  IF solid = {} THEN <<>> ELSE SubSeq(s, Min(solid), Max(solid))

IsHex(s) == \A i \in DOMAIN s : s[i] \in DOMAIN Hex
(* out * 16 + digit in a size_t.                                           *)
HexValue(s) ==
  LET out[i \in 0 .. Len(s)] == IF i = 0 THEN 0 ELSE (out[i - 1] * 16 + Hex[s[i]]) % Modulus
  IN  out[Len(s)]

(***************************************************************************)
(* The reference: what all the bytes of a message mean, whatever part of   *)
(* them has arrived.  body is what a tail of them adds to the body; ok     *)
(* says that its chunks are well-formed, plain that no blanks surround     *)
(* their sizes.  size[s] is the meaning of a tail s that begins with a     *)
(* size line.                                                              *)
(***************************************************************************)
Meant(bytes, ok, plain) == [body |-> bytes, ok |-> ok, plain |-> plain]

(* n bytes of data come first, then CR LF and the next size line.          *)
DataMeans(size, s, n) ==
  IF Len(s) >= n + 2 /\ s[n + 1] = CR /\ s[n + 2] = LF
  THEN LET next == size[Drop(s, n + 2)]
       IN  Meant(SubSeq(s, 1, n) \o next.body, next.ok, next.plain)
  ELSE Meant(SubSeq(s, 1, IF n < Len(s) THEN n ELSE Len(s)), FALSE, TRUE)

SizeMeans(size, s) ==
  LET field  == StripExtension(SubSeq(s, 1, FindCrlf(s) - 1))
      digits == TrimBlanks(field)
      data   == DataMeans(size, Drop(s, FindCrlf(s) + 1), HexValue(digits))
  IN  IF FindCrlf(s) = 0 \/ digits = <<>> \/ ~ IsHex(digits) THEN Meant(<<>>, FALSE, TRUE)
      ELSE IF HexValue(digits) = 0 THEN Meant(<<>>, TRUE, IsHex(field))
      ELSE Meant(data.body, data.ok, data.plain /\ IsHex(field))

Sizes(bytes) ==
  LET size[s \in {Drop(bytes, k) : k \in 0 .. Len(bytes)}] == SizeMeans(size, s) IN size

ASSUME MessagesAssumption ==
  \A m \in Messages :
    LET meaning == Sizes(m.wire)[m.wire]
    IN  /\ m \in [wire : Seq(Byte), body : Seq(Byte), legal : BOOLEAN, spaced : BOOLEAN]
        /\ m.body = meaning.body
        /\ m.legal => meaning.ok
        /\ ~ m.spaced => meaning.plain

Stop(r) == run' = r
Continue == run' = "loop"

(***************************************************************************)
(* HTTPRequest::parse_chunked_body.                                        *)
(***************************************************************************)
Parsing(state) == who = "request" /\ run = "loop" /\ st = state

parse_chunk_size ==
  LET digits == TrimBlanks(StripExtension(Line))
  IN  /\ Parsing("size")
      /\ IF FindCrlf(buffer) = 0
         THEN Stop("more") /\ UNCHANGED <<buffer, st, remaining, line>>
         ELSE /\ buffer' = AfterLine
              /\ line' = digits
              /\ IF digits = <<>> \/ ~ IsHex(digits)
                 THEN Stop("error") /\ UNCHANGED <<st, remaining>>
                 ELSE /\ remaining' = HexValue(digits)
                      /\ st' = IF HexValue(digits) = 0 THEN "trailers" ELSE "data"
                      /\ Continue
      /\ UNCHANGED <<input, resumed, wire, body, fresh, who>>

(* Mutant: the limit of a chunked body is not enforced.                    *)
OverNever(n) == FALSE

Over(n) == max > 0 /\ n > max

(* The limit is tested when the chunk is complete, not before.             *)
parse_chunk_data ==
  /\ Parsing("data")
  /\ IF Len(buffer) >= remaining
     THEN /\ body' = body \o SubSeq(buffer, 1, remaining)
          /\ buffer' = Drop(buffer, remaining)
          /\ remaining' = 0 /\ st' = "crlf"
          /\ IF Over(Len(body')) THEN Stop("error") ELSE Continue
     ELSE /\ body' = body \o buffer
          /\ buffer' = <<>>
          /\ remaining' = remaining - Len(buffer)
          /\ Stop("more") /\ UNCHANGED st
  /\ UNCHANGED <<input, resumed, wire, fresh, who, line>>

(* Mutant: a CRLF is looked at when its first byte is there.               *)
NothingThere == buffer = <<>>

CrlfMissing == Len(buffer) < 2

parse_chunk_data_crlf ==
  /\ Parsing("crlf")
  /\ IF CrlfMissing THEN Stop("more") /\ UNCHANGED <<buffer, st>>
     ELSE IF FindCrlf(buffer) # 1 THEN Stop("error") /\ UNCHANGED <<buffer, st>>
     ELSE Continue /\ buffer' = Drop(buffer, 2) /\ st' = "size"
  /\ UNCHANGED <<input, resumed, wire, remaining, body, fresh, who, line>>

parse_chunk_trailers ==
  /\ Parsing("trailers")
  /\ IF FindCrlf(buffer) = 0 THEN Stop("more") /\ UNCHANGED buffer
     ELSE /\ buffer' = AfterLine
          /\ IF Line = <<>> THEN Stop("complete") ELSE Continue
  /\ UNCHANGED <<input, resumed, wire, st, remaining, body, fresh, who, line>>

(***************************************************************************)
(* dispatch_cgi, after the first call of parse() unless it failed, and     *)
(* init_cgi_chunk_decoder: the state carries over, and what the parser has *)
(* not used is decoded first.  dispatch_cgi does not look at the verdict   *)
(* on it; the parser leaves nothing the decoder could refuse: a part of a  *)
(* line or of a CRLF, or what follows the end of the body.                 *)
(***************************************************************************)
(* Mutant: the decoder starts at a size line.                              *)
init_at_size == st' = "size" /\ UNCHANGED remaining

init_cgi_chunk_decoder == UNCHANGED <<st, remaining>>

Dispatch ==
  /\ cgi /\ who = "request" /\ run \in {"more", "complete"}
  /\ init_cgi_chunk_decoder
  /\ who' = "client"
  /\ IF buffer = <<>> THEN Stop("more") ELSE Continue
  /\ UNCHANGED <<input, resumed, wire, buffer, body, fresh, line>>

(***************************************************************************)
(* Client::decode_chunked_for_cgi: what a call decodes is forwarded when   *)
(* the call returns true, and thrown away when it returns false.  Then     *)
(* handle_client_read closes the stdin of the script, unless bytes of the  *)
(* body still wait for it: in that case the connection is read as before,  *)
(* and what the decoder makes of it goes to the script, until the waiting  *)
(* bytes are written and handle_cgi_stdin_writable closes stdin.           *)
(***************************************************************************)
Decoding(state) == who = "client" /\ run = "loop" /\ st = state /\ buffer # <<>>
Return(r) == run' = r /\ body' = body \o fresh /\ fresh' = <<>>
Refuse ==
  /\ fresh' = <<>> /\ UNCHANGED body
  /\ \/ Stop("error")
     \/ body # <<>> /\ Stop("refused")
Again == Continue /\ UNCHANGED <<body, fresh>>

DecodeEmpty ==
  /\ who = "client" /\ run = "loop" /\ buffer = <<>>
  /\ Return("more")
  /\ UNCHANGED <<input, resumed, wire, buffer, st, remaining, who, line>>

(* No blanks are trimmed, and a line without digits counts as zero.        *)
DecodeSize ==
  LET digits == StripExtension(Line)
  IN  /\ Decoding("size")
      /\ IF FindCrlf(buffer) = 0
         THEN Return("more") /\ UNCHANGED <<buffer, st, remaining, line>>
         ELSE /\ buffer' = AfterLine
              /\ line' = digits
              /\ IF ~ IsHex(digits) THEN Refuse /\ UNCHANGED <<st, remaining>>
                 ELSE /\ remaining' = HexValue(digits)
                      /\ st' = IF HexValue(digits) = 0 THEN "trailers" ELSE "data"
                      /\ Again
      /\ UNCHANGED <<input, resumed, wire, who>>

(* Mutant: one byte too many when the chunk is all there.                  *)
AvailPlusOne == IF Len(buffer) <= remaining THEN Len(buffer) ELSE remaining + 1

Avail == IF Len(buffer) < remaining THEN Len(buffer) ELSE remaining

DecodeData ==
  LET decoded == fresh \o SubSeq(buffer, 1, Avail)
  IN  /\ Decoding("data")
      /\ buffer' = Drop(buffer, Avail)
      /\ remaining' = remaining - Avail
      /\ IF remaining' = 0
         THEN st' = "crlf" /\ Continue /\ fresh' = decoded /\ UNCHANGED body
         ELSE /\ run' = "more" /\ body' = body \o decoded /\ fresh' = <<>>
              /\ UNCHANGED st
      /\ UNCHANGED <<input, resumed, wire, who, line>>

DecodeCrlf ==
  /\ Decoding("crlf")
  /\ IF CrlfMissing THEN Return("more") /\ UNCHANGED <<buffer, st>>
     ELSE IF FindCrlf(buffer) # 1 THEN Refuse /\ UNCHANGED <<buffer, st>>
     ELSE Again /\ buffer' = Drop(buffer, 2) /\ st' = "size"
  /\ UNCHANGED <<input, resumed, wire, remaining, who, line>>

DecodeTrailers ==
  /\ Decoding("trailers")
  /\ IF FindCrlf(buffer) = 0 THEN Return("more") /\ UNCHANGED <<buffer, st>>
     ELSE /\ buffer' = AfterLine
          /\ IF Line = <<>> THEN st' = "done" /\ Return("eof")
             ELSE Again /\ UNCHANGED st
  /\ UNCHANGED <<input, resumed, wire, remaining, who, line>>

DecodeDone ==
  /\ Decoding("done")
  /\ Return("eof")
  /\ UNCHANGED <<input, resumed, wire, buffer, st, remaining, who, line>>

(* The bytes that waited are written, and the end of the body is flagged.  *)
StdinFlushed ==
  /\ \/ run = "refused"
     \/ run = "more" /\ resumed
  /\ Stop("error")
  /\ UNCHANGED <<input, resumed, wire, buffer, st, remaining, body, fresh, who, line>>

-----------------------------------------------------------------------------
(***************************************************************************)
(* One read() of the server.  The first one brought the header block, with *)
(* any number of body bytes behind it, none included.                      *)
(***************************************************************************)
Read ==
  /\ \/ run = "start"
     \/ run = "more" /\ (cgi => who = "client")
     \/ run \in {"eof", "refused"}
  /\ \E k \in (IF run = "start" THEN 0 ELSE 1) .. Len(wire) :
       buffer' = buffer \o SubSeq(wire, 1, k) /\ wire' = Drop(wire, k)
  /\ Continue
  /\ resumed' = (resumed \/ run = "refused")
  /\ UNCHANGED <<input, st, remaining, body, fresh, who, line>>

Init ==
  /\ msg \in Messages /\ cgi \in BOOLEAN /\ max \in Limits
  /\ wire = msg.wire /\ buffer = <<>> /\ st = "size" /\ remaining = 0
  /\ body = <<>> /\ fresh = <<>> /\ who = "request" /\ run = "start" /\ line = <<>>
  /\ resumed = FALSE

Parse == parse_chunk_size \/ parse_chunk_data \/ parse_chunk_data_crlf \/ parse_chunk_trailers
Decode == DecodeEmpty \/ DecodeSize \/ DecodeData \/ DecodeCrlf \/ DecodeTrailers \/ DecodeDone

Next == Read \/ Parse \/ Dispatch \/ Decode \/ StdinFlushed

(* The loops run to their end, and a client that has bytes left sends them.*)
Spec == Init /\ [][Next]_vars /\ WF_vars(Parse \/ Dispatch \/ Decode) /\ WF_vars(Read)

-----------------------------------------------------------------------------
(* What both decoders can tell of a message.                               *)
Acceptable == msg.legal /\ ~ (cgi /\ msg.spaced) /\ (max = 0 \/ Len(msg.body) <= max)

(* Wherever the reads cut the message and whichever decoder had which part *)
(* of it, nothing but body bytes, in their order, comes out, even of a     *)
(* message that turns out to be malformed; until the server reads on after *)
(* a chunk was refused (see StdinClosedOnError).                           *)
BodyIsPrefix == ~ resumed => IsPrefix(body \o fresh, msg.body)

(* A decoder that reports the end has produced the whole body, and none    *)
(* above client_max_body_size is ever handed to HTTPHandler.  (Client may  *)
(* refuse a size line that HTTPRequest takes, the one with blanks, and     *)
(* reading on then it reports an end without that chunk.)                  *)
EndIsWhole ==
  /\ msg.legal /\ run \in {"complete", "eof"} /\ ~ resumed => body = msg.body
  /\ who = "request" /\ run = "complete" => max = 0 \/ Len(body) <= max

(* A well-formed body within the limit is refused by neither decoder, nor  *)
(* by the change from one to the other.  (Only HTTPRequest trims blanks in *)
(* a size line: the decoder of Client refuses them.)                       *)
LegalIsAccepted == Acceptable => run \notin {"error", "refused"}

(* Every well-formed body is decoded to its end.                           *)
Finishes == Acceptable => <>(run \in {"complete", "eof"})

-----------------------------------------------------------------------------
Zero(digits) == digits # <<>> /\ \A i \in DOMAIN digits : digits[i] = "0"

(* HTTPRequest.cpp:244, "after the final 0-size chunk, consume trailer     *)
(* headers": trailers follow a size line that says zero.                   *)
TrailersAfterZero == who = "request" /\ st = "trailers" => Zero(line)

(* Client.cpp:421, "sets `eof` to true when the final zero-length chunk    *)
(* and trailers have been consumed".                                       *)
EofAfterZero == who = "client" /\ run = "eof" => Zero(line)

(* Server.cpp:998, "Chunked decode error - close stdin to let CGI finish": *)
(* a script is given nothing that came behind a chunk that was refused.    *)
StdinClosedOnError == [][resumed => UNCHANGED body]_vars
=============================================================================
