----------------------------- MODULE CgiResponse -----------------------------
(***************************************************************************)
(* What becomes of the output of a CGI script.  handle_cgi_output collects *)
(* it until it has seen CR LF CR LF and streams the rest; at the end       *)
(* finalize_cgi makes a response of what was collected when it never came. *)
(*                                                                         *)
(* Output is a sequence of units: "CR" and "LF", and pieces of text        *)
(* without a line end.  "S404" and "S302" are the text of a Status field,  *)
(* "L" that of a Content-Length field; "t" is text without a colon.        *)
(***************************************************************************)
EXTENDS Integers, Sequences, FiniteSets, FiniteSetsExt, SequencesExt, Functions

CONSTANTS
  Reads,      \* what one read() from the script may return
  Declared,   \* the Content-Length the script declares
  MaxReads    \* bound: number of reads

Unit == {"CR", "LF", "S404", "S302", "L", "t"}
ASSUME ReadsAssumption == Reads \subseteq Seq(Unit)

VARIABLES
  all,        \* everything read so far
  cgi_output, \* what was collected
  headers_sent,
  resp,       \* status and header fields sent or to be sent
  body,       \* what follows them
  reads, at

vars == <<all, cgi_output, headers_sent, resp, body, reads, at>>

Crlf2 == <<"CR", "LF", "CR", "LF">>
Lf2 == <<"LF", "LF">>
HasColon == {"S404", "S302", "L"}

(* std::string::find: the first position, 0 if there is none.              *)
Find(s, pattern) ==
  LET hits == {i \in 1 .. Len(s) - Len(pattern) + 1 : SubSeq(s, i, i + Len(pattern) - 1) = pattern}
  IN  IF hits = {} THEN 0 ELSE Min(hits)

Before(s, i) == SubSeq(s, 1, i - 1)
From(s, i) == SubSeq(s, i, Len(s))

-----------------------------------------------------------------------------
(***************************************************************************)
(* The loop over the header lines, the same in parse_cgi_response and in   *)
(* parse_cgi_headers: a line ends at LF or at the end, a CR before it is   *)
(* dropped, a line without a colon is skipped, Status sets the status.     *)
(***************************************************************************)
Line(h, n) == SubSeq(h, Max({0} \cup {i \in 1 .. n - 1 : h[i] = "LF"}) + 1, n - 1)
StripCr(line) == IF line # <<>> /\ Last(line) = "CR" THEN Front(line) ELSE line
StatusOf(u) == IF u = "S404" THEN 404 ELSE 302
Has(fields, key, value) ==
  [k \in DOMAIN fields \cup {key} |-> IF k = key THEN value ELSE fields[k]]
set_header(r, key, value) == [r EXCEPT !.fields = Has(@, key, value)]

HeaderLine(r, raw) ==
  LET line  == StripCr(raw)
      colon == {i \in DOMAIN line : line[i] \in HasColon}
      key   == SubSeq(line, 1, Min(colon))
      value == From(line, Min(colon) + 1)
  IN  IF colon = {} THEN r
      ELSE IF key \in {<<"S404">>, <<"S302">>} THEN [r EXCEPT !.status = StatusOf(key[1])]
      ELSE set_header(r, key, IF key = <<"L">> THEN <<Declared>> \o value ELSE value)

(* The response when the lines that end at or before n have been read.     *)
ReadLines(h) ==
  LET read[n \in 0 .. Len(h) + 1] ==
        IF n = 0 THEN [status |-> 200, fields |-> << >>]
        ELSE IF n \in DOMAIN h /\ h[n] # "LF" THEN read[n - 1]
        ELSE HeaderLine(read[n - 1], Line(h, n))
  IN  read

parse_cgi_headers(h) == ReadLines(h)[Len(h) + 1]

(* HTTPResponse::set_body sets Content-Length.                             *)
set_body(r, b) == [head |-> set_header(r, <<"L">>, <<Len(b)>>), body |-> b]
Error500 == set_body([status |-> 500, fields |-> << >>], <<"t">>)

(* Mutant: the length is set first, and the script's own replaces it.      *)
BodyFirst(raw) ==
  LET crlf == Find(raw, Crlf2)
      lf   == Find(raw, Lf2)
      at0  == IF crlf # 0 THEN crlf ELSE lf
      b    == From(raw, at0 + (IF crlf # 0 THEN 4 ELSE 2))
      h    == parse_cgi_headers(Before(raw, at0))
  IN  IF at0 = 0 THEN Error500
      ELSE [head |-> [h EXCEPT !.fields = @ @@ (<<"L">> :> <<Len(b)>>)], body |-> b]

parse_cgi_response(raw) ==
  LET crlf == Find(raw, Crlf2)
      lf   == Find(raw, Lf2)
  IN  CASE crlf # 0           -> set_body(parse_cgi_headers(Before(raw, crlf)), From(raw, crlf + 4))
        [] crlf = 0 /\ lf # 0 -> set_body(parse_cgi_headers(Before(raw, lf)), From(raw, lf + 2))
        [] crlf = 0 /\ lf = 0 -> Error500

-----------------------------------------------------------------------------
Init ==
  /\ all = <<>> /\ cgi_output = <<>> /\ headers_sent = FALSE
  /\ resp = [status |-> 0, fields |-> << >>] /\ body = <<>> /\ reads = 0 /\ at = "reading"

Got(bytes) ==
  /\ at = "reading" /\ reads < MaxReads
  /\ all' = all \o bytes /\ reads' = reads + 1
  /\ UNCHANGED at

(* Mutant: only the bytes just read are searched for the end of headers.   *)
SearchNew(raw, bytes) ==
  IF Find(bytes, Crlf2) = 0 THEN 0 ELSE Len(raw) - Len(bytes) + Find(bytes, Crlf2)

Search(raw, bytes) == Find(raw, Crlf2)

BodyStart(hdr_end) == hdr_end + 4

(* handle_cgi_output while headers are collected: not there yet, and the   *)
(* read that completes them.                                               *)
Collect(bytes) ==
  LET raw == cgi_output \o bytes
  IN  /\ Got(bytes) /\ ~ headers_sent /\ Search(raw, bytes) = 0
      /\ cgi_output' = raw
      /\ UNCHANGED <<headers_sent, resp, body>>

SendHeaders(bytes) ==
  LET raw     == cgi_output \o bytes
      hdr_end == Search(raw, bytes)
  IN  /\ Got(bytes) /\ ~ headers_sent /\ hdr_end # 0
      /\ cgi_output' = raw /\ headers_sent' = TRUE
      /\ resp' = parse_cgi_headers(Before(raw, hdr_end))
      /\ body' = From(raw, BodyStart(hdr_end))

Stream(bytes) ==
  /\ Got(bytes) /\ headers_sent
  /\ body' = body \o bytes
  /\ UNCHANGED <<cgi_output, headers_sent, resp>>

(* The end of the output, which for a script that dies may be anywhere.    *)
finalize_cgi ==
  /\ at = "reading" /\ at' = "done"
  /\ IF headers_sent THEN UNCHANGED <<resp, body>>
     ELSE LET r == IF cgi_output = <<>> THEN Error500 ELSE parse_cgi_response(cgi_output)
          IN  resp' = r.head /\ body' = r.body
  /\ UNCHANGED <<all, cgi_output, headers_sent, reads>>

Next == finalize_cgi \/ \E bytes \in Reads : Collect(bytes) \/ SendHeaders(bytes) \/ Stream(bytes)

Spec == Init /\ [][Next]_vars

-----------------------------------------------------------------------------
(***************************************************************************)
(* The reference: what the output says, read off its lines.                *)
(***************************************************************************)
Blank == LET b == {Find(all, Crlf2), Find(all, Lf2)} \ {0} IN IF b = {} THEN 0 ELSE Min(b)
Skip == IF SubSeq(all, Blank, Blank + 1) = Lf2 THEN 2 ELSE 4
LineStart(i) == i = 1 \/ all[i - 1] = "LF"
Statuses == {i \in 1 .. Blank - 1 : all[i] \in {"S404", "S302"} /\ LineStart(i)}

MeantStatus ==
  IF Blank = 0 THEN 500 ELSE IF Statuses = {} THEN 200 ELSE StatusOf(all[Max(Statuses)])
MeantBody == IF Blank = 0 THEN <<"t">> ELSE From(all, Blank + Skip)
AsMeant == at = "done" => resp.status = MeantStatus /\ body = MeantBody

(* However the output is cut into reads, in whatever state the script      *)
(* dies, the client gets the last Status the header lines give and exactly *)
(* the bytes after the blank line, or a 500 if there is none; as long as   *)
(* no LF LF comes before the first CR LF CR LF.                            *)
Mixed == LET c == Find(all, Crlf2)  l == Find(all, Lf2) IN c # 0 /\ l # 0 /\ l < c
AnswerAsMeant == ~ Mixed => AsMeant

(* A response that was collected is framed by its own length, whatever     *)
(* length the script declared; one that is streamed relies on the script.  *)
CollectedIsFramed ==
  at = "done" /\ ~ headers_sent => resp.fields[<<"L">>] = <<Len(body)>>

-----------------------------------------------------------------------------
(* HTTPHandler.cpp:622, "Split headers from body on first blank line       *)
(* (\r\n\r\n or \n\n)": the same without the exception.                    *)
SplitAtFirstBlank == AsMeant
=============================================================================
