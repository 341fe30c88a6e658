------------------------------ MODULE Connection ------------------------------
(***************************************************************************)
(* One accepted connection from accept() to close(): the poll loop of      *)
(* Server::start on its behalf, the Client object that buffers for it, the *)
(* CGI child and the two pipes to it, and the peer at the other end of the *)
(* socket.  Lengths are counted in abstract units; the limits of the code  *)
(* (READ_BUFFER_SIZE, FAIR_IO_LIMIT, CGI_BACKPRESSURE_LIMIT, the pipe and  *)
(* socket buffers, CLIENT_TIMEOUT) are constants.                          *)
(*                                                                         *)
(* The loop is modelled at the grain of its system calls: a round of a     *)
(* handler's read or write loop is one action, and the peer and the child  *)
(* act between any two.                                                    *)
(***************************************************************************)
EXTENDS HttpMessage

CONSTANTS
  Requests,   \* the requests a peer may send
  ReadMax,    \* READ_BUFFER_SIZE
  FairMax,    \* FAIR_IO_LIMIT
  Limit,      \* CGI_BACKPRESSURE_LIMIT
  PipeCap,    \* capacity of a pipe
  SockCap,    \* capacity of a socket buffer, each way
  MaxAge,     \* CLIENT_TIMEOUT
  StaticLen,  \* length of a response of HTTPHandler
  Env         \* what the environment may do to the server

Hazards == {"fin",      \* the peer shuts down its sending side
            "rst",      \* the peer resets the connection
            "clock",    \* time passes
            "spawn"}    \* pipe() or fork() fails

ASSUME LimitsAssumption ==
  /\ ReadMax \in Nat \ {0} /\ FairMax \in Nat \ {0} /\ Limit \in Nat \ {0}
  /\ PipeCap \in Nat \ {0} /\ SockCap \in Nat \ {0}
  /\ MaxAge \in Nat /\ StaticLen \in Nat \ {0}

ASSUME RequestsAssumption == Requests \subseteq Request

ASSUME OneRequestAssumption ==
  \A r \in Requests : \A i, j \in DOMAIN r.stream :
    r.stream[i] = [t |-> "hdr", n |-> 1] /\ r.stream[j] = r.stream[i] => i = j

ASSUME EnvAssumption == Env \subseteq Hazards

VARIABLES
  (* The peer and the child *)
  req,        \* the request this peer makes
  peer,       \* "open", "fin" or "rst"
  arrived,    \* tokens of req.stream that reached the server's socket
  rcvd,       \* units of sent that the peer has read
  child,      \* "none", "run", "closed" (stdio), "zombie", "reaped"
  childRead,  \* units of toChild the child has read
  childOut,   \* units the child has written to its stdout
  (* What the server moved through the kernel *)
  taken,      \* tokens read from the socket
  sent,       \* units sent on the socket
  toChild,    \* tokens written to the child's stdin
  outRead,    \* units read from the child's stdout
  (* The poll loop *)
  at,         \* "poll" or "scan"
  fds,        \* descriptors the Client holds open
  reg,        \* entries of poll_fds_ (and of the two CGI maps)
  events,     \* requested events of each entry
  revents,    \* reported events still to be handled in this scan
  moved,      \* total_read, total_written or total_sent of the handler
  (* The Client object *)
  flags, age, buffer, body, response,
  cgi_output, cgi_send_pending,
  cgi_stdin_pending, cgi_chunk_state, cgi_chunk_buf, forwarded,
  (* History *)
  why         \* why the connection was closed

peerVars    == <<req, peer, arrived, rcvd>>
childVars   == <<childRead, childOut>>
pollVars    == <<fds, reg, events, revents>>
requestVars == <<buffer, body, response>>
outputVars  == <<cgi_output, cgi_send_pending>>
stdinVars   == <<cgi_stdin_pending, cgi_chunk_state, cgi_chunk_buf, forwarded>>
clientVars  == <<flags, age, requestVars, outputVars, stdinVars>>
vars == <<peerVars, child, childVars, taken, sent, toChild, outRead,
          at, pollVars, moved, clientVars, why>>

Entries == {"client", "out", "in"}
Bits == {"IN", "OUT", "HUP", "ERR", "NVAL"}
ErrorBits == {"HUP", "ERR", "NVAL"}
Flags == {"request_started", "cgi_active", "cgi_headers_sent", "cgi_stdin_eof"}

Unit == [s : {"http", "cgi", "static", "error"}, n : Nat]
HttpHeader  == [s |-> "http", n |-> 0]
ErrorPage   == <<[s |-> "error", n |-> 1]>>
StaticPage  == [i \in 1..StaticLen |-> [s |-> "static", n |-> i]]
CgiUnits(a, b) == [i \in 1..(b - a) |-> [s |-> "cgi", n |-> a + i]]

Active   == "cgi_active" \in flags
Started  == "request_started" \in flags
Streamed == "cgi_headers_sent" \in flags
StdinEof == "cgi_stdin_eof" \in flags
Chunked  == req.framing = "chunked"

(* Room in the child's stdin pipe: none once the child has closed it, when *)
(* write() fails with EPIPE, or when the descriptor is closed (EBADF).     *)
PipeRoom == IF child = "run" /\ "in" \in fds
            THEN PipeCap - (Len(toChild) - childRead) ELSE 0
SockRoom == SockCap - (Len(sent) - rcvd)

(***************************************************************************)
(* accept_client: the connection starts with POLLIN and an empty Client.   *)
(***************************************************************************)
Init ==
  /\ req \in Requests
  /\ peer = "open" /\ arrived = 0 /\ rcvd = 0
  /\ child = "none" /\ childRead = 0 /\ childOut = 0
  /\ taken = 0 /\ sent = <<>> /\ toChild = <<>> /\ outRead = 0
  /\ at = "poll" /\ moved = 0
  /\ fds = {"client"} /\ reg = {"client"}
  /\ events  = [e \in Entries |-> IF e = "client" THEN {"IN"} ELSE {}]
  /\ revents = [e \in Entries |-> {}]
  /\ flags = {} /\ age = 0 /\ buffer = <<>> /\ body = <<>> /\ response = <<>>
  /\ cgi_output = <<>> /\ cgi_send_pending = <<>>
  /\ cgi_stdin_pending = <<>> /\ cgi_chunk_state = "none"
  /\ cgi_chunk_buf = <<>> /\ forwarded = 0
  /\ why = ""

-------------------------------------------------------------------------------
(***************************************************************************)
(* poll(): every entry gets the requested events that hold, and errors     *)
(* whether requested or not.  A pipe whose other end is closed reports     *)
(* HUP (reading) or ERR (writing); an entry whose descriptor is closed     *)
(* reports NVAL.                                                           *)
(***************************************************************************)
Bit(b, holds) == IF holds THEN {b} ELSE {}

ClientReady ==
  (events["client"] \cap
     (Bit("IN", taken < arrived \/ peer # "open")
        \cup Bit("OUT", SockRoom > 0 \/ peer = "rst")))
  \cup Bit("ERR", peer = "rst")

OutReady == (events["out"] \cap Bit("IN", outRead < childOut))
            \cup Bit("HUP", child # "run")

InReady == IF "in" \notin fds THEN {"NVAL"}
           ELSE (events["in"] \cap Bit("OUT", PipeRoom > 0 \/ child # "run"))
                \cup Bit("ERR", child # "run")

Ready(e) == CASE e = "client" -> ClientReady
              [] e = "out"    -> OutReady
              [] e = "in"     -> InReady

Poll ==
  /\ at = "poll"
  /\ at' = "scan" /\ moved' = 0
  /\ revents' = [e \in Entries |-> IF e \in reg THEN Ready(e) ELSE {}]
  /\ UNCHANGED <<peerVars, child, childVars, taken, sent, toChild, outRead,
                 fds, reg, events, clientVars, why>>

(* The scan visits the entries in the order of poll_fds_: the connection   *)
(* was pushed first, its CGI stdout next, its CGI stdin last.              *)
Before(e) == CASE e = "client" -> {} [] e = "out" -> {"client"}
               [] e = "in" -> {"client", "out"}
Turn(e) == /\ at = "scan"
           /\ revents[e] # {}
           /\ \A f \in Before(e) : revents[f] = {}

Handled(rev, e, bits) == [rev EXCEPT ![e] = @ \ bits]

(***************************************************************************)
(* remove_client: the entries of the descriptors the Client still holds    *)
(* leave poll_fds_ and the maps, finish_cgi closes them and waits for the  *)
(* child without blocking, and the Client object goes.  An entry whose     *)
(* descriptor was closed earlier is not found and stays.                   *)
(***************************************************************************)
Reap == IF Active /\ child = "zombie" THEN "reaped" ELSE child

remove_client(w) ==
  /\ fds' = {}
  /\ reg' = reg \ fds
  /\ events'  = [e \in Entries |-> IF e \in fds THEN {} ELSE events[e]]
  /\ revents' = [e \in Entries |-> IF e \in fds THEN {} ELSE revents[e]]
  /\ child' = Reap
  /\ moved' = 0
  /\ flags' = {} /\ age' = 0
  /\ buffer' = <<>> /\ body' = <<>> /\ response' = <<>>
  /\ cgi_output' = <<>> /\ cgi_send_pending' = <<>>
  /\ cgi_stdin_pending' = <<>> /\ cgi_chunk_state' = "none"
  /\ cgi_chunk_buf' = <<>> /\ forwarded' = 0
  /\ why' = w
  /\ UNCHANGED <<peerVars, childVars, toChild, outRead>>

(* handle_poll_errors on the connection.                                   *)
ClientError ==
  /\ Turn("client") /\ revents["client"] \cap ErrorBits # {}
  /\ remove_client("peer")
  /\ UNCHANGED <<at, taken, sent>>

ClientReading == /\ Turn("client")
                 /\ revents["client"] \cap ErrorBits = {}
                 /\ "IN" \in revents["client"]
ClientWriting == /\ Turn("client")
                 /\ revents["client"] \cap ErrorBits = {}
                 /\ "IN" \notin revents["client"]

(* Mutant: the terminator of the read buffer is taken for a byte of it.    *)
ChunkOneTooMany ==
  SubSeq(req.stream, taken + 1, taken + Least(ReadMax, arrived - taken) + 1)

(* The next bytes a read of the socket returns.                            *)
Chunk == SubSeq(req.stream, taken + 1, taken + Least(ReadMax, arrived - taken))

-------------------------------------------------------------------------------
(***************************************************************************)
(* handle_client_read while the CGI runs: the body is streamed to it.      *)
(***************************************************************************)
CgiReading == ClientReading /\ Active

EndRead == /\ revents' = Handled(revents, "client", {"IN"})
           /\ moved' = 0

(* Too much is buffered for the CGI already: stop reading.                 *)
ReadBackpressure ==
  /\ CgiReading /\ Len(cgi_stdin_pending) > Limit
  /\ events' = [events EXCEPT !["client"] = @ \ {"IN"}]
  /\ EndRead
  /\ UNCHANGED <<peerVars, child, childVars, taken, sent, toChild, outRead,
                 at, fds, reg, clientVars, why>>

(* End of the client's stream, or an error: the child is to see EOF.  The  *)
(* entry of its stdin stays in poll_fds_.                                  *)
ReadEof ==
  /\ CgiReading /\ Len(cgi_stdin_pending) <= Limit
  /\ taken = arrived \/ peer = "rst"
  /\ peer # "open"
  /\ flags' = flags \cup {"cgi_stdin_eof"}
  /\ fds' = IF cgi_stdin_pending = <<>> THEN fds \ {"in"} ELSE fds
  /\ EndRead
  /\ UNCHANGED <<peerVars, child, childVars, taken, sent, toChild, outRead,
                 at, reg, events, age, requestVars, outputVars, stdinVars, why>>

ReadAgain ==
  /\ CgiReading /\ Len(cgi_stdin_pending) <= Limit
  /\ taken = arrived /\ peer = "open"
  /\ EndRead
  /\ UNCHANGED <<peerVars, child, childVars, taken, sent, toChild, outRead,
                 at, fds, reg, events, clientVars, why>>

(* Mutant: the limit is not looked at before every read.                   *)
BodyArrivesUnlimited == /\ CgiReading
                        /\ taken < arrived /\ peer # "rst"
                        /\ taken' = taken + Len(Chunk)
                        /\ age' = 0

BodyArrives == /\ CgiReading /\ Len(cgi_stdin_pending) <= Limit
               /\ taken < arrived /\ peer # "rst"
               /\ taken' = taken + Len(Chunk)
               /\ age' = 0

(* The child's stdin is closed already: what the client sends is dropped.  *)
ReadDropped ==
  /\ BodyArrives /\ "in" \notin fds
  /\ EndRead
  /\ UNCHANGED <<peerVars, child, childVars, sent, toChild, outRead, at, fds,
                 reg, events, flags, requestVars, outputVars, stdinVars, why>>

BodyDecoded == IF Chunked
               THEN decode_chunked_for_cgi(cgi_chunk_state, cgi_chunk_buf, Chunk)
               ELSE Decoded("ok", Chunk, cgi_chunk_state, cgi_chunk_buf)

(* Mutant: EOF is marked and nobody is left to deliver it.                 *)
ReadBadChunkLeavesOpen ==
  /\ BodyArrives /\ "in" \in fds /\ BodyDecoded.st = "error"
  /\ cgi_chunk_state' = BodyDecoded.state /\ cgi_chunk_buf' = BodyDecoded.held
  /\ flags' = flags \cup {"cgi_stdin_eof"}
  /\ EndRead
  /\ UNCHANGED <<peerVars, child, childVars, sent, toChild, outRead, at, fds,
                 reg, events, requestVars, outputVars, cgi_stdin_pending,
                 forwarded, why>>

(* A malformed chunk: the child is to see EOF after what it was sent.      *)
ReadBadChunk ==
  /\ BodyArrives /\ "in" \in fds /\ BodyDecoded.st = "error"
  /\ cgi_chunk_state' = BodyDecoded.state /\ cgi_chunk_buf' = BodyDecoded.held
  /\ flags' = flags \cup {"cgi_stdin_eof"}
  /\ fds' = IF cgi_stdin_pending = <<>> THEN fds \ {"in"} ELSE fds
  /\ EndRead
  /\ UNCHANGED <<peerVars, child, childVars, sent, toChild, outRead, at, reg,
                 events, requestVars, outputVars, cgi_stdin_pending, forwarded,
                 why>>

(* The last of the body has arrived, by the chunk decoder or by count; the *)
(* pipe can be closed now if nothing waits to be written to it.            *)
BodyEnds == IF Chunked THEN BodyDecoded.st = "eof"
            ELSE /\ req.framing = "length" /\ req.len > 0
                 /\ forwarded + Len(Chunk) >= req.len
CanClose(ends, rest) == ends /\ cgi_stdin_pending \o rest = <<>>

(* Write what fits into the pipe and buffer the rest; at the end of the    *)
(* body close the pipe, or leave that to handle_cgi_stdin_writable.        *)
ForwardBody ==
  /\ BodyArrives /\ "in" \in fds /\ BodyDecoded.st # "error"
  /\ LET data == BodyDecoded.data
         w    == Least(PipeRoom, Len(data))
         rest == Drop(data, w)
         ends == BodyEnds
         closes == CanClose(ends, rest)
         stops == ends \/ moved + Len(Chunk) >= FairMax
     IN /\ toChild' = toChild \o Take(data, w)
        /\ cgi_stdin_pending' = cgi_stdin_pending \o rest
        /\ cgi_chunk_state' = BodyDecoded.state
        /\ cgi_chunk_buf' = BodyDecoded.held
        /\ forwarded' = forwarded + (IF Chunked THEN 0 ELSE Len(Chunk))
        /\ flags' = IF ends /\ ~closes THEN flags \cup {"cgi_stdin_eof"} ELSE flags
        /\ fds' = IF closes THEN fds \ {"in"} ELSE fds
        /\ reg' = IF closes THEN reg \ {"in"}
                  ELSE IF rest # <<>> THEN reg \cup {"in"} ELSE reg
        /\ events' = [events EXCEPT !["in"] =
                        IF closes THEN {}
                        ELSE IF rest # <<>> THEN @ \cup {"OUT"} ELSE @]
        /\ revents' = [revents EXCEPT
                         !["client"] = IF stops THEN @ \ {"IN"} ELSE @,
                         !["in"] = IF closes THEN {} ELSE @]
        /\ moved' = IF stops THEN 0 ELSE moved + Len(Chunk)
  /\ UNCHANGED <<peerVars, child, childVars, sent, outRead, at, requestVars,
                 outputVars, why>>

-------------------------------------------------------------------------------
(***************************************************************************)
(* handle_client_read of a request: one read, then the parser.             *)
(***************************************************************************)
RequestReading == ClientReading /\ ~Active

RequestEof ==
  /\ RequestReading
  /\ taken = arrived \/ peer = "rst"
  /\ peer # "open"
  /\ remove_client("peer")
  /\ UNCHANGED <<at, taken, sent>>

RequestBytes == IF Started THEN Chunk ELSE buffer \o Chunk

BytesArrive == /\ RequestReading
               /\ taken < arrived /\ peer # "rst"
               /\ taken' = taken + Len(Chunk)
               /\ age' = 0

AwaitHeaders ==
  /\ BytesArrive /\ ~Started /\ ~HasBlankLine(RequestBytes)
  /\ buffer' = RequestBytes
  /\ EndRead
  /\ UNCHANGED <<peerVars, child, childVars, sent, toChild, outRead, at, fds,
                 reg, events, flags, body, response, outputVars, stdinVars, why>>

(* The parser's verdict on the bytes, and whose headers they start with.   *)
Parsing == BytesArrive /\ (Started \/ HasBlankLine(RequestBytes))
Verdict == IF Started THEN ParseBody(req, body, RequestBytes)
           ELSE ParseRequest(req, RequestBytes)
IsCgi   == ~Started /\ IsFirstRequest(RequestBytes) /\ req.kind = "cgi"

(* Client::clear_buffer                                                    *)
clear_buffer == /\ buffer' = <<>> /\ body' = <<>>

(* Mutant: POLLOUT is added and POLLIN stays.                              *)
StillReading == [events EXCEPT !["client"] = @ \cup {"OUT"}]
OnlyWriting  == [events EXCEPT !["client"] = {"OUT"}]

(* 400 or 413: the answer is all that is left to do, nothing more is read. *)
RejectRequest ==
  /\ Parsing /\ Verdict.st = "error"
  /\ response' = ErrorPage
  /\ events' = OnlyWriting
  /\ clear_buffer /\ flags' = flags \ {"request_started"}
  /\ EndRead
  /\ UNCHANGED <<peerVars, child, childVars, sent, toChild, outRead, at, fds,
                 reg, outputVars, stdinVars, why>>

AwaitBody ==
  /\ Parsing /\ Verdict.st = "more" /\ ~IsCgi
  /\ flags' = flags \cup {"request_started"}
  /\ buffer' = <<>> /\ body' = Verdict.body
  /\ EndRead
  /\ UNCHANGED <<peerVars, child, childVars, sent, toChild, outRead, at, fds,
                 reg, events, response, outputVars, stdinVars, why>>

(* A response of HTTPHandler, or a redirect, or (page = ErrorPage) the 500 *)
(* of dispatch_cgi: set it and leave the rest to handle_poll_output.       *)
RespondWith(page) ==
  /\ response' = page
  /\ events' = [events EXCEPT !["client"] = @ \cup {"OUT"}]
  /\ clear_buffer /\ flags' = flags \ {"request_started"}
  /\ EndRead
  /\ UNCHANGED <<peerVars, child, childVars, sent, toChild, outRead, at, fds,
                 reg, outputVars, stdinVars, why>>

AnswerRequest == Parsing /\ Verdict.st = "done" /\ ~IsCgi /\ RespondWith(StaticPage)

DispatchFails == /\ Parsing /\ Verdict.st # "error" /\ IsCgi
                 /\ "spawn" \in Env
                 /\ RespondWith(ErrorPage)

(***************************************************************************)
(* dispatch_cgi: the child starts, the part of the body that came with the *)
(* headers goes to it, and its two pipes are registered.  The decoder      *)
(* takes over from HTTPRequest in the state HTTPRequest's chunked parser   *)
(* is in: "trailers" if that parser has seen the whole body.  A child that *)
(* is gone before the first write makes it fail.                           *)
(***************************************************************************)
(* Mutant: the two states are confused.                                    *)
HandOverSwapped ==
  IF ~Chunked THEN Decoded("ok", <<>>, "none", <<>>)
  ELSE IF Verdict.left = <<>>
  THEN Decoded("ok", <<>>, IF Verdict.st = "done" THEN "size" ELSE "trailers", <<>>)
  ELSE decode_chunked_for_cgi("trailers", <<>>, Verdict.left)

HandOver ==
  IF ~Chunked THEN Decoded("ok", <<>>, "none", <<>>)
  ELSE IF Verdict.left = <<>>
  THEN Decoded("ok", <<>>, IF Verdict.st = "done" THEN "trailers" ELSE "size", <<>>)
  ELSE decode_chunked_for_cgi("trailers", <<>>, Verdict.left)

dispatch_cgi ==
  /\ Parsing /\ Verdict.st # "error" /\ IsCgi
  /\ child' = "run" \/ (child' = "closed" /\ req.script = "any")
  /\ LET data == Verdict.body
         w    == Least(IF child' = "run" THEN PipeCap ELSE 0, Len(data))
         rest == Drop(data, w)
         complete == IF Chunked THEN HandOver.st = "eof"
                     ELSE req.framing = "none" \/ Len(data) >= req.len
         open == ~(complete /\ rest = <<>>)
     IN /\ toChild' = Take(data, w)
        /\ cgi_stdin_pending' = rest
        /\ forwarded' = Len(data)
        /\ flags' = {"request_started", "cgi_active"}
                      \cup (IF complete /\ open THEN {"cgi_stdin_eof"} ELSE {})
        /\ fds' = fds \cup {"out"} \cup (IF open THEN {"in"} ELSE {})
        /\ reg' = reg \cup {"out"} \cup (IF open THEN {"in"} ELSE {})
        /\ events' = [events EXCEPT !["out"] = {"IN"},
                                    !["in"] = IF open THEN {"OUT"} ELSE @]
  /\ childRead' = 0 /\ childOut' = 0 /\ outRead' = 0
  /\ cgi_chunk_state' = HandOver.state /\ cgi_chunk_buf' = HandOver.held
  /\ cgi_output' = <<>> /\ cgi_send_pending' = <<>>
  /\ buffer' = <<>> /\ body' = <<>>
  /\ EndRead
  /\ UNCHANGED <<peerVars, sent, at, response, why>>

handle_client_read ==
  \/ ReadBackpressure \/ ReadEof \/ ReadAgain \/ ReadDropped \/ ReadBadChunk
  \/ ForwardBody
  \/ RequestEof \/ AwaitHeaders \/ RejectRequest \/ AwaitBody \/ AnswerRequest
  \/ DispatchFails \/ dispatch_cgi

-------------------------------------------------------------------------------
(***************************************************************************)
(* handle_poll_output on the connection.  While a CGI runs, or has started *)
(* its answer, cgi_send_pending is what is sent; otherwise the response.   *)
(***************************************************************************)
CgiMode == Active \/ cgi_send_pending # <<>> \/ Streamed

(* Mutant: the handler goes on to send until send() fails.                 *)
EndWriteNever == moved' = 0 /\ revents' = revents

EndWrite == /\ revents' = Handled(revents, "client", {"OUT"})
            /\ moved' = 0

(* Mutant: an empty buffer is taken for the end of the CGI's output.       *)
StreamDoneEarly ==
  /\ ClientWriting /\ CgiMode /\ cgi_send_pending = <<>>
  /\ remove_client("done")
  /\ UNCHANGED <<at, taken, sent>>

(* Everything the CGI produced has been sent: close.                       *)
StreamDone ==
  /\ ClientWriting /\ CgiMode /\ cgi_send_pending = <<>> /\ ~Active
  /\ remove_client("done")
  /\ UNCHANGED <<at, taken, sent>>

(* Nothing to send yet.                                                    *)
StreamIdle ==
  /\ ClientWriting /\ CgiMode /\ cgi_send_pending = <<>> /\ Active
  /\ events' = [events EXCEPT !["client"] = @ \ {"OUT"}]
  /\ EndWrite
  /\ UNCHANGED <<peerVars, child, childVars, taken, sent, toChild, outRead,
                 at, fds, reg, clientVars, why>>

(* Mutant: the backpressure on the CGI is never lifted.                    *)
NeverResumes(rest) == FALSE

CgiResumes(rest) == Active /\ Len(rest) < Limit /\ "out" \in fds

StreamSend ==
  /\ ClientWriting /\ CgiMode /\ cgi_send_pending # <<>>
  /\ peer # "rst" /\ SockRoom > 0
  /\ LET n    == Least(SockRoom, Len(cgi_send_pending))
         rest == Drop(cgi_send_pending, n)
         stops == moved + n >= FairMax
     IN /\ sent' = sent \o Take(cgi_send_pending, n)
        /\ cgi_send_pending' = rest
        /\ events' = [events EXCEPT !["out"] =
                        IF CgiResumes(rest) THEN @ \cup {"IN"} ELSE @]
        /\ revents' = [revents EXCEPT !["client"] =
                         IF stops THEN @ \ {"OUT"} ELSE @]
        /\ moved' = IF stops THEN 0 ELSE moved + n
  /\ age' = 0
  /\ UNCHANGED <<peerVars, child, childVars, taken, toChild, outRead, at, fds,
                 reg, flags, requestVars, cgi_output, stdinVars, why>>

StreamBlocked ==
  /\ ClientWriting /\ CgiMode /\ cgi_send_pending # <<>>
  /\ peer # "rst" /\ SockRoom = 0
  /\ EndWrite
  /\ UNCHANGED <<peerVars, child, childVars, taken, sent, toChild, outRead,
                 at, fds, reg, events, clientVars, why>>

StreamFails ==
  /\ ClientWriting /\ CgiMode /\ cgi_send_pending # <<>> /\ peer = "rst"
  /\ remove_client("peer")
  /\ UNCHANGED <<at, taken, sent>>

(* POLLOUT without a response (Server.cpp:1360) does not come: see         *)
(* WriteHasWork.                                                           *)

(* response keeps the part not sent yet (response_ from response_offset_). *)
ResponseSend ==
  /\ ClientWriting /\ ~CgiMode /\ response # <<>>
  /\ peer # "rst" /\ SockRoom > 0
  /\ LET n == Least(SockRoom, Len(response))
     IN /\ sent' = sent \o Take(response, n)
        /\ IF n = Len(response)
           THEN remove_client("done")
           ELSE /\ response' = Drop(response, n)
                /\ age' = 0
                /\ EndWrite
                /\ UNCHANGED <<peerVars, child, childVars, toChild, outRead,
                               fds, reg, events, flags, buffer, body,
                               outputVars, stdinVars, why>>
  /\ UNCHANGED <<at, taken>>

(* Any failure of this send() removes the client, EAGAIN included.         *)
ResponseFails ==
  /\ ClientWriting /\ ~CgiMode /\ response # <<>>
  /\ peer = "rst" \/ SockRoom = 0
  /\ remove_client(IF peer = "rst" THEN "peer" ELSE "error")
  /\ UNCHANGED <<at, taken, sent>>

handle_poll_output ==
  \/ StreamDone \/ StreamIdle \/ StreamSend \/ StreamBlocked \/ StreamFails
  \/ ResponseSend \/ ResponseFails

-------------------------------------------------------------------------------
(***************************************************************************)
(* handle_cgi_output: bytes are collected until the end of the CGI header  *)
(* block, then streamed.                                                   *)
(***************************************************************************)
HeaderEnds(raw) == req.hdr > 0 /\ Len(raw) >= req.hdr

(* Mutants: the CGI's own header block is sent with the body; the CGI is   *)
(* read however much waits to be sent.                                     *)
StreamedWithHeader(units, raw) ==
  IF Streamed THEN cgi_send_pending \o units
  ELSE IF HeaderEnds(raw) THEN cgi_send_pending \o <<HttpHeader>> \o raw
  ELSE cgi_send_pending
NeverFull(pend) == FALSE

(* What waits to be sent once units are read: the bytes themselves, or the *)
(* HTTP header and what came after the end of the CGI's header block.      *)
StreamedOutput(units, raw) ==
  IF Streamed THEN cgi_send_pending \o units
  ELSE IF HeaderEnds(raw)
  THEN cgi_send_pending \o <<HttpHeader>> \o Drop(raw, req.hdr)
  ELSE cgi_send_pending
SendBufferFull(pend) == Len(pend) > Limit

CgiOutput ==
  /\ Turn("out") /\ outRead < childOut
  /\ LET n     == Least(ReadMax, childOut - outRead)
         units == CgiUnits(outRead, outRead + n)
         raw   == cgi_output \o units
         found == HeaderEnds(raw)
         pend  == StreamedOutput(units, raw)
         full  == SendBufferFull(pend)
         stops == full \/ moved + n >= FairMax
     IN /\ outRead' = outRead + n
        /\ cgi_output' = IF Streamed THEN cgi_output ELSE raw
        /\ cgi_send_pending' = pend
        /\ flags' = IF found THEN flags \cup {"cgi_headers_sent"} ELSE flags
        /\ events' = [events EXCEPT
                        !["client"] = IF Streamed \/ found THEN @ \cup {"OUT"} ELSE @,
                        !["out"] = IF full THEN @ \ {"IN"} ELSE @]
        /\ revents' = [revents EXCEPT !["out"] = IF stops THEN {} ELSE @]
        /\ moved' = IF stops THEN 0 ELSE moved + n
  /\ UNCHANGED <<peerVars, child, childVars, taken, sent, toChild, at, fds, reg,
                 age, requestVars, stdinVars, why>>

CgiOutputAgain ==
  /\ Turn("out") /\ outRead = childOut /\ child = "run"
  /\ revents' = [revents EXCEPT !["out"] = {}] /\ moved' = 0
  /\ UNCHANGED <<peerVars, child, childVars, taken, sent, toChild, outRead,
                 at, fds, reg, events, clientVars, why>>

(* parse_cgi_response on output without CRLF CRLF: LF LF is tried, and a   *)
(* 500 is the answer to output without either, or to none.                 *)
FinalResponse == IF req.lf > 0 /\ Len(cgi_output) >= req.lf
                 THEN <<HttpHeader>> \o Drop(cgi_output, req.lf)
                 ELSE ErrorPage

(***************************************************************************)
(* End of the CGI's output: its entry goes, and finalize_cgi answers (or   *)
(* leaves the rest of the stream to handle_poll_output), closes the pipes, *)
(* waits for the child without blocking and forgets it.  The entry of a    *)
(* stdin pipe closed here stays in poll_fds_.                              *)
(***************************************************************************)
(* Mutant: POLLOUT of the connection is not requested.                     *)
FinalEventsForgotten == [events EXCEPT !["out"] = {}]
FinalEvents == [events EXCEPT !["client"] = @ \cup {"OUT"}, !["out"] = {}]

finalize_cgi ==
  /\ Turn("out") /\ outRead = childOut /\ child # "run"
  /\ response' = IF Streamed THEN response ELSE FinalResponse
  /\ flags' = flags \ {"cgi_active", "request_started"}
  /\ child' = Reap
  /\ fds' = fds \ {"out", "in"}
  /\ reg' = reg \ {"out"}
  /\ events' = FinalEvents
  /\ revents' = [revents EXCEPT !["out"] = {}] /\ moved' = 0
  /\ clear_buffer
  /\ UNCHANGED <<peerVars, childVars, taken, sent, toChild, outRead, at, age,
                 outputVars, stdinVars, why>>

handle_cgi_output == CgiOutput \/ CgiOutputAgain \/ finalize_cgi

-------------------------------------------------------------------------------
(***************************************************************************)
(* The entry of the CGI's stdin: handle_poll_errors when the pipe broke or *)
(* the descriptor is closed, handle_cgi_stdin_writable otherwise.          *)
(***************************************************************************)
DropStdin == /\ fds' = fds \ {"in"} /\ reg' = reg \ {"in"}
             /\ events' = [events EXCEPT !["in"] = {}]
             /\ revents' = [revents EXCEPT !["in"] = {}]
             /\ moved' = 0

StdinError ==
  /\ Turn("in") /\ revents["in"] \cap ErrorBits # {}
  /\ DropStdin
  /\ UNCHANGED <<peerVars, child, childVars, taken, sent, toChild, outRead,
                 at, clientVars, why>>

StdinWritable == Turn("in") /\ revents["in"] \cap ErrorBits = {}

(* The client is gone: the entry is an orphan.                             *)
StdinOrphan ==
  /\ StdinWritable /\ "client" \notin fds
  /\ DropStdin
  /\ UNCHANGED <<peerVars, child, childVars, taken, sent, toChild, outRead,
                 at, clientVars, why>>

Flushing == /\ cgi_stdin_pending # <<>> /\ moved < FairMax /\ PipeRoom > 0

(* Client::consume_cgi_stdin_pending                                       *)
consume_cgi_stdin_pending(w) == Drop(cgi_stdin_pending, w)

StdinFlush ==
  /\ StdinWritable /\ "client" \in fds /\ Flushing
  /\ LET w == Least(PipeRoom, Len(cgi_stdin_pending))
     IN /\ toChild' = toChild \o Take(cgi_stdin_pending, w)
        /\ cgi_stdin_pending' = consume_cgi_stdin_pending(w)
        /\ moved' = moved + w
  /\ UNCHANGED <<peerVars, child, childVars, taken, sent, outRead, at, pollVars,
                 flags, age, requestVars, outputVars, cgi_chunk_state,
                 cgi_chunk_buf, forwarded, why>>

(* Everything is flushed and the body is complete: the child sees EOF.     *)
StdinClose ==
  /\ StdinWritable /\ "client" \in fds /\ ~Flushing
  /\ cgi_stdin_pending = <<>> /\ StdinEof
  /\ DropStdin
  /\ UNCHANGED <<peerVars, child, childVars, taken, sent, toChild, outRead,
                 at, clientVars, why>>

(* Mutants: the client is not read again; the pipe is not watched any more *)
(* although something is left to write to it.                              *)
StdinEventsStuck ==
  [events EXCEPT !["in"] = IF cgi_stdin_pending = <<>> THEN @ \ {"OUT"} ELSE @]
StdinEventsBlind ==
  [events EXCEPT !["client"] = IF Len(cgi_stdin_pending) < Limit
                               THEN @ \cup {"IN"} ELSE @,
                 !["in"] = @ \ {"OUT"}]

(* Read from the client again below the limit; watch the pipe only while   *)
(* there is something to write to it.                                      *)
StdinEvents ==
  [events EXCEPT !["client"] = IF Len(cgi_stdin_pending) < Limit
                               THEN @ \cup {"IN"} ELSE @,
                 !["in"] = IF cgi_stdin_pending = <<>> THEN @ \ {"OUT"} ELSE @]

StdinKeep ==
  /\ StdinWritable /\ "client" \in fds /\ ~Flushing
  /\ ~(cgi_stdin_pending = <<>> /\ StdinEof)
  /\ events' = StdinEvents
  /\ revents' = [revents EXCEPT !["in"] = {}] /\ moved' = 0
  /\ UNCHANGED <<peerVars, child, childVars, taken, sent, toChild, outRead,
                 at, fds, reg, clientVars, why>>

handle_cgi_stdin_writable == StdinOrphan \/ StdinFlush \/ StdinClose \/ StdinKeep

-------------------------------------------------------------------------------
(***************************************************************************)
(* The end of an iteration of the loop: the timeout check.                 *)
(***************************************************************************)
ScanOver == at = "scan" /\ \A e \in Entries : revents[e] = {}
(* Mutant: a connection whose CGI runs does not time out.                  *)
ExpiredIdle == "client" \in fds /\ ~Active /\ age > MaxAge
Expired  == "client" \in fds /\ age > MaxAge

EndScan ==
  /\ ScanOver /\ ~Expired
  /\ at' = "poll"
  /\ UNCHANGED <<peerVars, child, childVars, taken, sent, toChild, outRead,
                 pollVars, moved, clientVars, why>>

TimeOut ==
  /\ ScanOver /\ Expired
  /\ at' = "poll"
  /\ remove_client("timeout")
  /\ UNCHANGED <<taken, sent>>

Server ==
  \/ Poll \/ ClientError \/ handle_client_read \/ handle_poll_output
  \/ handle_cgi_output \/ StdinError \/ handle_cgi_stdin_writable
  \/ EndScan \/ TimeOut

-------------------------------------------------------------------------------
(***************************************************************************)
(* The environment: the peer, the CGI child and the clock.                 *)
(***************************************************************************)
serverVars == <<taken, sent, toChild, outRead, at, pollVars, moved, flags,
                requestVars, outputVars, stdinVars, why>>

PeerSend ==
  /\ peer = "open" /\ "client" \in fds
  /\ arrived < Len(req.stream) /\ arrived - taken < SockCap
  /\ arrived' = arrived + 1
  /\ UNCHANGED <<req, peer, rcvd, child, childVars, age, serverVars>>

PeerRecv ==
  /\ peer # "rst" /\ rcvd < Len(sent)
  /\ rcvd' = rcvd + 1
  /\ UNCHANGED <<req, peer, arrived, child, childVars, age, serverVars>>

PeerFin ==
  /\ "fin" \in Env /\ peer = "open" /\ "client" \in fds
  /\ peer' = "fin"
  /\ UNCHANGED <<req, arrived, rcvd, child, childVars, age, serverVars>>

PeerRst ==
  /\ "rst" \in Env /\ peer # "rst" /\ "client" \in fds
  /\ peer' = "rst"
  /\ UNCHANGED <<req, arrived, rcvd, child, childVars, age, serverVars>>

(* A filter reads its stdin to the end before it writes; any other script  *)
(* reads, writes and exits whenever it likes.                              *)
AtEof == "in" \notin fds /\ childRead = Len(toChild)

ChildRead ==
  /\ child = "run" /\ childRead < Len(toChild)
  /\ childRead' = childRead + 1
  /\ UNCHANGED <<peerVars, child, childOut, age, serverVars>>

ChildWrite ==
  /\ child = "run" /\ "out" \in fds
  /\ childOut < req.out /\ childOut - outRead < PipeCap
  /\ req.script = "filter" => AtEof
  /\ childOut' = childOut + 1
  /\ UNCHANGED <<peerVars, child, childRead, age, serverVars>>

(* exit() closes the child's ends of the pipes before the parent can wait  *)
(* for it.                                                                 *)
ChildClose ==
  /\ child = "run"
  /\ req.script = "any" \/ childOut = req.out \/ "out" \notin fds
  /\ child' = "closed"
  /\ UNCHANGED <<peerVars, childVars, age, serverVars>>

ChildDie ==
  /\ child = "closed" /\ child' = "zombie"
  /\ UNCHANGED <<peerVars, childVars, age, serverVars>>

Tick ==
  /\ "clock" \in Env /\ "client" \in fds /\ age <= MaxAge
  /\ age' = age + 1
  /\ UNCHANGED <<peerVars, child, childVars, serverVars>>

PeerStep == PeerSend \/ PeerRecv \/ PeerFin \/ PeerRst
ChildStep == ChildRead \/ ChildWrite \/ ChildClose \/ ChildDie

Next == Server \/ PeerStep \/ ChildStep \/ Tick

Spec == Init /\ [][Next]_vars

(***************************************************************************)
(* Fairness.  The loop always takes another step (poll returns within      *)
(* POLL_TIMEOUT), and the clock runs.  FairSpec says no more.  In          *)
(* CoopSpec the peer also sends its request and reads the answer, and the  *)
(* script, once it can, reads, writes and exits.                           *)
(***************************************************************************)
FairSpec == Spec /\ WF_vars(Server) /\ WF_vars(Tick)
CoopSpec == /\ Spec /\ WF_vars(Server)
            /\ WF_vars(PeerSend) /\ WF_vars(PeerRecv)
            /\ WF_vars(ChildRead) /\ WF_vars(ChildWrite) /\ WF_vars(ChildClose)

-------------------------------------------------------------------------------
KernelTypes ==
  /\ req \in Requests /\ peer \in {"open", "fin", "rst"}
  /\ arrived \in 0 .. Len(req.stream) /\ taken \in 0 .. arrived
  /\ sent \in Seq(Unit) /\ rcvd \in 0 .. Len(sent)
  /\ child \in {"none", "run", "closed", "zombie", "reaped"}
  /\ toChild \in Seq(Token) /\ childRead \in 0 .. Len(toChild)
  /\ childOut \in 0 .. req.out /\ outRead \in 0 .. childOut
  /\ Len(sent) - rcvd <= SockCap
  /\ Len(toChild) - childRead <= PipeCap
  /\ childOut - outRead <= PipeCap

LoopTypes ==
  /\ at \in {"poll", "scan"} /\ fds \subseteq Entries /\ reg \subseteq Entries
  /\ events \in [Entries -> SUBSET Bits] /\ revents \in [Entries -> SUBSET Bits]
  /\ moved \in Nat /\ why \in {"", "done", "peer", "timeout", "error"}

ClientTypes ==
  /\ flags \subseteq Flags /\ age \in Nat
  /\ buffer \in Seq(Token) /\ body \in Seq(Token) /\ response \in Seq(Unit)
  /\ cgi_output \in Seq(Unit) /\ cgi_send_pending \in Seq(Unit)
  /\ cgi_stdin_pending \in Seq(Token) /\ cgi_chunk_buf \in Seq(Token)
  /\ cgi_chunk_state \in {"none", "size", "trailers", "done"}
  /\ forwarded \in Nat

(* The type of every variable; nothing is written beyond the capacity of a *)
(* pipe or of the socket's send buffer.                                    *)
TypeOK == KernelTypes /\ LoopTypes /\ ClientTypes

(***************************************************************************)
(* No lost wakeups: whenever the loop is about to block in poll(), every   *)
(* piece of unfinished work has an event requested that will resume it.    *)
(***************************************************************************)

(* A descriptor the connection holds open is in poll_fds_: none is leaked  *)
(* or forgotten, whatever order the child, the peer and errors come in.    *)
HeldIsPolled == fds \subseteq reg

(* Body bytes buffered for the CGI, or an EOF it has yet to see, keep      *)
(* POLLOUT on its stdin; and reading from the client is off only while     *)
(* those bytes are at the limit, so handle_cgi_stdin_writable will turn    *)
(* it on again (Server.cpp:950-953).                                       *)
StdinServed ==
  at = "poll" /\ "in" \in fds =>
    /\ cgi_stdin_pending # <<>> \/ StdinEof => "OUT" \in events["in"]
    /\ "IN" \notin events["client"] => Len(cgi_stdin_pending) >= Limit

(* Reading from a running CGI is off only while the send buffer is at the  *)
(* limit, and a buffer that is not empty keeps POLLOUT on the connection,  *)
(* so handle_poll_output will turn it on again (Server.cpp:1332-1335).     *)
StdoutServed ==
  "client" \in fds =>
    /\ Active => /\ "out" \in reg
                 /\ \/ "IN" \in events["out"]
                    \/ Len(cgi_send_pending) >= Limit
    /\ cgi_send_pending # <<>> => "OUT" \in events["client"]

(* A finished answer keeps POLLOUT until the connection is closed: nothing *)
(* that happens in between (a stale stdin entry, late body bytes) may      *)
(* leave it waiting (Server.cpp:515-516).                                  *)
AnswerServed ==
  "client" \in fds /\ ~Active /\ (response # <<>> \/ Streamed) =>
    "OUT" \in events["client"]

(* POLLOUT is requested only while there is something to send or a CGI     *)
(* that will produce it: the loop does not spin on a writable socket, and  *)
(* the empty response of Server.cpp:1360 is never met.                     *)
WriteHasWork ==
  "client" \in fds /\ "OUT" \in events["client"] => CgiMode \/ response # <<>>

(***************************************************************************)
(* Bounds.                                                                 *)
(***************************************************************************)

(* The stdin buffer never exceeds the limit by more than one read, however *)
(* slowly the CGI reads (Server.cpp:950-952).                              *)
StdinBound == WellFramed(req) => Len(cgi_stdin_pending) <= Limit + ReadMax

(* Nor does the send buffer, but for what a script that has exited left in *)
(* its pipe: POLLHUP makes handle_cgi_output read although POLLIN is off.  *)
(* A header block is collected first and may come on top.                  *)
SendBound ==
  Len(cgi_send_pending)
    <= Limit + ReadMax + (IF child = "run" THEN 0 ELSE PipeCap)

(***************************************************************************)
(* The inductive invariant behind the bounds and the wakeups: what holds   *)
(* in the middle of a scan too.                                            *)
(***************************************************************************)
(* Which descriptors are open and polled, and what that says of the Client:*)
(* only the entry of a CGI's stdin may outlive its descriptor.             *)
EntriesOK ==
  /\ fds \subseteq reg /\ reg \ fds \subseteq {"in"}
  /\ \A e \in Entries \ reg : events[e] = {} /\ revents[e] = {}
  /\ at = "poll" => \A e \in Entries : revents[e] = {}
  /\ "client" \notin fds => /\ fds = {} /\ flags = {}
                            /\ cgi_send_pending = <<>> /\ response = <<>>
  /\ Active <=> "out" \in fds
  /\ "in" \in fds => Active
  /\ \A b \in {"IN", "OUT"} : b \in revents["client"] => b \in events["client"]

StdoutOK ==
  /\ Active => "IN" \in events["out"] \/ Len(cgi_send_pending) >= Limit
  /\ cgi_send_pending # <<>> => Streamed /\ "OUT" \in events["client"]
  /\ "IN" \in events["out"] => Len(cgi_send_pending) <= Limit
  /\ child = "run" /\ revents["out"] # {} => "IN" \in events["out"]
  /\ Active /\ ~Streamed /\ req.hdr > 0 => Len(cgi_output) < req.hdr
  /\ child = "run" => Len(cgi_send_pending) <= Limit + ReadMax
  /\ child # "run" =>
       Len(cgi_send_pending) + (IF Active THEN childOut - outRead ELSE 0)
         <= Limit + ReadMax + PipeCap

StdinOK ==
  "in" \in fds =>
    /\ cgi_stdin_pending # <<>> \/ StdinEof => "OUT" \in events["in"]
    /\ "IN" \notin events["client"] =>
         Len(cgi_stdin_pending) >= Limit \/ revents["in"] # {}

ConnInv == EntriesOK /\ StdoutOK /\ AnswerServed /\ WriteHasWork /\ StdinOK

(***************************************************************************)
(* The data.                                                               *)
(***************************************************************************)
CgiAnswer(r) == <<HttpHeader>> \o CgiUnits(r.hdr, r.out)
LfAnswer(r)  == <<HttpHeader>> \o CgiUnits(r.lf, r.out)
Answers(r) == {ErrorPage}
  \cup (IF r.kind = "static" THEN {StaticPage} ELSE {})
  \cup (IF r.kind = "cgi" /\ r.hdr > 0 THEN {CgiAnswer(r)} ELSE {})
  \cup (IF r.kind = "cgi" /\ r.lf > 0 THEN {LfAnswer(r)} ELSE {})

StartOf(s, t) == Len(s) <= Len(t) /\ \A i \in 1 .. Len(s) : s[i] = t[i]

(* Body bytes that arrive after the script has ended are read as another   *)
(* request.  That gets no answer of its own while they do not read as one, *)
(* nor does it replace half an answer while the answer is streamed.        *)
BodyIsInert(r) ==
  /\ \A i \in BodyIndices(r) : r.stream[i].t \in ChunkKinds
  /\ r.lf > 0 => Len(r.stream) = FirstBlank(r.stream)

(* What is sent is the start of one answer: no byte of the script's output *)
(* lost, repeated or out of order on its way through cgi_output_ and       *)
(* cgi_send_pending_, and never the pieces of two answers.                 *)
OneAnswer == \E a \in Answers(req) : StartOf(sent, a)
AnswerIntact == WellFramed(req) /\ BodyIsInert(req) => OneAnswer

(* A connection closed as done has sent all the script wrote before it     *)
(* closed its stdout (Server.cpp:1302).                                    *)
DoneIsComplete ==
  (/\ why = "done" /\ req.kind = "cgi"
   /\ 0 < req.hdr /\ req.hdr <= childOut
   /\ sent # <<>> /\ sent[1] = HttpHeader) =>
     Len(sent) = 1 + childOut - req.hdr

BodyTaken == {i \in BodyIndices(req) : i <= taken}
TokensAt(I) == {req.stream[i] : i \in I}
TokensOf(s) == {s[i] : i \in 1 .. Len(s)}

(* While the CGI's stdin is open, every body token read from the client is *)
(* in the pipe or in the stdin buffer, once; nothing else is.              *)
BodyConserved ==
  WellFramed(req) /\ "in" \in fds =>
    /\ TokensOf(toChild \o cgi_stdin_pending) = TokensAt(BodyTaken)
    /\ Len(toChild) + Len(cgi_stdin_pending) = Cardinality(BodyTaken)

(* A running script sees the end of its stdin only after the whole body,   *)
(* unless the client is gone.                                              *)
EofIsHonest ==
  WellFramed(req) /\ child = "run" /\ "in" \notin fds
    /\ "client" \in fds /\ peer = "open" =>
      TokensOf(toChild) = TokensAt(BodyIndices(req))

(* A response that poll() promised room for is never dropped for lack of   *)
(* it: the EAGAIN that Server.cpp:1374 would treat as fatal does not come. *)
NotDroppedWhenFull == why # "error"

(* Once a request is rejected nothing more is read from its connection     *)
(* (Server.cpp:1181-1183), though the rest of its body keeps coming.       *)
Rejected == req.kind # "cgi" /\ "client" \in fds /\ response = ErrorPage
RejectIsFinal == [][Rejected => taken' = taken]_vars

(* Every connection is closed in the end, whatever the peer and the script *)
(* do or fail to do: the timeout of Server.cpp:221-238 is never postponed  *)
(* for ever by events that carry no data.                                  *)
EventuallyClosed == <>("client" \notin fds)

(* A peer that sends its request and reads the answer gets the answer of a *)
(* script that reads its input and answers: no order of events leaves      *)
(* everyone waiting.                                                       *)
EventuallyAnswered ==
  <>(/\ why = "done" /\ rcvd = Len(sent)
     /\ req.kind = "cgi" => sent = CgiAnswer(req)
     /\ req.kind = "static" => sent = StaticPage)

-------------------------------------------------------------------------------
(***************************************************************************)
(* What comments of the code say of it and the model refutes.              *)
(***************************************************************************)

(* "This prevents orphan fds and zombie processes when clients disconnect  *)
(* during active CGI." (Server.cpp:1448-1450)  Nothing but the Client's    *)
(* finish_cgi waits for the child.                                         *)
NoZombies == "client" \notin fds => child # "zombie"

(* "we just need to stream incoming body bytes to the CGI's stdin pipe"    *)
(* (Server.cpp:940-941): the script reads the body as it was sent.         *)
BodyOf(r) == IF r.framing = "none" THEN <<>>
             ELSE SubSeq(r.stream, BodyStart(r),
                         Len(r.stream) - (IF r.framing = "chunked" THEN 1 ELSE 0))
BodyInOrder == WellFramed(req) => StartOf(toChild, BodyOf(req))

(* "body is not yet complete (more data will come from client)"            *)
(* (Server.cpp:915-916): an open stdin with nothing to write and no EOF to *)
(* deliver waits for body bytes that are still to come.                    *)
OpenMeansMore ==
  WellFramed(req) /\ "in" \in fds /\ cgi_stdin_pending = <<>> /\ ~StdinEof =>
    taken < Len(req.stream)

(* "we just need to stream incoming body bytes to the CGI's stdin pipe"    *)
(* (Server.cpp:940-941): what is streamed are body bytes, so what a client *)
(* sends after Content-Length bytes is not the script's to read.           *)
OnlyBody == TokensOf(toChild) \subseteq TokensAt(BodyIndices(req))

(* "This prevents unbounded memory growth for large CGI responses."        *)
(* (Server.cpp:424-426)                                                    *)
OutputBound == Len(cgi_output) <= Limit + ReadMax

(* "remaining body data must not be parsed as a new request"               *)
(* (Server.cpp:1181-1182)                                                  *)
BodyIsNoRequest == \A i \in DOMAIN buffer : buffer[i].t = "part"

(* The same comment: nor does an answer half sent give way to the answer   *)
(* to such a request (set_response, Server.cpp:1180).                      *)
BodyGetsNoAnswer == WellFramed(req) => OneAnswer

(* "The pending send buffer will be drained by handle_poll_output."        *)
(* (Server.cpp:515)                                                        *)
PendingIsDrained ==
  [][ "client" \in fds /\ Streamed /\ ~Active /\ peer # "rst"
        /\ cgi_send_pending # <<>> => "client" \in fds' ]_vars

(* "No blank line separator -- treat entire output as body"                *)
(* (HTTPHandler.cpp:642)                                                   *)
OutputIsBody ==
  why = "done" /\ req.kind = "cgi" /\ req.hdr = 0 /\ req.lf = 0 /\ childOut > 0 =>
    \E i \in DOMAIN sent : sent[i].s = "cgi"
===============================================================================
