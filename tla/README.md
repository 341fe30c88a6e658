# A TLA+ model of the webserver

This directory holds a formal model of the HTTP server in `src/`: a
single-threaded `poll()` loop (`src/src/Server.cpp`) that serves many
connections, streams request bodies to CGI scripts and streams their output
back, answers from the file system, and starts from a configuration file. The
modules are checked with TLC on small instances. Every safety property the
passing runs check is also proved with TLAPS for every value of the parameters.
Line numbers below are those of `src/src/`.

## 1. Inventory

| Component | State | Operations | Made correct by |
|---|---|---|---|
| Connection: handlers of `Server`, `Client` | entries and events of `poll_fds_`, the two CGI maps, `buffer_`, `request_`, `response_`, `cgi_output_`, `cgi_send_pending_`, `cgi_stdin_pending_`, flags, `last_activity_` | `accept_client`, `handle_poll_errors/input/output`, `handle_client_read`, `dispatch_cgi`, `handle_cgi_output`, `finalize_cgi`, `handle_cgi_stdin_writable`, `remove_client`, timeouts | no lost wakeup, bounded buffers, body and answer neither lost, repeated nor reordered, honest EOF, every connection closed, descriptors never leaked |
| Body framing: `HTTPRequest`, `Client::decode_chunked_for_cgi` | parser state, chunk state and rest, collected body | `parse`, `parse_body`, `parse_chunk_*`, `init_cgi_chunk_decoder`, `decode_chunked_for_cgi` | the same bytes give the same body however they are split and whichever decoder sees them; limits hold; no overflow |
| Event loop over many connections | `poll_fds_` (order!), `clients_`, `cgi_fd_to_client_fd_`, `cgi_stdin_fd_to_client_fd_`, the scan index | `start`, `accept_client`, `remove_client`, every `erase` in a handler | each entry visited once per scan, a handler acts on its own connection, no foreign descriptor closed |
| Routing and handling: `match_route`, `HTTPHandler` | none (file system) | `handle_request`, `sanitize_path`, `url_decode`, GET/POST/DELETE, autoindex | longest prefix wins, no path leaves the root |
| `Config` | lines and the block being read | `parse`, directives, `validate` | a file means what its braces say; what is accepted can be served |
| Pending buffers of `Client` | string and offset | append, consume, compaction | a queue of bytes, memory reclaimed |
| `CGI::execute` | two pipes, a blocking child | fork, write all, read all, timeout | no deadlock, child reaped |
| Start and stop | listening sockets, `g_looping` | constructor, destructor, signals | partial failures are undone |
| CGI output: `parse_cgi_response`, `parse_cgi_headers` | `cgi_output_`, headers sent or not | collect, send headers, stream, finalize | the answer does not depend on how the output is cut into reads |
| `HTTPResponse` | headers, body | formatting, error pages | the length frames the body |

The components meet in `Server`: `poll()` reports events, the scan of
`Server::start` (201-218) calls one handler per entry, a handler reads or
writes one descriptor, moves bytes between the buffers of the `Client`, and
changes the *requested events of other entries*. That is where the difficulty
is: a handler on one descriptor switches off an event that only a handler on
another descriptor switches on again (953/594, 430/1348, 1312/403/419/521),
while the peer, the script and the clock move between any two system calls.
`PROJECT.json` lists the hazards line by line.

## 2. Modules

| Module | Contents |
|---|---|
| `HttpMessage` | tokens of a client's byte stream; `HTTPRequest` and the chunk decoder as functions on them; what the client meant, as a reference |
| `Connection` | one connection, its CGI child and pipes, the peer, the clock; the properties |
| `ConnectionProofs` | lemmas on the two parsers; theorems on the loop of one connection (types, wakeups, the send buffer), on the request body on its way to the script, and on what is sent |
| `MCConnection` + `MCConnection_*.cfg` | requests and bounds of the runs |
| `EventLoop` | all connections: descriptor numbers, `poll_fds_`, the maps, the scan, start and stop |
| `EventLoopProofs` | theorems on vector, maps and descriptors |
| `ByteQueue` | the abstract specification of a pending buffer |
| `PendingBuffer`, `PendingBufferProofs` | string, offset and compaction; that they implement `ByteQueue` |
| `ChunkedBody`, `MCChunkedBody` | the two chunk decoders byte by byte and their hand-over; what the bytes of a message mean, as a reference |
| `ChunkedBodyProofs` | theorems on what the two decoders put out |
| `CgiResponse`, `MCCgiResponse` | from the output of a script to an answer |
| `CgiResponseProofs` | theorems on that answer |
| `Handler`, `MCHandler` | routing and `HTTPHandler` on a small file system |
| `HandlerProofs` | theorems on routing, on what a target names, on uploads and listings |
| `Startup`, `MCStartup` | command line, configuration, listening sockets |
| `StartupProofs` | theorems on what is understood of a file and on the sockets |
| `CgiExecute`, `MCCgiExecute`, `CgiExecuteProofs` | `CGI::execute` and a script |

The modules look at the same server at different grains. `Connection` is one
connection with all its bytes and events; `EventLoop` is all connections, with
the bytes replaced by free choices and the descriptors made explicit;
`ChunkedBody`, `CgiResponse` and `PendingBuffer` are what `Connection` takes as
given (`decode_chunked_for_cgi` on tokens, where the header block ends, the
unsent part of a buffer); `Handler` is what it takes as an answer of some
length.

### HttpMessage

A byte stream is a sequence of tokens, each an indivisible run of bytes: part
of a header block, the rest of it (the token with the blank line), body data
with or without a blank line in it, the last chunk, a malformed size line.
`ParseRequest` and `ParseBody` give the verdict of `HTTPRequest::parse`
("error", "more", "done"), the body and the unread rest;
`decode_chunked_for_cgi` is the decoder of the `Client`. `BodyIndices` and
`WellFramed` read the client's intention off the stream without a parser; the
properties compare with these.

### Connection

`fds` is the set of descriptors the `Client` holds ("client", the socket;
"out", the CGI's stdout; "in", its stdin), `reg` the entries of `poll_fds_`
(with their entry in the CGI map), `events` and `revents` as in `struct
pollfd`. They differ on purpose: several paths close the stdin descriptor and
leave its entry behind (964, 973, 1001, and `finish_cgi`), and `handle_poll_errors`
cleans up when `poll()` reports it. `flags` are the booleans of the `Client`;
`response` is the part of `response_` after `response_offset_`, and the two
pending buffers are their unsent parts. A response or CGI output is a sequence
of units that remember which answer they belong to.

Each action is one round of a handler: one system call and everything up to
the next one. `moved` is the handler's `total_read`, `total_sent` or
`total_written`, so that the `FAIR_IO_LIMIT` loops are loops of the model and
the environment acts between their rounds.

| Actions | Code |
|---|---|
| `Poll`, `Turn`, `EndScan`, `TimeOut` | `start` 118-239 |
| `ClientError`, `StdinError` | `handle_poll_errors` |
| `ReadBackpressure`, `ReadEof`, `ReadAgain`, `ReadDropped`, `ReadBadChunk`, `ForwardBody` | `handle_client_read` 943-1106 (CGI active) |
| `RequestEof`, `AwaitHeaders`, `RejectRequest`, `AwaitBody`, `AnswerRequest`, `DispatchFails`, `dispatch_cgi` | `handle_client_read` 1108-1265 and `dispatch_cgi` |
| `StreamDone`, `StreamIdle`, `StreamSend`, `StreamBlocked`, `StreamFails`, `ResponseSend`, `ResponseFails` | `handle_poll_output` |
| `CgiOutput`, `CgiOutputAgain`, `finalize_cgi` | `handle_cgi_output`, `finalize_cgi`, `HTTPHandler::parse_cgi_response` |
| `StdinOrphan`, `StdinFlush`, `StdinClose`, `StdinKeep` | `handle_cgi_stdin_writable` |
| `remove_client` (an operator used by seven actions) | `remove_client`, `Client::finish_cgi` |
| `PeerSend`, `PeerRecv`, `PeerFin`, `PeerRst`; `ChildRead`, `ChildWrite`, `ChildClose`, `ChildDie`; `Tick` | the environment |

What is left out, and why that is safe:

- fork and the write of the first body bytes are one step (`dispatch_cgi`).
  The script may be gone before that write, which then fails; that it may read
  during it is left out, since it can do so right after.
- `EAGAIN` on the read of a request (1118-1124) cannot follow a `POLLIN` on a
  socket only this thread reads. The same read does come in CGI mode, where
  one `POLLIN` is followed by several reads (`ReadAgain`).
- 1360-1363, `POLLOUT` without a response, is unreachable: `WriteHasWork`,
  which is checked and proved, says so.
- The client-is-gone branch of `handle_cgi_output` (349-356) is never taken:
  `OutputHasClient` of `EventLoop` says so.
- After a reset the peer's end gives `POLLERR`, and reads and sends fail.
  Linux also reports `POLLHUP` when both directions are shut, and no model of
  it is needed: the same branch is taken.

### EventLoop

`file` is the descriptor table of the process: what each number denotes, and
for which connection it was opened. The kernel hands out the lowest free
number, as POSIX requires, so that reuse happens as soon as anything is closed.
`poll_fds_` is the vector, `idx` the scan's index; an entry also remembers what
its number denoted when `poll()` looked at it, which decides what `revents` may
say, and for which connection it was pushed, which is only read by properties.
One action is one handler call: `remove_client` erases up to three entries,
`accept_client` accepts the whole backlog, `dispatch_cgi` takes four numbers
and gives two back. `cuts` counts the CGI bodies that were cut short while the
stdin was open: `close_cgi_stdin` without deregistration (964, 973, 1001,
`finish_cgi`) is what breaks the strong invariants, which are therefore stated
for behaviours without one (`Steady`); that they hold shows that nothing else
breaks them.

### PendingBuffer and ByteQueue

The two pending buffers of the `Client` are the same code. `PendingBuffer` has
the string, the offset and `COMPACT_THRESHOLD`; `ByteQueue` the queue the
handlers believe in. `QueueSpec` is the refinement, with the unconsumed part of
the string as the queue.

### ChunkedBody

Bytes are model characters. `Read` delivers any number of them, so a read may
end anywhere; `Dispatch` hands over to the `Client`'s decoder after the first
`parse()`. Each other action is one round of a decoder's loop, and its choice
of state, early return and error is that of the source. Sizes are computed
modulo `Modulus` (256 here, 2^64 in the program).

A chunk that `decode_chunked_for_cgi` refuses closes the script's stdin only if
no byte of the body still waits for it (999-1001). Otherwise `Refuse` ends in
"refused": the connection is read as before, the decoder, which has thrown the
bad line away and is still at a size line, finds the next one, and what it
decodes goes to the script, until `handle_cgi_stdin_writable` has written the
waiting bytes and closes stdin (`StdinFlushed`). `resumed` remembers that this
happened. Whether bytes wait is a free choice as soon as there was a body byte.
`BodyIsPrefix` and the first part of `EndIsWhole` speak of what happens before;
what happens after is refuted as `StdinClosedOnError` (see below).

The reference is `Sizes(bytes)`, what every tail of a message means: a function
on the whole message, without a buffer, a state or a read in it. A message
carries what it means (`MessagesAssumption`): `legal` ones are well-formed for
the reference, and those that are not `spaced` have no blanks around a size.
`MCChunkedBody` makes messages with an encoder of its own, and TLC evaluates
that assumption on them, so that encoder and reference agree. The reference
computes sizes modulo `Modulus` as the code does: that a size which does not
fit is read as another one is the question of `MCChunkedBody_overflow`, not of
these properties.

### CgiResponse

Output is a sequence of units (CR, LF, text, fields). The reference
(`MeantStatus`, `MeantBody`) is read off the whole output, without lines or
searches for the one or the other separator first. `parse_cgi_headers` is a
loop over lines; `ReadLines` is that loop as a recursive function of the
position reached.

### Handler

A URI is a sequence of characters, because `match_route`, `strip_route_prefix`
and `sanitize_path` decide by characters; a file is a sequence of segments in a
tree. `Early` is everything from the complete request to the choice by method,
in the order of the code: limit, CGI gate, slash redirect, no route, redirect,
methods, CGI again. The body size is tested by the parser first, with the same
limit, so that 413 comes before everything else. A result of `stat()` that is
not there is a free choice (`junk`), and so is a file that cannot be opened.

A directory opens like a file and reading it throws, in `handle_get` and in
`load_error_page`; nothing catches, and `Throw` ends the process. The name in a
multipart form is a sequence of any characters (376-400 use it as it is), split
at its slashes and walked by the kernel: "../x" is stored outside of the store.
An existing file keeps its mode when it is overwritten, and a write that fails
is answered like one that does not. Clients resolve the links of a listing as
RFC 3986 says; nothing in the server decodes a target, so `Unreserved` are the
characters that stand for themselves, and the properties on uploads and links
speak of names made of them (`Literal`).

### Startup

The recursive descent of `Config` as a machine that takes one line a step,
with `at` the function that reads. `text` remembers the lines; `AsWritten`
computes from it, by counting braces, what every block should hold. `form`
says which vocabulary the file is written in, so that one run looks at long
files about blocks and at shorter ones with every directive. `AsWritten`
compares every field of a server and a location: the names in the order of the
file, over all lines that give some; for each error code the page of its last
line; the last line with a key for everything else; the default where there is
none.

### CgiExecute

The server and the script as two processes. Every call of `execute` that can
block is an action that may not be enabled.

## 3. Runs

### Connection

These runs use `MCConnection`. The limits are as small as their order allows:
a read (`ReadMax`) of 2 units, `FAIR_IO_LIMIT` of 3, so that a handler stops
after two reads, backpressure at 1, pipes of 1 unit, so that writes are short,
and a socket of 1 or 2. With these every limit is reached, passed and left
again within a few steps; bodies of up to 5 units and outputs of up to 6 are
longer than all the buffers between the two ends together or fill both sides
of the backpressure. `Env` names what the environment may do: shut down its
sending side, reset, let time pass, make `pipe()` or `fork()` fail.
`MaxAge` bounds the clock, which stops one tick after the timeout is due.

| Run | Question | Result |
|---|---|---|
| `stream` | bodies in, of known length, chunked or with a malformed chunk, output out; any order of script, peer, errors | 10 invariants hold |
| `closed` | static pages, 400, 413, 500, CGI output without CRLF CRLF, failing fork, timeouts, tiny socket buffer: is every connection closed in the end, and is nothing dropped before? | yes; 2 invariants, 1 action property and `EventuallyClosed` hold under `FairSpec` |
| `answered` | does a co-operating peer get its answer from a co-operating script? | yes, under `CoopSpec` |
| `order` | body bytes reach the script in order (940-941) | refuted |

`BodyConserved` speaks of the multiset of body bytes because `order` shows that
their order is not kept. `AnswerIntact` and the properties on the body assume
`WellFramed`, a stream that is one legal request and nothing after it.
`AnswerIntact` also assumes `BodyIsInert`: a script that exits early leaves the
rest of its body to be parsed as another request, so the body must not hold
what reads as a header block (else it gets an answer of its own,
`MCConnection_overwritten`), and an answer whose header block ends in LF LF,
which is sent with `set_response`, is looked at without a body. `DoneIsComplete`
speaks of scripts that wrote their whole header block before they closed their
output; what becomes of the others is `MCConnection_no_blank`.

Deadlock is checked in these runs: the loop can always poll again. The other
modules describe something that ends (a message, a file, a process), and their
runs do not check it.

### The other modules

| Run | Question | Bounds | Result |
|---|---|---|---|
| `pending_buffer` | is a pending buffer a queue? | 6 bytes of 2 values, threshold 3: every offset below, at and above it | yes; consumed bytes are reclaimed |
| `event_loop` | do vector, maps and descriptors agree while numbers are reused, and what survives a body cut short? | 2 servers, 2 connections, 9 descriptors, 1 cut: two CGIs run at a time, pipes run out (a CGI needs 4 numbers for a moment) and every number is reused | 4 invariants and `ClosesOwn` hold |
| `foreign` | "CGI stdin pipe broke" (287) | 1 server, 3 connections, 8 descriptors, 1 cut | refuted: the socket of another connection is closed |
| `split` | does a chunked body depend on where reads cut it, and is a legal one decoded to its end? | up to two chunks, which may contain CR LF or look like a size; with one chunk also extensions, leading zeros, blanks, trailers, following bytes; malformed ones, with and without a chunk behind the bad line | 3 invariants and `Finishes` hold |
| `cgi_reads` | does the answer depend on how a script's output is cut? | 5 reads out of 12 | no; 2 invariants hold |
| `files` | is the right file served, listed, stored, deleted? | several route tables, targets with "..", ".", "//", queries; files, directories, dangling links, unreadable and sealed ones; an index file and an error page that are directories; file names with "..", slashes and "?"; at most 2 files that differ from the start (`MaxChanges`), 2 forms in one (`MaxForms`) | 7 invariants hold (499,162 states, about a minute) |
| `config` | are blocks and directives understood as written? | 14 lines out of 12 about blocks, enough for two servers and a location; 8 out of 20 about a server, every directive right and wrong, several of a kind and a second server; 10 out of 17 about a location | yes, in every field; one socket for each block (2,623,542 states, about a minute) |
| `execute` | does `CGI::execute` return all output and clean up? | bodies of 0 to 5 units, pipes of 2, deadline 2, all kinds of scripts | yes; under `Bounded` it returns |

### Other claims the model refutes

Modelling met more places where a comment or a document says more than the code
does. Each has a property that states the claim and a configuration in which
TLC finds a counterexample; they bound what the passing runs may say.

| Configuration | Property | Claim | What the code does |
|---|---|---|---|
| `MCConnection_zombie` | `NoZombies` | "This prevents orphan fds and zombie processes" (1448-1450) | `finish_cgi` waits once, with `WNOHANG`, and forgets the pid |
| `MCConnection_whole_chunked` | `OpenMeansMore` | "body is not yet complete (more data will come from client)" (915-916) | of a chunked body that arrived whole with its headers the stdin stays open |
| `MCConnection_lf_output` | `OutputBound` | "This prevents unbounded memory growth for large CGI responses" (424-426) | output without CRLF CRLF is collected without a limit |
| `MCConnection_early_exit` | `BodyIsNoRequest` | "remaining body data must not be parsed as a new request" (1181-1182) | it is, when the script exits before its body is read |
| `MCConnection_overwritten` | `BodyGetsNoAnswer` | "remaining body data must not be parsed as a new request" (1181-1182) | the answer to it replaces the one that is half sent: the peer gets the header of one and the body of the other |
| `MCConnection_half_close` | `PendingIsDrained` | "The pending send buffer will be drained by handle_poll_output" (515) | a half-close after the script's end drops it |
| `MCConnection_no_blank` | `OutputIsBody` | "treat entire output as body" (`HTTPHandler.cpp:642`) | it is replaced by a 500 |
| `MCConnection_excess` | `OnlyBody` | "stream incoming body bytes" (940-941) | bytes after the body in the same read are forwarded too |
| `EventLoop_orphans` | `NoOrphans` | "This prevents orphan fds" (1449) | the stdin entry of a cut body stays after the Client is gone |
| `EventLoop_skipped` | `ClearsHandled` | "clear handled event" (215) | after a removal the scan clears another entry, or writes past the end |
| `MCHandler_slash` | `ListedWithSlash` | "Directory trailing-slash redirect" (1244) | only directories that are locations are redirected |
| `MCHandler_head` | `HeadHasNoBody` | HEAD without a body (`HTTPResponse.cpp:72-74`) | 404, 301, 405 and 413 carry one |
| `MCChunkedBody_overflow` | `TrailersAfterZero` | trailers "after the final 0-size chunk" (`HTTPRequest.cpp:244`) | a size of a multiple of 2^64 is 0 |
| `MCChunkedBody_no_size` | `EofAfterZero` | `eof` after "the final zero-length chunk" (`Client.cpp:421`) | a line without a digit counts as 0 |
| `MCChunkedBody_refused` | `StdinClosedOnError` | "Chunked decode error - close stdin to let CGI finish" (998) | while bytes wait for the script the connection is read on, and chunks behind the bad one reach it |
| `MCCgiResponse_blank` | `SplitAtFirstBlank` | "first blank line" (`HTTPHandler.cpp:622`) | CR LF CR LF is searched first in all of the output |
| `MCStartup_hosts` | `ValidStarts` | "Server port and host" (`README.md:44`) | the host is ignored and the second socket fails |
| `MCStartup_limit` | `LimitStays` | "Maximum client body size" (`README.md:48`) | a size that does not fit becomes "no limit" |
| `MCCgiExecute_write` | `WriteEnds` | empty "on execution failure or timeout" (`CGI.hpp:43`) | the deadline starts only after the blocking write |
| `MCCgiExecute_wait` | `WaitEnds` | "Reap child (non-blocking ...)" (`CGI.cpp:286`) | `waitpid` blocks |
| `MCCgiExecute_failure` | `FailureIsEmpty` | empty "on execution failure" (`CGI.hpp:43`) | after a failed `poll()` what was read is returned |

`NothingLeaked` makes one exception, for the pipe of 627 that is lost when the
second `pipe()` fails. `UploadedIsServed` leaves out names with a slash, dots or
characters a client would encode: those are stored where no GET finds them. `LegalIsAccepted` and `Finishes` leave out blanks in the
size lines of a CGI request, which only one of the decoders trims.
`CGI::execute` is not on the path of a request: `NeverBlocks` shows that the
gate in `Server` takes every request that would reach it.

Fairness. `FairSpec` assumes weak fairness of the server's next step (the loop
is one thread that never blocks longer than `POLL_TIMEOUT`) and of the clock;
nothing of the peer or the script, and `EventuallyClosed` holds all the same.
`CoopSpec` adds that the peer sends and reads and that the script reads,
writes and exits when it can, which is what the conclusion is conditional on.
`ChunkedBody` assumes that a decoder's loop runs on and that a client that has
bytes left sends them; `CgiExecute` that `execute` takes a step it can take,
that a script which can go on does so (a script that hangs is one with
`end = "run"`, which has nothing left to do), and that the clock advances.
No strong fairness is used.

Each property of a passing run has a mutant: a definition of the model changed
the way a plausible bug would (`PROJECT.json`, `mutants`), under which TLC
finds the property violated.

## 4. Proofs

### The poll loop

`ConnectionProofs` proves, from the assumptions on the constants only (limits
and capacities are positive, `Requests` is any set of requests, finite or not,
in which the header token of the request under study occurs once):

- `TypeCorrect`: `TypeOK`, which includes that `taken <= arrived`,
  `outRead <= childOut`, and that neither pipe nor the socket is filled beyond
  its capacity.
- `LoopInvariant`: `ConnInv`, inductive relative to `TypeOK`.
- `NothingForgotten`, `StdinWakeups`, `StdoutWakeups`, `AnswerWakeups`,
  `WritesHaveWork`, `SendBufferBounded`: consequences of `ConnInv`.

The argument. The wakeup properties are stated where the loop blocks
(`at = "poll"`) and are not inductive: in the middle of a scan an event may be
off because the handler that turns it on has not had its turn yet. `ConnInv`
says what holds there too:

- `EntriesOK`: open descriptors are polled, only the stdin entry may outlive
  its descriptor, the CGI is active exactly while its stdout is open, and a
  reported `POLLIN` or `POLLOUT` of the connection was requested.
- `StdinOK`: reading the client is off only while the stdin buffer is at the
  limit *or the stdin entry still has its turn in this scan*. This is the
  strengthening that makes `StdinServed` inductive.
- `StdoutOK`: reading the script is off only at the limit, with the arithmetic
  behind `SendBound`: while the script runs, it is read only if `POLLIN` was
  on, so the buffer is at most `Limit` before a read; once it has exited,
  buffer plus what its pipe holds never grows.
- `AnswerServed`, `WriteHasWork`: inductive with the above.

There is one step lemma per conjunct (`EntriesStep`, `StdinStep`, `StdoutStep`,
`AnswerStep`, `WriteStep`), each split by action; `RemoveEntries` and
`RemoveStdout` deal once with the actions that call `remove_client`.
The module begins with the lemmas the type proof needs: what `SubSeq`
slices are, that the searches return a position, and that the parsers and the
decoder return sequences of tokens.

The second part proves `StdinBound`, `BodyConserved` and `EofIsHonest` along
`BodyInv`, which is inductive relative to the invariants above. What it adds is
where a body token can be:

- `BufferOK`: `buffer_` is the last stretch of the stream that was read, holds
  no complete header block, and is empty while a CGI is active. That is why
  what arrives with the headers is less than a read and a header.
- `OnceOK`: the script is started once, when the header token is read. The
  assumption that this token occurs once in the stream is needed here.
- `DecoderOK`: between two reads of a well-framed body the decoder holds
  nothing back and waits for a size line, and `forwarded` is the part of a body
  of known length that was read; EOF is due at the end of the body only.

Stretches of the stream, and the set of tokens of a sequence, carry the
argument: a stretch is cut where the parser or the decoder stops, and two
adjoining ones have together the tokens of both. `BodyConserved` also counts,
because a set of tokens does not show that one was written twice.

The last part, on what is sent, first classes the steps (`StepKinds`): all but
the eight actions that touch an answer are either `Quiet` or end in
`remove_client`, so that the properties below are proved by ten cases each, not
forty.

- `NotDroppedWhenFull`, with `RoomOK`: as long as `POLLOUT` is still to be
  handled for a response, the room `poll()` saw is there, because only this
  connection fills its socket.
- `RejectIsFinal`, with `KindOK` and `RejectOK`: `POLLIN` is off after a
  rejection, and only the stdin entry of a script, which a rejected request
  never has, turns it on.
- `DoneIsComplete`, with `OutputOK` and `LenOK`: sent and buffered are together
  one header and all that was read after the script's own, in count.
- `AnswerIntact`, with `ReadOK` (how far the request is read when there is no
  answer yet), `SendOK` (the answer that is not streamed: what is sent and
  `response_` are one of the answers), and `StreamOK` (what is sent and
  `cgi_send_pending_` are the script's answer as far as it is read). `Moves`
  says once what it is for units to go from the head of a queue to the end of
  a sequence; `Verdicts` what the parser can say of a well-framed request at
  each point of its stream.

### The event loop

`EventLoopProofs` assumes that the numbers of servers, descriptors, connections
and cuts are natural numbers. `IInv` is `Base` in every state and `Tables` as
long as no body was cut short (`Uncut`), which is what `Steady` is in the
properties.

- `Base`: the types; connections are numbered in the order they were made;
  a `Client` holds CGI descriptors exactly while its CGI is active (otherwise
  `dispatch_cgi` could overwrite the last trace of one); and every open
  descriptor is held by the structure that will close it. `NothingLeaked` and
  `OutputHasClient` follow from it, and so hold with cut bodies too.
- `Tables`: entries denote open descriptors of the connection they were pushed
  for, the maps agree with them and with the `Client`s (`OwnPipes`), and the
  vector is in order (`InOrder`): listening sockets first, a connection's
  socket before its pipes. They need each other: what a handler erases is found
  through the maps, and that it stands behind the entry at the index follows
  from the order. `TablesAgree` and `CgiEntriesFollow` are parts of it, and the
  action property `ClosesOwn` follows from it in the state before the step.

Each action is classed by what it does to the tables: nothing (`SameTables`),
removing every trace of some descriptors (`Shrinks`), or adding entries of free
ones (`Grows`); one lemma for each class proves `Tables'`. `Sorted` is defined
by a choice, and `RankInjects` shows that there is something to choose: the
number of smaller elements numbers a finite set.

### Routing and handling

`HandlerProofs` assumes of the route tables that a location's path is not
empty and that `root`, `index` and `upload_store` are names (no ".."); of the
targets and of a form's file field that they are sequences of characters; of
the file system that the names in it are names (not empty, not "." or "..",
without "/"); and that "/" and "?" do not stand for themselves in a URL's
segment (`UnreservedAssumption`). Methods, lengths and error pages are arbitrary.

The loops of this module are folds. A fold is defined by a recursive function
on sets of indices, so the first part proves, from the well-foundedness of `<`,
that such a function exists (`FoldExists`) and that its values on the sets
`1 .. k` are a run of the loop (`FoldRuns`); `UpTo` is induction along a run,
for a set of indices. With a lemma for each fold (`WalkRuns`, `SanitizeRuns`,
`MatchRuns`, `SplitRuns`) what the loop computes is an invariant of its run:

- `SanitizedIsClean`: no segment of a sanitized path is "..", so `WalkDown`
  gives the kernel's walk as the path itself. That is `InsideRoot`, which with
  `Ended` (what made the server end), `NeverBlocks` and a form of
  `DeletedIsGone` makes up `HandlerInv`.
- `MatchIsFirstLongest`: `match_route` returns the first of the longest
  locations that cover a target. `CoversIsUnder` relates covering, which
  compares characters, to segments. Its hard half, that a path whose segments
  begin those of a target is its prefix, is an induction on the path in which
  `Shows` reads the next character off the segments. Both together are
  `RouteIsLongest`.
- `UploadedIsServed` and `LinksLead` follow from `AnswerInv`: what was stored
  is in the file that `UploadPath` names, with its data or none (`Stored`); a
  listing is of the directory the request named, and every link in it is "../"
  or a name, with a slash or without (`Listed`); and the last segment of every
  path in the file system is a name (`FilesOK`, which an upload has to keep,
  whatever name it brings: `CanWrite` admits only what the kernel would
  create). The rest is about the *next* request: appended to the target of the
  first, a literal name adds its own segment and no other to the sanitized
  path.
- `EndedByDirectory` follows from `Ended` and the last part of `FilesOK`: no
  request makes a directory, so the one that was read was there from the start.

### The pending buffers

`PendingBufferProofs` assumes that the threshold is a positive number and
nothing of the bytes. `BufferReclaimed`: the offset stays below the threshold
and within the string; this is inductive with the types. `BufferIsQueue`: the
buffer implements `ByteQueue`. The refinement needs that invariant, because
`PendingSize` hides an offset beyond the end and a later append would then be
cut. The lemmas say what the part after an offset is (`After`): of a
concatenation, of itself, and at offset 0; with them an append is a `Put`, and a
consume, compacted or not, is a `Get` of the same length.

### CGI::execute

`CgiExecuteProofs` assumes that capacity and deadline are positive and that
bodies and scripts are any of their kind. `OutputWhole` and `CleanReturn` speak
of the end only; `ExecInv` adds what makes them inductive: `Conserved` (written,
in the pipe and read add up), `EndsOK` (who holds which pipe end at which
point, and that a script that closed its output has nothing left to write), and
`DrainedOK` (the loop is left without failure only when nobody can write any
more and the pipe is empty, and before the deadline). There is one lemma for
each group of conjuncts, split by action.

### Configuration and start

`StartupProofs` assumes that lines are sequences of words (`FormsAssumption`):
files are sequences of any of them. The reader's view of a file (the depth of
braces at a line, the block and the location it belongs to, the last line with
a key) is stated for any sequence of lines, and the first part proves what one
more line does to it: nothing to the lines before, and to its own depth and
block what its words say. What accumulates is stated by position: the places
where names stand are counted (`NamePlaces`), and one more line adds its own
behind all the others; an error page is that of the last line with its code
(`PageLines`).

`ParseInv` is then what the parser knows after each line:

- `Complete`: every block that was closed is what the lines within it say.
- `Opened`: so are the block and the location being read, as far as they are
  read, and the state of the parser is the depth of the text.
- `Between`: outside of blocks the depth is 0, and there are as many blocks in
  the text as in `servers_`.

At the end of the file it gives `AsWritten`. `OneSocketEach` follows from
`BoundOK`: the sockets bound so far are those of the first servers, in order,
and no two share a port.

### CGI output

`CgiResponseProofs` assumes that a read returns a sequence of units, of any
length. `AnswerInv` relates the collected output to everything that was read:
before the headers are sent they are the same and hold no CR LF CR LF; after,
the headers are those of everything that was read and the body is what follows
the first CR LF CR LF in it; at the end without one, the answer is that of
`parse_cgi_response` on the whole. It is inductive because more output does
not move the first hit of a search (`FindAppend`). `CollectedIsFramed` follows
from it.

`AnswerAsMeant` also needs what the loop over the header lines computes.
`LoopRuns` shows that its recursive function exists. With it, `StatusRead`
proves by induction along the loop that the status after it is that of the last
status line, which is how `MeantStatus` reads the block. `BlankIs` relates the two searches to the
reference's blank line, and `CollectedAnswer` puts them together for an answer
that was collected whole.

### Chunk decoders

`ChunkedBodyProofs` assumes that a digit has a number as its value and that a
blank is none, that `Modulus` is positive (`NumbersAssumption`), and that a
message carries what the reference says of it (`MessagesAssumption`). Messages
are sequences of any bytes, of any length and number.

`ChunkInv` relates three things: what has been put out (`Got`), what is still
to come (`Coming`, the buffer and the bytes not read yet), and what the
reference says that this means in the state the decoder is in (`Left`).

What it says of the message holds as long as `resumed` is false: a decoder that
reads on after a refusal is no longer where the reference is.

- `GoesOn`: until something is refused (`Sound`), what has been put out, followed by the
  body of what is left, is the body of the message; what is left of a legal
  message is well-formed, and of one without blanks free of them.
- `Refused`: what is refused is not acceptable (malformed, blanks for the
  decoder that does not trim them, or above the limit), and what was put out
  before is still the front of the body, although `decode_chunked_for_cgi`
  throws away what it decoded in the call that fails.
- `Whole` and `Turns`: the bytes to come are a tail of the message; a decoder
  that reports the end is past the last chunk and has handed over everything.
- `WithinLimit`: the limit is exceeded at most while a chunk is being read.

A read moves bytes from one part of `Coming` to the other, and `Dispatch`
changes the decoder only; neither changes `Left`, which is why it does not
matter where they come. Each round of a loop takes a piece off the front of
`Coming`, and there is one lemma for what the reference says of such a piece:
`LineMeans` for a size line that is all there (the first CR LF of the buffer is
the first of all that is to come), `DataCut` for any part of the data of a
chunk, `CrlfMeans` for the CR LF behind it. `SizeGoesOn`, `SizeRefused`,
`DataGoesOn`, `CrlfGoesOn` and `TrailersGoOn` are the rounds, shared by both
decoders. `SizesRuns` proves that the reference exists as a function, and
`ValueIs` that the loop over the digits has a number as its result, by the
well-foundedness of `<`. `BodyIsPrefix`, `EndIsWhole` and `LegalIsAccepted`
follow from `ChunkInv`.

### Only model-checked

- All liveness properties (`EventuallyClosed`, `Finishes`, and those of
  `answered` and `execute`): fairness and `ENABLED` are beyond the prover.

## 5. Plan

Done: the poll loop on one connection and all its safety properties proved;
all connections (`EventLoop`) and the theorems on it; the chunk decoders; the
pending buffers and their refinement; routing and handling, configuration and
start, CGI output and the blocking CGI runner, each with the theorems on its
safety properties.

Left: the hazards of `PROJECT.json` that have a note in place of a property.

### Not modelled

- `parse_request_line` and `parse_headers`: the syntax of one line, without
  state; `HttpMessage` has their verdict.
- `url_decode`, `get_mime_type`, the environment variables and the path of a
  script (`CGI::_setEnvironment`, `_getScriptPath`, and their copies in
  `dispatch_cgi`), the text of pages and of header fields: conversions and
  tables without control.
- A second request on a connection while the first is answered: the code does
  not say what should happen; `Connection` has the transition and the
  properties speak of one request.
- The status dump and debug output of `start`, `tests`.
