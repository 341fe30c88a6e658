------------------------------ MODULE EventLoop ------------------------------
(***************************************************************************)
(* The Server object over all its connections: poll_fds_, clients_, the    *)
(* two CGI maps and the scan index, on top of a kernel that hands out the  *)
(* lowest free descriptor number.  What a connection carries is abstracted *)
(* to what decides which descriptors are opened, closed and registered     *)
(* (Connection has the rest): what a read returns, whether a write is      *)
(* short and when a request is complete are free choices, so the events    *)
(* requested play no part.                                                 *)
(*                                                                         *)
(* A poll entry remembers in "was" what its descriptor denoted when poll() *)
(* looked at it: that decides what revents may say when the scan gets      *)
(* there, whatever the number denotes by then.                             *)
(***************************************************************************)
EXTENDS Integers, Sequences, FiniteSets, FiniteSetsExt, SequencesExt, Functions

CONSTANTS
  Servers,     \* number of configured servers
  MaxFd,       \* bound: RLIMIT_NOFILE, less stdin, stdout and stderr
  MaxConns,    \* bound: connections made in a behaviour
  MaxCuts      \* bound: CGI bodies cut in a behaviour

ASSUME EventLoopAssumption ==
  /\ Servers \in Nat \ {0} /\ MaxFd \in Nat /\ MaxConns \in Nat /\ MaxCuts \in Nat

VARIABLES
  file,        \* what each descriptor number denotes
  made,        \* connections made so far; each has its number
  phase,       \* "init", "poll", "visit", "output", "timeouts", "exit"
  server_fds_, \* the listening sockets
  poll_fds_,   \* entries [fd, c, was]; c, the connection it was pushed for
  clients_,    \* descriptor -> Client
  cgi_fd_to_client_fd_, cgi_stdin_fd_to_client_fd_,
  idx,         \* the scan index
  seen,        \* history: the entry whose errors and input were looked at
  cuts         \* history: CGI bodies cut while the stdin was open, because
               \* the peer half-closed or sent a malformed chunk or the script
               \* ended before it had read them

maps  == <<cgi_fd_to_client_fd_, cgi_stdin_fd_to_client_fd_>>
vars  == <<file, made, phase, server_fds_, poll_fds_, clients_, maps, idx, seen, cuts>>

Fds  == 1..MaxFd
NoFd == -1
Free == [k |-> "free", c |-> 0]
Kinds == {"listen", "sock", "in", "out", "lost"}
Object == {Free} \cup [k : Kinds, c : 0..MaxConns]

(* The Client of a connection: its CGI descriptors and the booleans that   *)
(* decide what the handlers do with them (pend: cgi_stdin_pending_ is not  *)
(* empty; ans: response_ is not empty).                                    *)
Client == [c : 1..MaxConns, active : BOOLEAN, in : Fds \cup {NoFd},
           out : Fds \cup {NoFd}, eof : BOOLEAN, pend : BOOLEAN,
           hs : BOOLEAN, ans : BOOLEAN]
NewClient(c) == [c |-> c, active |-> FALSE, in |-> NoFd, out |-> NoFd,
                 eof |-> FALSE, pend |-> FALSE, hs |-> FALSE, ans |-> FALSE]

Entry(f, c) == [fd |-> f, c |-> c, was |-> "none"]
FreeFds == {f \in Fds : file[f] = Free}
Lowest(n) == CHOOSE S \in SUBSET FreeFds :
  Cardinality(S) = n /\ \A f \in S, g \in FreeFds \ S : f < g
Sorted(S) == [i \in 1..Cardinality(S) |->
               CHOOSE x \in S : Cardinality({y \in S : y < x}) = i - 1]
Closing(fs) == [f \in Fds |-> IF f \in fs THEN Free ELSE file[f]]

Without(map, f) == Restrict(map, DOMAIN map \ {f})
With(map, f, v) == [x \in DOMAIN map \cup {f} |-> IF x = f THEN v ELSE map[x]]
Change(f, cl) == clients_' = [clients_ EXCEPT ![f] = cl]

(* The first position of each descriptor: the loops that search poll_fds_. *)
First(fs) ==
  {i \in DOMAIN poll_fds_ : /\ poll_fds_[i].fd \in fs
                            /\ \A j \in 1..(i - 1) : poll_fds_[j].fd # poll_fds_[i].fd}
Erase(positions) ==
  LET kept == Sorted(DOMAIN poll_fds_ \ positions)
  IN  [i \in DOMAIN kept |-> poll_fds_[kept[i]]]

(* push_back of new entries, and its mutant.                               *)
PushFront(es) == es \o poll_fds_
PushBack(es) == poll_fds_ \o es

isListeningSocket(f) == f \in ToSet(server_fds_)
isCgiFd(f)           == f \in DOMAIN cgi_fd_to_client_fd_
isCgiStdinFd(f)      == f \in DOMAIN cgi_stdin_fd_to_client_fd_
Known(f)             == f \in DOMAIN clients_
Cur == poll_fds_[idx]

-----------------------------------------------------------------------------
(***************************************************************************)
(* The constructor: one listening socket per server; if one cannot be      *)
(* created, bound or listened on, those made so far are closed.            *)
(***************************************************************************)
Init ==
  /\ file = [f \in Fds |-> Free] /\ made = 0 /\ phase = "init"
  /\ server_fds_ = <<>> /\ poll_fds_ = <<>> /\ clients_ = <<>>
  /\ cgi_fd_to_client_fd_ = <<>> /\ cgi_stdin_fd_to_client_fd_ = <<>>
  /\ idx = 1 /\ seen = NoFd /\ cuts = 0

Listen ==
  /\ phase = "init" /\ Len(server_fds_) < Servers /\ FreeFds # {}
  /\ LET f == Min(FreeFds)
     IN  /\ file' = [file EXCEPT ![f] = [k |-> "listen", c |-> 0]]
         /\ server_fds_' = Append(server_fds_, f)
         /\ poll_fds_' = Append(poll_fds_, Entry(f, 0))
  /\ phase' = IF Len(server_fds_) + 1 = Servers THEN "poll" ELSE "init"
  /\ UNCHANGED <<made, clients_, maps, idx, seen, cuts>>

ListenFails ==
  /\ phase = "init"
  /\ file' = Closing(ToSet(server_fds_))
  /\ server_fds_' = <<>> /\ poll_fds_' = <<>> /\ phase' = "exit"
  /\ UNCHANGED <<made, clients_, maps, idx, seen, cuts>>

(* The signal handler clears g_looping; the loop ends before the next      *)
(* poll(), start() returns and the destructor closes the sockets.          *)
Stop ==
  /\ phase = "poll"
  /\ file' = Closing(DOMAIN clients_ \cup ToSet(server_fds_))
  /\ phase' = "exit"
  /\ UNCHANGED <<made, server_fds_, poll_fds_, clients_, maps, idx, seen, cuts>>

-----------------------------------------------------------------------------
(***************************************************************************)
(* poll() and the scan.                                                    *)
(***************************************************************************)
Reports(e) ==
  CASE e.was = "none"   -> {}
    [] e.was = "free"   -> {"ERR"}             \* POLLNVAL
    [] e.was = "listen" -> {"IN"}
    [] e.was = "sock"   -> {"IN", "OUT", "ERR"}
    [] e.was = "in"     -> {"OUT", "ERR"}
    [] e.was = "out"    -> {"IN", "ERR"}       \* ERR stands for POLLHUP
    [] OTHER            -> {"IN", "OUT", "ERR"}

Poll ==
  /\ phase = "poll"
  /\ poll_fds_' = [i \in DOMAIN poll_fds_ |->
                     [poll_fds_[i] EXCEPT !.was = file[poll_fds_[i].fd].k]]
  /\ phase' = "visit" /\ idx' = 1
  /\ UNCHANGED <<file, made, server_fds_, cuts, clients_, maps, seen>>

Visiting(bit) == phase = "visit" /\ idx <= Len(poll_fds_) /\ bit \in Reports(Cur)
Stay(i)  == idx' = i /\ phase' = "visit" /\ seen' = NoFd
ToOutput == idx' = idx /\ phase' = "output" /\ seen' = Cur.fd

EndScan ==
  /\ phase = "visit" /\ idx > Len(poll_fds_)
  /\ phase' = "timeouts"
  /\ UNCHANGED <<file, made, server_fds_, poll_fds_, clients_, maps, idx, seen, cuts>>

(* No error and no input reported, or a read that changes nothing here: a  *)
(* part of a request or of a body, EAGAIN, backpressure.                   *)
NoInput ==
  /\ phase = "visit" /\ idx <= Len(poll_fds_)
  /\ Cur.was # "free"
  /\ ToOutput
  /\ UNCHANGED <<file, made, server_fds_, cuts, poll_fds_, clients_, maps>>

(***************************************************************************)
(* remove_client(index): the connection's CGI entries and map entries, its *)
(* CGI descriptors, the descriptor itself, its Client, its own entry.      *)
(***************************************************************************)
(* Mutant: the stdout of the CGI is forgotten.                             *)
remove_client_leaves_stdout(i) ==
  LET f   == poll_fds_[i].fd
      in  == IF Known(f) THEN {clients_[f].in} \ {NoFd} ELSE {}
  IN  /\ poll_fds_' = Erase({i} \cup First(in))
      /\ cgi_stdin_fd_to_client_fd_' =
           Restrict(cgi_stdin_fd_to_client_fd_, DOMAIN cgi_stdin_fd_to_client_fd_ \ in)
      /\ file' = Closing({f} \cup in)
      /\ clients_' = Without(clients_, f)
      /\ UNCHANGED <<made, server_fds_, cuts, cgi_fd_to_client_fd_>>

remove_client(i) ==
  LET f   == poll_fds_[i].fd
      out == IF Known(f) THEN {clients_[f].out} \ {NoFd} ELSE {}
      in  == IF Known(f) THEN {clients_[f].in} \ {NoFd} ELSE {}
  IN  /\ poll_fds_' = Erase({i} \cup First(out) \cup First(in))
      /\ cgi_fd_to_client_fd_' =
           Restrict(cgi_fd_to_client_fd_, DOMAIN cgi_fd_to_client_fd_ \ out)
      /\ cgi_stdin_fd_to_client_fd_' =
           Restrict(cgi_stdin_fd_to_client_fd_, DOMAIN cgi_stdin_fd_to_client_fd_ \ in)
      /\ file' = Closing({f} \cup out \cup in)
      /\ clients_' = Without(clients_, f)
      /\ UNCHANGED <<made, server_fds_, cuts>>

(* Mutant: close_cgi_stdin only forgets the descriptor.                    *)
StdinOfNone(cl) == {}

(* close_cgi_stdin of a client, as the set of descriptors it closes.       *)
StdinOf(cl) == {cl.in} \ {NoFd}

(***************************************************************************)
(* handle_poll_errors.                                                     *)
(***************************************************************************)
StdinError ==
  /\ Visiting("ERR") /\ ~ isListeningSocket(Cur.fd)
  /\ ~ isCgiFd(Cur.fd) /\ isCgiStdinFd(Cur.fd)
  /\ LET f == Cur.fd
         g == cgi_stdin_fd_to_client_fd_[f]
     IN  /\ file' = Closing({f} \cup IF Known(g) THEN StdinOf(clients_[g]) ELSE {})
         /\ IF Known(g) THEN Change(g, [clients_[g] EXCEPT !.in = NoFd])
                        ELSE UNCHANGED clients_
         /\ cgi_stdin_fd_to_client_fd_' = Without(cgi_stdin_fd_to_client_fd_, f)
  /\ poll_fds_' = Erase({idx})
  /\ Stay(idx)
  /\ UNCHANGED <<made, server_fds_, cuts, cgi_fd_to_client_fd_>>

SocketError ==
  /\ Visiting("ERR") /\ ~ isListeningSocket(Cur.fd)
  /\ ~ isCgiFd(Cur.fd) /\ ~ isCgiStdinFd(Cur.fd)
  /\ remove_client(idx)
  /\ Stay(idx)

-----------------------------------------------------------------------------
(***************************************************************************)
(* accept_client: n connections wait in the backlog; accept() fails when   *)
(* the descriptors run out.  clients_.insert keeps a Client that is there. *)
(***************************************************************************)
accept_client ==
  /\ Visiting("IN") /\ isListeningSocket(Cur.fd)
  /\ \E n \in 0..(MaxConns - made) :
       /\ n <= Cardinality(FreeFds)
       /\ LET new == Sorted(Lowest(n))
              num(f) == made + (CHOOSE i \in DOMAIN new : new[i] = f)
          IN  /\ file' = [f \in Fds |-> IF f \in ToSet(new)
                                        THEN [k |-> "sock", c |-> num(f)] ELSE file[f]]
              /\ clients_' = [f \in DOMAIN clients_ \cup ToSet(new) |->
                                IF Known(f) THEN clients_[f] ELSE NewClient(num(f))]
              /\ poll_fds_' = PushBack([i \in DOMAIN new |-> Entry(new[i], made + i)])
              /\ made' = made + n
  /\ ToOutput
  /\ UNCHANGED <<server_fds_, cuts, maps>>

(* POLLIN on a number that is now a CGI stdin: skipped.                    *)
SkipStdin ==
  /\ Visiting("IN") /\ ~ isListeningSocket(Cur.fd) /\ isCgiStdinFd(Cur.fd)
  /\ Stay(idx + 1)
  /\ UNCHANGED <<file, made, server_fds_, cuts, poll_fds_, clients_, maps>>

(***************************************************************************)
(* handle_cgi_output, on POLLIN or POLLHUP.  That the client is gone       *)
(* (349-356) never happens: OutputHasClient.                               *)
(***************************************************************************)
CgiReady == /\ \/ Visiting("IN") /\ ~ isCgiStdinFd(Cur.fd)
               \/ Visiting("ERR")
            /\ ~ isListeningSocket(Cur.fd) /\ isCgiFd(Cur.fd)
CgiClient == cgi_fd_to_client_fd_[Cur.fd]

(* Some output, or none; perhaps it completes the headers.                 *)
CgiOutput ==
  /\ CgiReady
  /\ \E hs \in BOOLEAN : Change(CgiClient, [clients_[CgiClient] EXCEPT !.hs = @ \/ hs])
  /\ Stay(idx + 1)
  /\ UNCHANGED <<file, made, server_fds_, cuts, poll_fds_, maps>>

(* finalize_cgi and finish_cgi: an answer is ready, both CGI descriptors   *)
(* are closed and the CGI is over.                                         *)
Finished(cl) == [cl EXCEPT !.active = FALSE, !.in = NoFd, !.out = NoFd,
                           !.ans = @ \/ ~ cl.hs]

(* The script, or the peer, is done with a body whose stdin may be open.   *)
Cut(cl) ==
  /\ cuts' = IF cl.in = NoFd THEN cuts ELSE cuts + 1
  /\ cuts' <= MaxCuts

(* The end of the output.  The entry of a stdin that is still registered   *)
(* stays behind.                                                           *)
CgiEnd ==
  /\ CgiReady
  /\ LET cl == clients_[CgiClient]
     IN  /\ Cut(cl)
         /\ file' = Closing({Cur.fd} \cup StdinOf(cl))
         /\ Change(CgiClient, Finished(cl))
  /\ cgi_fd_to_client_fd_' = Without(cgi_fd_to_client_fd_, Cur.fd)
  /\ poll_fds_' = Erase({idx})
  /\ Stay(idx)
  /\ UNCHANGED <<made, server_fds_, cgi_stdin_fd_to_client_fd_>>

-----------------------------------------------------------------------------
(***************************************************************************)
(* handle_client_read.  Whatever it does, the scan goes on with the output *)
(* handler at the same index, which may be another entry's by then.        *)
(***************************************************************************)
Reading == /\ Visiting("IN") /\ ~ isListeningSocket(Cur.fd)
           /\ ~ isCgiStdinFd(Cur.fd) /\ ~ isCgiFd(Cur.fd)
Cl == clients_[Cur.fd]

ReadNoClient ==
  /\ Reading /\ ~ Known(Cur.fd)
  /\ idx' = idx + 1 /\ phase' = "output" /\ seen' = Cur.fd
  /\ UNCHANGED <<file, made, server_fds_, cuts, poll_fds_, clients_, maps>>

(* The body is cut short: end of file, a failed read or a malformed chunk. *)
(* close_cgi_stdin does not remove the entry.                              *)
BodyCut ==
  /\ Reading /\ Known(Cur.fd) /\ Cl.active
  /\ Cut(Cl)
  /\ LET closes == IF Cl.pend THEN {} ELSE StdinOf(Cl)
     IN  /\ file' = Closing(closes)
         /\ Change(Cur.fd, [Cl EXCEPT !.eof = TRUE,
                                      !.in = IF closes = {} THEN @ ELSE NoFd])
  /\ ToOutput
  /\ UNCHANGED <<made, server_fds_, poll_fds_, maps>>

(* A short write buffers the rest; the stdin entry is there or is added.   *)
BodyBuffered ==
  /\ Reading /\ Known(Cur.fd) /\ Cl.active /\ Cl.in # NoFd
  /\ Change(Cur.fd, [Cl EXCEPT !.pend = TRUE])
  /\ IF isCgiStdinFd(Cl.in) THEN UNCHANGED <<poll_fds_, cgi_stdin_fd_to_client_fd_>>
     ELSE /\ poll_fds_' = PushBack(<<Entry(Cl.in, Cl.c)>>)
          /\ cgi_stdin_fd_to_client_fd_' =
               With(cgi_stdin_fd_to_client_fd_, Cl.in, Cur.fd)
  /\ ToOutput
  /\ UNCHANGED <<file, made, server_fds_, cuts, cgi_fd_to_client_fd_>>

(* Mutant: the entry of the closed stdin stays in poll_fds_.               *)
DropStdinOfOnlyMap(cl) ==
  /\ cgi_stdin_fd_to_client_fd_' = Without(cgi_stdin_fd_to_client_fd_, cl.in)
  /\ UNCHANGED poll_fds_

(* Mutant: the map still names the closed stdin.                           *)
DropStdinOfOnlyEntry(cl) ==
  /\ poll_fds_' = Erase(First({cl.in}))
  /\ UNCHANGED cgi_stdin_fd_to_client_fd_

DropStdinOf(cl) ==
  /\ cgi_stdin_fd_to_client_fd_' = Without(cgi_stdin_fd_to_client_fd_, cl.in)
  /\ poll_fds_' = Erase(First({cl.in}))

(* The last body byte: stdin is closed and deregistered, or marked.        *)
BodyEnds ==
  /\ Reading /\ Known(Cur.fd) /\ Cl.active /\ Cl.in # NoFd
  /\ IF Cl.pend
     THEN /\ Change(Cur.fd, [Cl EXCEPT !.eof = TRUE])
          /\ UNCHANGED <<file, poll_fds_, cgi_stdin_fd_to_client_fd_>>
     ELSE /\ file' = Closing({Cl.in})
          /\ Change(Cur.fd, [Cl EXCEPT !.in = NoFd])
          /\ DropStdinOf(Cl)
  /\ ToOutput
  /\ UNCHANGED <<made, server_fds_, cuts, cgi_fd_to_client_fd_>>

(* The peer is gone: remove_client, and the caller goes on at idx.         *)
RequestEof ==
  /\ Reading /\ Known(Cur.fd) /\ ~ Cl.active
  /\ remove_client(idx)
  /\ ToOutput

(* A request is answered without a child: by HTTPHandler, with an error,   *)
(* or because the first pipe() or fork() failed and all was closed.        *)
Answered ==
  /\ Reading /\ Known(Cur.fd) /\ ~ Cl.active
  /\ Change(Cur.fd, [Cl EXCEPT !.ans = TRUE])
  /\ ToOutput
  /\ UNCHANGED <<file, made, server_fds_, cuts, poll_fds_, maps>>

(* The second pipe() fails and the first pair is never closed.             *)
PipeFails ==
  /\ Reading /\ Known(Cur.fd) /\ ~ Cl.active
  /\ Cardinality(FreeFds) \in {2, 3}
  /\ file' = [f \in Fds |-> IF f \in Lowest(2)
                            THEN [k |-> "lost", c |-> Cl.c] ELSE file[f]]
  /\ Change(Cur.fd, [Cl EXCEPT !.ans = TRUE])
  /\ ToOutput
  /\ UNCHANGED <<made, server_fds_, cuts, poll_fds_, maps>>

(***************************************************************************)
(* dispatch_cgi: pipe() twice, fork, the child's ends closed again.  The   *)
(* stdin end is closed at once when the body is complete and written,      *)
(* otherwise it is registered after stdout's.                              *)
(***************************************************************************)
dispatch_cgi ==
  /\ Reading /\ Known(Cur.fd) /\ ~ Cl.active
  /\ Cardinality(FreeFds) >= 4
  /\ \E complete, pend \in BOOLEAN :
       LET p    == Sorted(Lowest(4))
           keep == ~ complete \/ pend
       IN  /\ file' = [f \in Fds |-> IF f = p[3] THEN [k |-> "out", c |-> Cl.c]
                                     ELSE IF f = p[2] /\ keep
                                     THEN [k |-> "in", c |-> Cl.c] ELSE file[f]]
           /\ Change(Cur.fd, [Cl EXCEPT !.active = TRUE, !.hs = FALSE,
                                !.in = IF keep THEN p[2] ELSE NoFd, !.out = p[3],
                                !.pend = pend, !.eof = complete /\ pend])
           /\ cgi_fd_to_client_fd_' = With(cgi_fd_to_client_fd_, p[3], Cur.fd)
           /\ cgi_stdin_fd_to_client_fd_' =
                IF keep THEN With(cgi_stdin_fd_to_client_fd_, p[2], Cur.fd)
                ELSE cgi_stdin_fd_to_client_fd_
           /\ poll_fds_' = PushBack(<<Entry(p[3], Cl.c)>>
                                   \o IF keep THEN <<Entry(p[2], Cl.c)>> ELSE <<>>)
  /\ ToOutput
  /\ UNCHANGED <<made, server_fds_, cuts>>

-----------------------------------------------------------------------------
(***************************************************************************)
(* handle_poll_output at idx, wherever that is now, and the end of the     *)
(* loop body: "clear handled event" and idx++.  Past the end of the vector *)
(* the slot still holds the entry that was erased last, whose descriptor   *)
(* is in no map.                                                           *)
(***************************************************************************)
Writing == phase = "output" /\ idx <= Len(poll_fds_) /\ "OUT" \in Reports(Cur)

Clear ==
  /\ phase = "output"
  /\ Stay(idx + 1)
  /\ poll_fds_' = [i \in DOMAIN poll_fds_ |->
                     IF i = idx THEN [poll_fds_[i] EXCEPT !.was = "none"] ELSE poll_fds_[i]]
  /\ UNCHANGED <<file, made, server_fds_, cuts, clients_, maps>>

(* The answer has been sent, or sending it failed.                         *)
AnswerEnds ==
  /\ Writing /\ ~ isCgiStdinFd(Cur.fd) /\ Known(Cur.fd)
  /\ Cl.ans \/ Cl.hs
  /\ remove_client(idx)
  /\ Stay(idx)

(* handle_cgi_stdin_writable.                                              *)
StdinClient == cgi_stdin_fd_to_client_fd_[Cur.fd]

StdinOrphan ==
  /\ Writing /\ isCgiStdinFd(Cur.fd) /\ ~ Known(StdinClient)
  /\ file' = Closing({Cur.fd})
  /\ cgi_stdin_fd_to_client_fd_' = Without(cgi_stdin_fd_to_client_fd_, Cur.fd)
  /\ poll_fds_' = Erase({idx})
  /\ Stay(idx)
  /\ UNCHANGED <<made, server_fds_, cuts, clients_, cgi_fd_to_client_fd_>>

StdinFlush ==
  /\ Writing /\ isCgiStdinFd(Cur.fd) /\ Known(StdinClient)
  /\ \E pend \in {FALSE, clients_[StdinClient].pend} :
       LET cl == [clients_[StdinClient] EXCEPT !.pend = pend]
       IN  IF ~ pend /\ cl.eof
           THEN /\ file' = Closing(StdinOf(cl))
                /\ Change(StdinClient, [cl EXCEPT !.in = NoFd])
                /\ cgi_stdin_fd_to_client_fd_' =
                     Without(cgi_stdin_fd_to_client_fd_, Cur.fd)
                /\ poll_fds_' = Erase({idx})
                /\ Stay(idx)
           ELSE /\ Change(StdinClient, cl)
                /\ Stay(idx + 1)
                /\ UNCHANGED <<file, poll_fds_, cgi_stdin_fd_to_client_fd_>>
  /\ UNCHANGED <<made, server_fds_, cuts, cgi_fd_to_client_fd_>>

(* The timeout loop of start(): any client may have been idle too long.    *)
TimeOut ==
  /\ phase = "timeouts"
  /\ \E i \in DOMAIN poll_fds_ :
       /\ ~ isListeningSocket(poll_fds_[i].fd) /\ Known(poll_fds_[i].fd)
       /\ remove_client(i)
  /\ UNCHANGED <<phase, idx, seen>>

EndRound ==
  /\ phase = "timeouts" /\ phase' = "poll"
  /\ poll_fds_' = [i \in DOMAIN poll_fds_ |-> [poll_fds_[i] EXCEPT !.was = "none"]]
  /\ idx' = 1 /\ seen' = NoFd
  /\ UNCHANGED <<file, made, server_fds_, cuts, clients_, maps>>

Next ==
  \/ Listen \/ ListenFails \/ Stop
  \/ Poll \/ EndScan \/ NoInput \/ Clear \/ TimeOut \/ EndRound
  \/ StdinError \/ SocketError
  \/ accept_client \/ SkipStdin \/ CgiOutput \/ CgiEnd
  \/ ReadNoClient \/ BodyCut \/ BodyBuffered \/ BodyEnds
  \/ RequestEof \/ Answered \/ PipeFails \/ dispatch_cgi
  \/ AnswerEnds \/ StdinOrphan \/ StdinFlush

Spec == Init /\ [][Next]_vars

-----------------------------------------------------------------------------
TypeOK ==
  /\ file \in [Fds -> Object] /\ made \in 0..MaxConns
  /\ phase \in {"init", "poll", "visit", "output", "timeouts", "exit"}
  /\ ToSet(server_fds_) \subseteq Fds
  /\ ToSet(poll_fds_) \subseteq [fd : Fds, c : 0..MaxConns, was : Kinds \cup {"none", "free"}]
  /\ DOMAIN clients_ \subseteq Fds /\ Range(clients_) \subseteq Client
  /\ \A m \in {cgi_fd_to_client_fd_, cgi_stdin_fd_to_client_fd_} :
       DOMAIN m \subseteq Fds /\ Range(m) \subseteq Fds
  /\ idx \in Nat /\ seen \in Fds \cup {NoFd} /\ cuts \in 0..MaxCuts

Running == phase \notin {"init", "exit"}
(* As long as every CGI has read its body to the end: close_cgi_stdin on   *)
(* the other paths leaves the stdin entry behind (BrokenIsStdin).          *)
Steady  == Running /\ cuts = 0

(* poll_fds_ never names a descriptor twice, or one that is closed, or one *)
(* that meanwhile belongs to another connection.                           *)
EntriesLive ==
  /\ \A i, j \in DOMAIN poll_fds_ : poll_fds_[i].fd = poll_fds_[j].fd => i = j
  /\ \A i \in DOMAIN poll_fds_ : LET e == poll_fds_[i]
       IN file[e.fd].k \in {"listen", "sock", "in", "out"} /\ file[e.fd].c = e.c

(* clients_ and the two CGI maps say of every entry what its descriptor    *)
(* is, and each CGI descriptor leads to the Client that holds it.          *)
MapsAgree ==
  /\ {f \in Fds : file[f].k = "sock"} = DOMAIN clients_
  /\ \A f \in DOMAIN clients_ : file[f].c = clients_[f].c
  /\ DOMAIN cgi_fd_to_client_fd_ = {f \in Fds : file[f].k = "out"}
  /\ DOMAIN cgi_stdin_fd_to_client_fd_ = {f \in Fds : file[f].k = "in"}
  /\ \A f \in DOMAIN cgi_stdin_fd_to_client_fd_ :
       Known(cgi_stdin_fd_to_client_fd_[f]) /\ clients_[cgi_stdin_fd_to_client_fd_[f]].in = f

(* Whatever the handlers push, erase and close, and however often a number *)
(* is reused (Server::start, get_client, isCgiFd, isCgiStdinFd,            *)
(* remove_client): poll_fds_, clients_ and the CGI maps tell the same      *)
(* story as the kernel's table, as long as no CGI body has been cut.       *)
TablesAgree == TypeOK /\ (Steady => EntriesLive /\ MapsAgree)

(* The scan keeps one index while handlers erase entries.  It skips none   *)
(* on account of remove_client because the CGI entries of a connection     *)
(* always stand behind the entry of its socket, and the listening sockets  *)
(* in front of all: what is erased with the entry at idx is never before.  *)
CgiEntriesFollow ==
  Steady =>
    /\ \A i \in DOMAIN server_fds_ : poll_fds_[i].fd = server_fds_[i]
    /\ \A i, j \in DOMAIN poll_fds_ :
         /\ file[poll_fds_[i].fd].k = "sock" /\ poll_fds_[i].c = poll_fds_[j].c
         /\ i # j
         => i < j

(* Every descriptor the process holds is one the Server can still reach    *)
(* and will close, but for the pipe lost when a second pipe() fails        *)
(* (Server.cpp:627).  Whether the constructor failed half-way or a signal  *)
(* ended the loop (cleanup_sockets_, ~Server), no socket stays open.       *)
NothingLeaked ==
  LET reachable == ToSet(server_fds_) \cup DOMAIN clients_
        \cup UNION {{cl.in, cl.out} : cl \in Range(clients_)}
  IN  \A f \in {g \in Fds : file[g].k \notin {"free", "lost"}} :
        IF phase = "exit" THEN file[f].k \in {"in", "out"} ELSE f \in reachable

(* get_client_by_cgi_fd: whatever becomes of its stdin, the stdout of a    *)
(* CGI never outlives the Client it is registered for, so the orphan       *)
(* branch of handle_cgi_output (Server.cpp:349) is dead.                   *)
OutputHasClient ==
  \A f \in DOMAIN cgi_fd_to_client_fd_ :
    Known(cgi_fd_to_client_fd_[f]) /\ clients_[cgi_fd_to_client_fd_[f]].out = f

(* A handler closes descriptors of the connection whose entry it handles,  *)
(* never those of another one (close() in handle_poll_errors, close_cgi_-  *)
(* stdin, finish_cgi, remove_client).                                      *)
Closes(c) == \A f \in Fds : file[f] # Free /\ file'[f] = Free => file[f].c = c
ClosesOwn ==
  [][(Steady /\ phase \in {"visit", "output"} /\ idx <= Len(poll_fds_)) => Closes(Cur.c)]_vars

-----------------------------------------------------------------------------
(* Server.cpp:287, "CGI stdin pipe broke (child died?) - remove it from    *)
(* poll": where this branch closes the descriptor, it is a CGI's stdin or  *)
(* no longer open.                                                         *)
BrokenIsStdin ==
  [][\A f \in Fds : (isCgiStdinFd(f) /\ file'[f] = Free) => file[f].k # "sock"]_vars

(* Server.cpp:215, "clear handled event": the entry whose revents are      *)
(* cleared is the one whose errors and input were looked at.               *)
ClearsHandled ==
  phase = "output" => idx <= Len(poll_fds_) /\ Cur.fd = seen

(* Server.cpp:1448, "This prevents orphan fds": every CGI descriptor in    *)
(* the maps has a Client.                                                  *)
NoOrphans ==
  /\ Range(cgi_fd_to_client_fd_) \subseteq DOMAIN clients_
  /\ Range(cgi_stdin_fd_to_client_fd_) \subseteq DOMAIN clients_
=============================================================================
