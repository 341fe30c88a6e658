----------------------------- MODULE CgiExecute -----------------------------
(***************************************************************************)
(* CGI::execute: run a script to its end and return what it wrote.  The    *)
(* server and the script are two processes with a pipe in each direction;  *)
(* every call of execute that can block is a step that may not be enabled. *)
(* Behind Server's own CGI gate execute is not reached (NeverBlocks of     *)
(* module Handler): this is HTTPHandler::handle_request on its own.        *)
(*                                                                         *)
(* Data is counted in units; a pipe holds Cap of them.                     *)
(***************************************************************************)
EXTENDS Integers

CONSTANTS
  Bodies,    \* lengths of the request body written to the script
  Scripts,   \* what scripts do, see below
  Cap,       \* capacity of a pipe
  Timeout    \* the deadline, in ticks of the clock

(***************************************************************************)
(* A script writes out units, after the end of its input if patient and at *)
(* once if not; reads says whether it reads at all.  When it is done it    *)
(* exits, closes its output and goes on, or just goes on.                  *)
(***************************************************************************)
Script == [out : Nat, reads : BOOLEAN, patient : BOOLEAN, end : {"exit", "close", "run"}]

ASSUME CgiAssumption ==
  /\ Bodies \subseteq Nat /\ Scripts \subseteq Script
  /\ Cap \in Nat \ {0} /\ Timeout \in Nat \ {0}

VARIABLES
  body, script,      \* the request and the script
  pc,                \* where execute is
  toWrite,           \* units of the body not yet written
  stdin, stdout,     \* units in the two pipes
  inW, inR, outW, outR,  \* pipe ends: parent's, child's, child's, parent's
  child,             \* "none", "running", "dead" or "reaped"
  outLeft, eof,      \* the script: units to write, whether it saw EOF
  output,            \* what was read so far
  result,            \* what was returned
  failed,            \* "no", or what went wrong
  clock

ends == <<inW, inR, outW, outR>>
kid == <<child, outLeft, eof>>
given == <<body, script>>
vars == <<given, pc, toWrite, stdin, stdout, ends, kid, output, result, failed, clock>>

Init ==
  /\ body \in Bodies /\ script \in Scripts
  /\ pc = "pipes" /\ toWrite = body /\ stdin = 0 /\ stdout = 0
  /\ inW = FALSE /\ inR = FALSE /\ outW = FALSE /\ outR = FALSE
  /\ child = "none" /\ outLeft = script.out /\ eof = FALSE
  /\ output = 0 /\ result = 0 /\ failed = "no" /\ clock = 0

Return(n) == pc' = "returned" /\ result' = n

-----------------------------------------------------------------------------
(* Both pipes, then fork and the closing of the child's ends.  If only the *)
(* second pipe fails the first stays open.                                 *)
PipeFails ==
  /\ pc = "pipes" /\ Return(0) /\ failed' = "pipe"
  /\ \E one \in BOOLEAN : inW' = one /\ inR' = one
  /\ UNCHANGED <<given, toWrite, stdin, stdout, outW, outR, kid, output, clock>>

ForkFails ==
  /\ pc = "pipes" /\ Return(0) /\ failed' = "fork"
  /\ UNCHANGED <<given, toWrite, stdin, stdout, ends, kid, output, clock>>

Fork ==
  /\ pc = "pipes" /\ pc' = "write" /\ child' = "running"
  /\ inW' = TRUE /\ inR' = TRUE /\ outW' = TRUE /\ outR' = TRUE
  /\ UNCHANGED <<given, toWrite, stdin, stdout, outLeft, eof, output, result, failed, clock>>

(* write() blocks until everything is in the pipe, or nobody can read it.  *)
Write ==
  /\ pc = "write" /\ toWrite > 0 /\ inR /\ stdin < Cap
  /\ toWrite' = toWrite - 1 /\ stdin' = stdin + 1
  /\ UNCHANGED <<given, pc, stdout, ends, kid, output, result, failed, clock>>

(* The clock starts when the body is written.                              *)
CloseStdin ==
  /\ pc = "write" /\ (toWrite = 0 \/ ~ inR)
  /\ pc' = "loop" /\ inW' = FALSE /\ clock' = 0
  /\ UNCHANGED <<given, toWrite, stdin, stdout, inR, outW, outR, kid, output, result, failed>>

(* Mutant: the child that was killed is not waited for.                    *)
DeadlineNoWait ==
  /\ pc = "loop" /\ clock >= Timeout
  /\ child' = (IF child = "running" THEN "dead" ELSE child)
  /\ inR' = FALSE /\ outW' = FALSE /\ outR' = FALSE
  /\ Return(0)
  /\ UNCHANGED <<given, toWrite, stdin, stdout, inW, outLeft, eof, output, failed, clock>>

(* Mutant: the deadline is not looked at.                                  *)
DeadlineUnchecked == FALSE /\ UNCHANGED vars

(* kill() and waitpid(), which cannot block then.                          *)
Deadline ==
  /\ pc = "loop" /\ clock >= Timeout
  /\ child' = "reaped" /\ inR' = FALSE /\ outW' = FALSE /\ outR' = FALSE
  /\ Return(0)
  /\ UNCHANGED <<given, toWrite, stdin, stdout, inW, outLeft, eof, output, failed, clock>>

(* poll(): data or the end of the output; nothing in a slice, or EINTR,    *)
(* goes back to the deadline; an error ends the loop.                      *)
PollError ==
  /\ pc = "loop" /\ clock < Timeout
  /\ pc' = "close" /\ failed' = "poll"
  /\ UNCHANGED <<given, toWrite, stdin, stdout, ends, kid, output, result, clock>>

(* read() of up to a buffer; a reader that is told of data finds some.     *)
ReadSome ==
  /\ pc = "loop" /\ clock < Timeout /\ stdout > 0 /\ outW
  /\ \E n \in 1 .. stdout : output' = output + n /\ stdout' = stdout - n
  /\ UNCHANGED <<given, pc, toWrite, stdin, ends, kid, result, failed, clock>>

(* Mutant: no draining after POLLHUP.                                      *)
HangupNoDrain ==
  /\ pc = "loop" /\ clock < Timeout /\ ~ outW
  /\ pc' = "close"
  /\ \E n \in 0 .. stdout : output' = output + n /\ stdout' = stdout - n
  /\ UNCHANGED <<given, toWrite, stdin, ends, kid, result, failed, clock>>

(* POLLHUP: nobody can write any more; what is left is drained.            *)
Hangup ==
  /\ pc = "loop" /\ clock < Timeout /\ ~ outW
  /\ pc' = "close" /\ output' = output + stdout /\ stdout' = 0
  /\ UNCHANGED <<given, toWrite, stdin, ends, kid, result, failed, clock>>

Close ==
  /\ pc = "close" /\ pc' = "wait" /\ outR' = FALSE
  /\ UNCHANGED <<given, toWrite, stdin, stdout, inW, inR, outW, kid, output, result, failed, clock>>

(* waitpid() without WNOHANG.                                              *)
Wait ==
  /\ pc = "wait" /\ child = "dead" /\ child' = "reaped"
  /\ Return(output)
  /\ UNCHANGED <<given, toWrite, stdin, stdout, ends, outLeft, eof, output, failed, clock>>

Execute ==
  \/ PipeFails \/ ForkFails \/ Fork \/ Write \/ CloseStdin \/ Deadline
  \/ PollError \/ ReadSome \/ Hangup \/ Close \/ Wait

-----------------------------------------------------------------------------
(***************************************************************************)
(* The script, outside src/.                                               *)
(***************************************************************************)
ScriptReads ==
  /\ child = "running" /\ inR /\ script.reads
  /\ \/ stdin > 0 /\ stdin' = stdin - 1 /\ UNCHANGED eof
     \/ stdin = 0 /\ ~ inW /\ ~ eof /\ eof' = TRUE /\ UNCHANGED stdin
  /\ UNCHANGED <<given, pc, toWrite, stdout, ends, child, outLeft, output, result, failed, clock>>

ScriptWrites ==
  /\ child = "running" /\ outLeft > 0 /\ (script.patient => eof)
  /\ outR /\ stdout < Cap
  /\ stdout' = stdout + 1 /\ outLeft' = outLeft - 1
  /\ UNCHANGED <<given, pc, toWrite, stdin, ends, child, eof, output, result, failed, clock>>

Done == outLeft = 0 /\ (script.reads => eof)
Gone == child' = "dead" /\ inR' = FALSE /\ outW' = FALSE

(* The end of the script, or SIGPIPE.                                      *)
ScriptExits ==
  /\ child = "running"
  /\ \/ Done /\ script.end = "exit"
     \/ outLeft > 0 /\ (script.patient => eof) /\ ~ outR
  /\ Gone
  /\ UNCHANGED <<given, pc, toWrite, stdin, stdout, inW, outR, outLeft, eof, output, result, failed, clock>>

(* It may also fail at any moment; execve() failing is the first of them.  *)
ScriptCrashes ==
  /\ child = "running" /\ Gone
  /\ UNCHANGED <<given, pc, toWrite, stdin, stdout, inW, outR, outLeft, eof, output, result, failed, clock>>

ScriptCloses ==
  /\ child = "running" /\ Done /\ script.end = "close" /\ outW
  /\ outW' = FALSE
  /\ UNCHANGED <<given, pc, toWrite, stdin, stdout, inW, inR, outR, kid, output, result, failed, clock>>

Tick ==
  /\ pc = "loop" /\ clock < Timeout /\ clock' = clock + 1
  /\ UNCHANGED <<given, pc, toWrite, stdin, stdout, ends, kid, output, result, failed>>

ScriptRuns == ScriptReads \/ ScriptWrites \/ ScriptExits \/ ScriptCloses

Next == Execute \/ ScriptRuns \/ ScriptCrashes \/ Tick

(* execute goes on when it can, the script too, and time passes.           *)
Spec == Init /\ [][Next]_vars /\ WF_vars(Execute) /\ WF_vars(ScriptRuns) /\ WF_vars(Tick)

-----------------------------------------------------------------------------
(* The pipes never hold more than their capacity, and the rest has its     *)
(* type.                                                                   *)
TypeOK ==
  /\ body \in Bodies /\ script \in Scripts
  /\ stdin \in 0 .. Cap /\ stdout \in 0 .. Cap /\ toWrite \in 0 .. body
  /\ inW \in BOOLEAN /\ inR \in BOOLEAN /\ outW \in BOOLEAN /\ outR \in BOOLEAN
  /\ pc \in {"pipes", "write", "loop", "close", "wait", "returned"}
  /\ child \in {"none", "running", "dead", "reaped"}
  /\ outLeft \in Nat /\ output \in Nat /\ result \in Nat /\ eof \in BOOLEAN
  /\ failed \in {"no", "pipe", "fork", "poll"}
  /\ clock \in 0 .. Timeout

(* What execute returns, when no call failed and the deadline did not      *)
(* strike, is all the script wrote, the part read after POLLHUP included.  *)
OutputWhole ==
  pc = "returned" /\ failed = "no" /\ clock < Timeout => result = script.out - outLeft

(* When execute returns the script has been waited for and no end of a     *)
(* pipe is open, except those of a first pipe when the second fails.       *)
CleanReturn ==
  pc = "returned" => /\ child \in {"none", "reaped"}
                     /\ failed # "pipe" => ~ inW /\ ~ outR

(***************************************************************************)
(* What makes the two inductive: no unit is lost or made up on its way     *)
(* through the output pipe; who holds which end at which point; and that   *)
(* execute leaves its loop without a failure only when nobody can write    *)
(* any more and the pipe is empty.                                         *)
(***************************************************************************)
Conserved == outLeft + stdout + output = script.out

Running == pc \in {"write", "loop", "close", "wait"}
EndsOK ==
  /\ pc = "pipes" => child = "none" /\ failed = "no" /\ ~ inW /\ ~ outR
  /\ Running => child \in {"running", "dead"} /\ (inW <=> pc = "write")
  /\ pc = "wait" => ~ outR
  /\ child = "dead" => ~ outW
  /\ child = "running" => Running /\ (~ outW => outLeft = 0)

DrainedOK ==
  /\ pc \in {"close", "wait"} /\ failed = "no" => ~ outW /\ stdout = 0
  /\ pc \in {"close", "wait"} => clock < Timeout

ExecInv == Conserved /\ EndsOK /\ DrainedOK /\ OutputWhole /\ CleanReturn

(* A script may hang, close its input or stop half way: as long as the     *)
(* body fits into the pipe, or the script takes it before it writes,       *)
(* execute returns.  Not covered: a script that closes its output and goes *)
(* on, and a failure of poll().                                            *)
Bounded == (body <= Cap \/ (script.reads /\ script.patient)) /\ script.end # "close"
Returns == Bounded => <>(pc = "returned" \/ failed = "poll")

-----------------------------------------------------------------------------
(* CGI.hpp:43, "Returns an empty string on execution failure or timeout":  *)
(* the time limit also ends the writing of the body.                       *)
WriteEnds == pc = "write" ~> pc # "write"

(* CGI.cpp:286, "Reap child (non-blocking; it should be done by now)":     *)
(* once the output has ended execute returns.                              *)
WaitEnds == pc = "wait" /\ failed = "no" ~> pc = "returned"

(* CGI.hpp:43, "Returns an empty string on execution failure".             *)
FailureIsEmpty == pc = "returned" /\ failed # "no" => result = 0
=============================================================================
