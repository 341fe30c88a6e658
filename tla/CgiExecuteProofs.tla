--------------------------- MODULE CgiExecuteProofs ---------------------------
(***************************************************************************)
(* What CGI::execute returns and what it leaves behind, for every body,    *)
(* every script, every capacity of the pipes and every deadline.           *)
(***************************************************************************)
EXTENDS CgiExecute, TLAPS

(* The shape of what the environment gave, in the form the steps need it.  *)
LEMMA Given ==
  ASSUME TypeOK
  PROVE  /\ body \in Nat /\ script.out \in Nat /\ script.end \in {"exit", "close", "run"}
         /\ Cap \in Nat \ {0} /\ Timeout \in Nat \ {0}
  BY CgiAssumption DEF TypeOK, Script

LEMMA TypeInit == Init => TypeOK
  <1> SUFFICES ASSUME Init PROVE TypeOK
    OBVIOUS
  <1>1. body \in Nat /\ script \in Script
    BY CgiAssumption DEF Init
  <1>2. script.out \in Nat /\ 0 \in 0 .. Cap /\ 0 \in 0 .. Timeout /\ body \in 0 .. body
    BY <1>1, CgiAssumption DEF Script
  <1>3. inW \in BOOLEAN /\ inR \in BOOLEAN /\ outW \in BOOLEAN /\ outR \in BOOLEAN /\ eof \in BOOLEAN
    BY Zenon DEF Init
  <1> QED BY <1>2, <1>3 DEF Init, TypeOK

LEMMA TypeStep == TypeOK /\ [Next]_vars => TypeOK'
  <1> SUFFICES ASSUME TypeOK, [Next]_vars PROVE TypeOK'
    OBVIOUS
  <1> USE Given DEF TypeOK
  <1>1. CASE PipeFails
    BY <1>1 DEF PipeFails, Return, given, kid
  <1>2. CASE ForkFails
    BY <1>2 DEF ForkFails, Return, given, ends, kid
  <1>3. CASE Fork
    BY <1>3 DEF Fork, given
  <1>4. CASE Write
    BY <1>4 DEF Write, given, ends, kid
  <1>5. CASE CloseStdin
    <2>1. inW' \in BOOLEAN
      BY <1>5, Zenon DEF CloseStdin
    <2> QED BY <1>5, <2>1 DEF CloseStdin, given, kid
  <1>6. CASE Deadline
    BY <1>6 DEF Deadline, Return, given
  <1>7. CASE PollError
    BY <1>7 DEF PollError, given, ends, kid
  <1>8. CASE ReadSome
    BY <1>8 DEF ReadSome, given, ends, kid
  <1>9. CASE Hangup
    BY <1>9 DEF Hangup, given, ends, kid
  <1>10. CASE Close
    BY <1>10 DEF Close, given, kid
  <1>11. CASE Wait
    BY <1>11 DEF Wait, Return, given, ends
  <1>12. CASE ScriptReads
    <2>1. eof' \in BOOLEAN
      BY <1>12, Zenon DEF ScriptReads
    <2> QED BY <1>12, <2>1 DEF ScriptReads, given, ends
  <1>13. CASE ScriptWrites
    BY <1>13 DEF ScriptWrites, given, ends
  <1>14. CASE ScriptExits \/ ScriptCrashes
    BY <1>14 DEF ScriptExits, ScriptCrashes, Gone, given
  <1>15. CASE ScriptCloses
    BY <1>15 DEF ScriptCloses, given, kid
  <1>16. CASE Tick
    BY <1>16 DEF Tick, given, ends, kid
  <1>17. CASE UNCHANGED vars
    BY <1>17 DEF vars, given, ends, kid
  <1> QED
    BY <1>1, <1>2, <1>3, <1>4, <1>5, <1>6, <1>7, <1>8, <1>9, <1>10, <1>11, <1>12,
       <1>13, <1>14, <1>15, <1>16, <1>17 DEF Next, Execute, ScriptRuns

(* TypeOK: neither pipe is ever filled beyond its capacity, and the clock  *)
(* of the deadline never runs past it.                                     *)
THEOREM ExecuteTypes == Spec => []TypeOK
  BY TypeInit, TypeStep, PTL DEF Spec

-----------------------------------------------------------------------------
LEMMA ExecInit == Init => ExecInv
  <1> SUFFICES ASSUME Init PROVE ExecInv
    OBVIOUS
  <1>1. script.out \in Nat
    BY CgiAssumption DEF Init, Script
  <1> QED
    BY <1>1 DEF Init, ExecInv, Conserved, EndsOK, Running, DrainedOK, OutputWhole, CleanReturn

(* The units on their way from the script to execute are counted once.     *)
LEMMA ConservedStep == TypeOK /\ ExecInv /\ [Next]_vars => Conserved'
  <1> SUFFICES ASSUME TypeOK, ExecInv, [Next]_vars PROVE Conserved'
    OBVIOUS
  <1> USE Given DEF TypeOK, ExecInv, Conserved
  <1>1. CASE ReadSome
    BY <1>1 DEF ReadSome, given, kid
  <1>2. CASE Hangup
    BY <1>2 DEF Hangup, given, kid
  <1>3. CASE ScriptWrites
    BY <1>3 DEF ScriptWrites, given
  <1>4. CASE UNCHANGED <<script, outLeft, stdout, output>>
    BY <1>4
  <1>5. PipeFails \/ ForkFails \/ Fork \/ Write \/ CloseStdin \/ Deadline \/ PollError
          \/ Close \/ Wait => UNCHANGED <<script, outLeft, stdout, output>>
    BY DEF PipeFails, ForkFails, Fork, Write, CloseStdin, Deadline, PollError, Close, Wait,
           given, kid
  <1>6. ScriptReads \/ ScriptExits \/ ScriptCrashes \/ ScriptCloses \/ Tick
          \/ UNCHANGED vars => UNCHANGED <<script, outLeft, stdout, output>>
    BY DEF ScriptReads, ScriptExits, ScriptCrashes, ScriptCloses, Tick, vars, given, kid
  <1> QED
    BY <1>1, <1>2, <1>3, <1>4, <1>5, <1>6 DEF Next, Execute, ScriptRuns

(* Who holds which end of the pipes, and what a closed end implies.        *)
LEMMA EndsStep == TypeOK /\ ExecInv /\ [Next]_vars => EndsOK' /\ DrainedOK'
  <1> SUFFICES ASSUME TypeOK, ExecInv, [Next]_vars PROVE EndsOK' /\ DrainedOK'
    OBVIOUS
  <1> USE Given DEF TypeOK, ExecInv, EndsOK, Running, DrainedOK
  <1>1. CASE PipeFails
    BY <1>1 DEF PipeFails, Return, given, kid
  <1>2. CASE ForkFails
    BY <1>2 DEF ForkFails, Return, given, ends, kid
  <1>3. CASE Fork
    BY <1>3 DEF Fork, given
  <1>4. CASE Write
    BY <1>4 DEF Write, given, ends, kid
  <1>5. CASE CloseStdin
    BY <1>5 DEF CloseStdin, given, kid
  <1>6. CASE Deadline
    BY <1>6 DEF Deadline, Return, given
  <1>7. CASE PollError
    BY <1>7 DEF PollError, given, ends, kid
  <1>8. CASE ReadSome
    BY <1>8 DEF ReadSome, given, ends, kid
  <1>9. CASE Hangup
    BY <1>9 DEF Hangup, given, ends, kid
  <1>10. CASE Close
    BY <1>10 DEF Close, given, kid
  <1>11. CASE Wait
    BY <1>11 DEF Wait, Return, given, ends
  <1>12. CASE ScriptReads
    BY <1>12 DEF ScriptReads, given, ends
  <1>13. CASE ScriptWrites
    BY <1>13 DEF ScriptWrites, given, ends
  <1>14. CASE ScriptExits \/ ScriptCrashes
    BY <1>14 DEF ScriptExits, ScriptCrashes, Gone, given
  <1>15. CASE ScriptCloses
    BY <1>15 DEF ScriptCloses, Done, given, kid
  <1>16. CASE Tick
    BY <1>16 DEF Tick, given, ends, kid
  <1>17. CASE UNCHANGED vars
    BY <1>17 DEF vars, given, ends, kid
  <1> QED
    BY <1>1, <1>2, <1>3, <1>4, <1>5, <1>6, <1>7, <1>8, <1>9, <1>10, <1>11, <1>12,
       <1>13, <1>14, <1>15, <1>16, <1>17 DEF Next, Execute, ScriptRuns

(* Only four steps return; after them nothing the two properties look at   *)
(* moves any more, since the script is gone.                               *)
LEMMA ReturnStep == TypeOK /\ ExecInv /\ [Next]_vars => OutputWhole' /\ CleanReturn'
  <1> SUFFICES ASSUME TypeOK, ExecInv, [Next]_vars PROVE OutputWhole' /\ CleanReturn'
    OBVIOUS
  <1> USE Given DEF TypeOK, OutputWhole, CleanReturn
  <1>1. CASE PipeFails
    BY <1>1 DEF PipeFails, Return, kid, ExecInv, EndsOK
  <1>2. CASE ForkFails
    BY <1>2 DEF ForkFails, Return, kid, ends, ExecInv, EndsOK
  <1>3. CASE Deadline
    BY <1>3 DEF Deadline, Return, ExecInv, EndsOK, Running
  <1>4. CASE Wait
    <2>1. ~ inW /\ ~ outR
      BY <1>4 DEF Wait, ExecInv, EndsOK, Running
    <2>2. failed = "no" => output = script.out - outLeft
      BY <1>4 DEF Wait, ExecInv, Conserved, DrainedOK
    <2> QED BY <1>4, <2>1, <2>2 DEF Wait, Return, given, ends
  <1>5. CASE pc' # "returned"
    BY <1>5
  <1>6. Fork \/ Write \/ CloseStdin \/ PollError \/ ReadSome \/ Hangup \/ Close \/ Tick
          => pc' # "returned"
    BY DEF Fork, Write, CloseStdin, PollError, ReadSome, Hangup, Close, Tick
  <1>7. CASE ScriptRuns \/ ScriptCrashes
    <2>1. child = "running" /\ pc' = pc
      BY <1>7 DEF ScriptRuns, ScriptReads, ScriptWrites, ScriptExits, ScriptCrashes, ScriptCloses
    <2>2. pc # "returned"
      BY <2>1 DEF ExecInv, EndsOK, Running
    <2> QED BY <2>1, <2>2
  <1>8. CASE UNCHANGED vars
    BY <1>8 DEF vars, given, ends, kid, ExecInv
  <1> QED
    BY <1>1, <1>2, <1>3, <1>4, <1>5, <1>6, <1>7, <1>8 DEF Next, Execute

(* The inductive invariant of execute.                                     *)
THEOREM ExecuteInvariant == Spec => []ExecInv
  <1>1. TypeOK /\ ExecInv /\ [Next]_vars => ExecInv'
    BY ConservedStep, EndsStep, ReturnStep DEF ExecInv
  <1> QED BY <1>1, ExecInit, ExecuteTypes, PTL DEF Spec

(* OutputWhole: without a failure and before the deadline execute returns  *)
(* all that the script wrote, the part left in the pipe when the script    *)
(* exits included.                                                         *)
THEOREM ExecuteReturnsAll == Spec => []OutputWhole
  <1>1. ExecInv => OutputWhole
    BY DEF ExecInv
  <1> QED BY <1>1, ExecuteInvariant, PTL

(* CleanReturn: no return leaves a child unreaped, and none but the one    *)
(* after a failing second pipe() leaves an end of a pipe open.             *)
THEOREM ExecuteCleansUp == Spec => []CleanReturn
  <1>1. ExecInv => CleanReturn
    BY DEF ExecInv
  <1> QED BY <1>1, ExecuteInvariant, PTL
=============================================================================
