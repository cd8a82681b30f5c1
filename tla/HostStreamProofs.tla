-------------------------- MODULE HostStreamProofs --------------------------
(***************************************************************************)
(* Proofs about HostStream, for every kind of call, any exit codes and any *)
(* amount of output and input.  The inductive invariant is in three parts: *)
(* what the handler's step says of the command, of its readers and of the  *)
(* answer; what a reader's step says of the chunks; and, for Exec, that a  *)
(* copying goroutine ends only when nothing more can be printed.  The last *)
(* part is about the wait for the readers.                                 *)
(***************************************************************************)
EXTENDS HostStream, TLAPS

HandlerInv ==
  /\ main \in {"idle", "start", "refuse"} => proc = "none" /\ status = 0
  /\ main \in {"idle", "start"} => waitCode = 0
  /\ main = "wait" => proc # "none"
  /\ main \in {"close", "join", "reply"} => proc = "ended"
  /\ proc = "none" => /\ child = FALSE /\ input = "none"
                      /\ \A s \in Streams : reader[s] = "none" /\ printed[s] = 0
  /\ main = "reply" => ReadersDone
  /\ \A s \in Streams \ Outputs : reader[s] = "none"
  /\ main = "idle" => client = "up"
  /\ ~Finished => answer = NoResult
  /\ cancelled /\ ~Finished => client = "gone"
  /\ main \in {"close", "join", "reply"} /\ client = "up" => waitCode = status

ChunkInv ==
  \A s \in Streams :
    /\ taken[s] <= printed[s]
    /\ Len(got[s]) <= taken[s]
    /\ reader[s] \in {"none", "loop", "read"} => Len(got[s]) = taken[s]
    /\ reader[s] = "send" => hand[s] = Len(got[s]) + 1 /\ hand[s] = taken[s]

ExecInv ==
  kind = "exec" =>
    /\ main \notin {"close", "join"}
    /\ proc # "none" => readEnd
    /\ \A s \in Streams :
         /\ reader[s] # "loop"
         /\ proc # "none" => reader[s] # "none"
         /\ reader[s] = "done" => Len(got[s]) = printed[s] /\ ~WritersOpen

Inv == TypeOK /\ HandlerInv /\ ChunkInv /\ ExecInv /\ PrefixReceived /\ NothingLeft

-----------------------------------------------------------------------------
(* Type correctness.                                                       *)

LEMMA ChunkAppended ==
  ASSUME NEW q \in Seq(Nat), NEW n \in Nat
  PROVE  /\ Append(q, n) \in Seq(Nat)
         /\ Len(Append(q, n)) = Len(q) + 1
         /\ \A i \in 1 .. Len(q) : Append(q, n)[i] = q[i]
         /\ Append(q, n)[Len(q) + 1] = n
OBVIOUS

LEMMA TypeStep ==
  ASSUME TypeOK, [Next]_vars
  PROVE  TypeOK'
<1> USE DEF procVars, inputVars
<1>1. CASE Call
  BY <1>1 DEF TypeOK, Call
<1>2. CASE StartCommand
  BY <1>2 DEF TypeOK, StartCommand
<1>3. CASE StartFails
  BY <1>3 DEF TypeOK, StartFails
<1>4. waitCode \in Int
  BY ExitCodesAssumption DEF TypeOK, Killed
<1>5. CASE Refuse
  BY <1>4, <1>5 DEF TypeOK, Refuse
<1>6. CASE Wait
  <2>1. waitCode' \in {status, 1}
    BY <1>6, Zenon DEF Wait
  <2>2. waitCode' \in ExitCodes \union {Killed, 0, 1, 127}
    BY <2>1 DEF TypeOK
  <2>3. main' \in {"close", "join", "reply"}
    BY <1>6, Zenon DEF Wait
  <2>4. readEnd' \in BOOLEAN
    BY <1>6, Zenon DEF Wait
  <2> QED BY <1>6, <2>2, <2>3, <2>4 DEF TypeOK, Wait
<1>7. CASE ClosePty
  <2>1. readEnd' \in BOOLEAN
    BY <1>7, Zenon DEF ClosePty
  <2> QED BY <1>7, <2>1 DEF TypeOK, ClosePty
<1>8. CASE Join
  BY <1>8 DEF TypeOK, Join
<1>9. CASE SendExit
  <2>1. cancelled' \in BOOLEAN
    BY <1>9, Zenon DEF SendExit
  <2> QED BY <1>4, <1>9, <2>1 DEF TypeOK, SendExit
<1>10. ASSUME NEW s \in Streams, ReadOutput(s) PROVE TypeOK'
  <2>1. CASE CheckContext(s)
    BY <2>1 DEF TypeOK, CheckContext
  <2>2. CASE Read(s)
    BY <2>2 DEF TypeOK, Read, Source
  <2>3. CASE ReadEnds(s)
    BY <2>3 DEF TypeOK, ReadEnds
  <2>4. CASE ReadFails(s)
    BY <2>4 DEF TypeOK, ReadFails
  <2>5. CASE SendChunk(s)
    BY <2>5, ChunkAppended DEF TypeOK, SendChunk
  <2>6. CASE SendFails(s)
    BY <2>6 DEF TypeOK, SendFails
  <2> QED BY <1>10, <2>1, <2>2, <2>3, <2>4, <2>5, <2>6, Zenon DEF ReadOutput
<1>11. CASE Input
  <2>1. CASE \E ends \in BOOLEAN : Receive(ends)
    BY <2>1 DEF TypeOK, Receive
  <2>2. CASE HandleInput
    <3>1. eof' \in BOOLEAN
      BY <2>2, Zenon DEF HandleInput
    <3>2. input' \in {"done", "recv"} /\ stdin' \in {"open", "eof"}
      BY <2>2, Zenon DEF HandleInput, TypeOK
    <3> QED BY <2>2, <3>1, <3>2 DEF TypeOK, HandleInput
  <2>3. CASE ReceiveFails
    BY <2>3 DEF TypeOK, ReceiveFails
  <2> QED BY <1>11, <2>1, <2>2, <2>3, Zenon DEF Input
<1>12. CASE Process
  <2>1. CASE \E s \in Streams : Prints(s)
    BY <2>1 DEF TypeOK, Prints
  <2>2. CASE LeaveChild
    BY <2>2 DEF TypeOK, LeaveChild
  <2>3. CASE ChildEnds
    <3>1. child' \in BOOLEAN
      BY <2>3, Zenon DEF ChildEnds
    <3> QED BY <2>3, <3>1 DEF TypeOK, ChildEnds
  <2>4. CASE \E code \in ExitCodes \union {Killed} : Ends(code)
    BY <2>4 DEF TypeOK, Ends
  <2> QED BY <1>12, <2>1, <2>2, <2>3, <2>4, Zenon DEF Process, ProcessEnds, Kill
<1>13. CASE ClientGoes
  BY <1>13 DEF TypeOK, ClientGoes
<1>14. CASE ContextEnds
  BY <1>14 DEF TypeOK, ContextEnds
<1>15. CASE UNCHANGED vars
  BY <1>15 DEF TypeOK, vars
<1> QED BY <1>1, <1>2, <1>3, <1>5, <1>6, <1>7, <1>8, <1>9, <1>10, <1>11, <1>12,
           <1>13, <1>14, <1>15, Zenon DEF Next, Handler

-----------------------------------------------------------------------------
(* The invariant is preserved.                                             *)

LEMMA HandlerPreserved ==
  ASSUME TypeOK, HandlerInv, NothingLeft, [Next]_vars
  PROVE  HandlerInv' /\ NothingLeft'
<1> USE DEF TypeOK, HandlerInv, NothingLeft, Finished, ReadersDone, Outputs, IsStream,
            procVars, inputVars
<1>1. CASE Call
  BY <1>1, Zenon DEF Call
<1>2. CASE StartCommand
  BY <1>2, Zenon DEF StartCommand
<1>3. CASE StartFails
  BY <1>3, Zenon DEF StartFails
<1>4. CASE Refuse
  BY <1>4, Zenon DEF Refuse
<1>5. CASE Wait
  <2>0. kind \in {"exec", "pipes", "pty"}
    BY KindsAssumption, Zenon DEF AllKinds
  <2>1. main' \in {"close", "join", "reply"} /\ (main' = "reply" => ReadersDone)
    BY <1>5, <2>0, Zenon DEF Wait
  <2>2. client = "up" => waitCode' = status
    BY <1>5, Zenon DEF Wait
  <2>3. UNCHANGED <<kind, procVars, reader, cancelled, inputVars, client, answer>>
    BY <1>5, Zenon DEF Wait
  <2>4. proc = "ended" /\ main = "wait"
    BY <1>5, Zenon DEF Wait
  <2> QED BY <2>1, <2>2, <2>3, <2>4, Zenon
<1>6. CASE ClosePty
  BY <1>6, Zenon DEF ClosePty
<1>7. CASE Join
  BY <1>7 DEF Join
<1>8. CASE SendExit
  BY <1>8, Zenon DEF SendExit
<1>9. ASSUME NEW s \in Streams, ReadOutput(s) PROVE HandlerInv' /\ NothingLeft'
  <2>1. CASE CheckContext(s)
    BY <2>1 DEF CheckContext
  <2>2. CASE Read(s)
    BY <2>2 DEF Read, Source
  <2>3. CASE ReadEnds(s)
    BY <2>3 DEF ReadEnds, Source
  <2>4. CASE ReadFails(s)
    BY <2>4 DEF ReadFails
  <2>5. CASE SendChunk(s)
    BY <2>5 DEF SendChunk
  <2>6. CASE SendFails(s)
    BY <2>6 DEF SendFails
  <2> QED BY <1>9, <2>1, <2>2, <2>3, <2>4, <2>5, <2>6, Zenon DEF ReadOutput
<1>10. CASE Input
  <2>1. CASE \E ends \in BOOLEAN : Receive(ends)
    BY <2>1 DEF Receive
  <2>2. CASE HandleInput
    BY <2>2 DEF HandleInput
  <2>3. CASE ReceiveFails
    BY <2>3 DEF ReceiveFails
  <2> QED BY <1>10, <2>1, <2>2, <2>3, Zenon DEF Input
<1>11. CASE Process
  <2>1. CASE \E s \in Streams : Prints(s)
    BY <2>1 DEF Prints, WritersOpen
  <2>2. CASE LeaveChild
    BY <2>2, Zenon DEF LeaveChild
  <2>3. CASE ChildEnds
    BY <2>3 DEF ChildEnds
  <2>4. CASE \E code \in ExitCodes \union {Killed} : Ends(code)
    BY <2>4 DEF Ends
  <2> QED BY <1>11, <2>1, <2>2, <2>3, <2>4, Zenon DEF Process, ProcessEnds, Kill
<1>12. CASE ClientGoes
  BY <1>12 DEF ClientGoes
<1>13. CASE ContextEnds
  BY <1>13 DEF ContextEnds
<1>14. CASE UNCHANGED vars
  BY <1>14 DEF vars
<1> QED BY Zenon, <1>1, <1>2, <1>3, <1>4, <1>5, <1>6, <1>7, <1>8, <1>9, <1>10, <1>11,
           <1>12, <1>13, <1>14 DEF Next, Handler

(* Only readers, and the command itself, touch chunks. *)
LEMMA ChunksPreserved ==
  ASSUME TypeOK, HandlerInv, ChunkInv, [Next]_vars
  PROVE  ChunkInv'
<1> USE DEF TypeOK, ChunkInv, procVars
<1>1. CASE StartCommand
  BY <1>1, Zenon DEF StartCommand, HandlerInv, IsStream
<1>2. ASSUME NEW s \in Streams, ReadOutput(s) PROVE ChunkInv'
  <2>1. CASE CheckContext(s)
    BY <2>1 DEF CheckContext
  <2>2. CASE Read(s)
    BY <2>2 DEF Read, Source
  <2>3. CASE ReadEnds(s)
    BY <2>3 DEF ReadEnds
  <2>4. CASE ReadFails(s)
    BY <2>4 DEF ReadFails
  <2>5. CASE SendChunk(s)
    BY <2>5, ChunkAppended DEF SendChunk
  <2>6. CASE SendFails(s)
    BY <2>6 DEF SendFails
  <2> QED BY <1>2, <2>1, <2>2, <2>3, <2>4, <2>5, <2>6, Zenon DEF ReadOutput
<1>3. ASSUME NEW s \in Streams, Prints(s) PROVE ChunkInv'
  BY <1>3 DEF Prints
<1>4. CASE UNCHANGED <<taken, printed, got, reader, hand>>
  BY <1>4
<1>5. \/ StartCommand \/ \E s \in Streams : ReadOutput(s) \/ Prints(s)
      \/ UNCHANGED <<taken, printed, got, reader, hand>>
  <2> DEFINE Same == UNCHANGED <<taken, printed, got, reader, hand>>
  <2>1. CASE Handler
    BY <2>1 DEF Handler, procVars, inputVars, Call, StartFails, Refuse, Wait, ClosePty,
                Join, SendExit
  <2>2. Input => Same
    BY Zenon DEF Input, procVars, Receive, HandleInput, ReceiveFails
  <2>3. CASE Process
    BY <2>3 DEF Process, inputVars, LeaveChild, ChildEnds, ProcessEnds, Kill, Ends
  <2>4. ClientGoes \/ ContextEnds \/ UNCHANGED vars => Same
    BY Zenon DEF vars, procVars, inputVars, ClientGoes, ContextEnds
  <2> QED BY <2>1, <2>2, <2>3, <2>4, Zenon DEF Next
<1> QED BY <1>1, <1>2, <1>3, <1>4, <1>5, Zenon

LEMMA PrefixPreserved ==
  ASSUME TypeOK, ChunkInv, PrefixReceived, [Next]_vars
  PROVE  PrefixReceived'
<1>1. ASSUME NEW s \in Streams, SendChunk(s) PROVE PrefixReceived'
  <2>1. got[s] \in Seq(Nat) /\ hand[s] = Len(got[s]) + 1 /\ hand[s] \in Nat
    BY <1>1, Zenon DEF TypeOK, ChunkInv, SendChunk
  <2>2. got' = [got EXCEPT ![s] = Append(got[s], hand[s])]
    BY <1>1, Zenon DEF SendChunk
  <2>3. \A i \in 1 .. Len(Append(got[s], hand[s])) : Append(got[s], hand[s])[i] = i
    BY <2>1, ChunkAppended DEF PrefixReceived
  <2> QED BY <2>2, <2>3 DEF PrefixReceived, TypeOK
<1>2. CASE got' = got
  BY <1>2, Zenon DEF PrefixReceived
<1>3. got' = got \/ \E s \in Streams : SendChunk(s)
  BY Zenon DEF Next, vars, Handler, Input, Process, Call, StartCommand, StartFails,
         Refuse, Wait, ClosePty, Join, SendExit, ReadOutput, CheckContext, Read,
         ReadEnds, ReadFails, SendFails, Receive, HandleInput, ReceiveFails,
         Prints, LeaveChild, ChildEnds, ProcessEnds, Kill, Ends, ClientGoes, ContextEnds
<1> QED BY <1>1, <1>2, <1>3, Zenon

LEMMA ExecPreserved ==
  ASSUME TypeOK, HandlerInv, ChunkInv, ExecInv, [Next]_vars
  PROVE  ExecInv'
<1> USE DEF TypeOK, HandlerInv, ChunkInv, ExecInv, WritersOpen, Outputs, IsStream,
            procVars, inputVars
<1>1. CASE Call
  BY <1>1, Zenon DEF Call
<1>2. CASE StartCommand
  BY <1>2, Zenon DEF StartCommand
<1>3. CASE StartFails
  BY <1>3, Zenon DEF StartFails
<1>4. CASE Refuse
  BY <1>4, Zenon DEF Refuse
<1>5. CASE Wait
  BY <1>5, Zenon DEF Wait
<1>6. CASE ClosePty
  BY <1>6, Zenon DEF ClosePty
<1>7. CASE Join
  BY <1>7, Zenon DEF Join
<1>8. CASE SendExit
  BY <1>8, Zenon DEF SendExit
<1>9. ASSUME NEW s \in Streams, ReadOutput(s) PROVE ExecInv'
  <2>1. CASE CheckContext(s)
    BY <2>1, Zenon DEF CheckContext
  <2>2. CASE Read(s)
    BY <2>2 DEF Read, Source
  <2>3. CASE ReadEnds(s)
    BY <2>3 DEF ReadEnds, Source
  <2>4. CASE ReadFails(s)
    BY <2>4, Zenon DEF ReadFails
  <2>5. CASE SendChunk(s)
    BY <2>5 DEF SendChunk
  <2>6. CASE SendFails(s)
    BY <2>6, Zenon DEF SendFails
  <2> QED BY <1>9, <2>1, <2>2, <2>3, <2>4, <2>5, <2>6, Zenon DEF ReadOutput
<1>10. CASE Input
  <2>1. CASE \E ends \in BOOLEAN : Receive(ends)
    BY <2>1 DEF Receive
  <2>2. CASE HandleInput
    BY <2>2, Zenon DEF HandleInput
  <2>3. CASE ReceiveFails
    BY <2>3, Zenon DEF ReceiveFails
  <2> QED BY <1>10, <2>1, <2>2, <2>3, Zenon DEF Input
<1>11. CASE Process
  <2>1. CASE \E s \in Streams : Prints(s)
    BY <2>1 DEF Prints
  <2>2. CASE LeaveChild
    BY <2>2, Zenon DEF LeaveChild
  <2>3. CASE ChildEnds
    BY <2>3, Zenon DEF ChildEnds
  <2>4. CASE \E code \in ExitCodes \union {Killed} : Ends(code)
    BY <2>4 DEF Ends
  <2> QED BY <1>11, <2>1, <2>2, <2>3, <2>4, Zenon DEF Process, ProcessEnds, Kill
<1>12. CASE ClientGoes
  BY <1>12, Zenon DEF ClientGoes
<1>13. CASE ContextEnds
  BY <1>13, Zenon DEF ContextEnds
<1>14. CASE UNCHANGED vars
  BY <1>14, Zenon DEF vars
<1> QED BY <1>1, <1>2, <1>3, <1>4, <1>5, <1>6, <1>7, <1>8, <1>9, <1>10, <1>11,
           <1>12, <1>13, <1>14 DEF Next, Handler

LEMMA InvHolds == Spec => []Inv
<1>1. Init => Inv
  <2> SUFFICES ASSUME Init PROVE Inv
    BY Zenon
  <2>1. TypeOK
    <3>1. /\ child \in BOOLEAN /\ readEnd \in BOOLEAN /\ cancelled \in BOOLEAN
          /\ outputErr \in BOOLEAN /\ eof \in BOOLEAN
      BY Zenon DEF Init
    <3>2. got \in [Streams -> Seq(Nat)]
      BY DEF Init
    <3> QED BY <3>1, <3>2, Zenon DEF Init, TypeOK
  <2>2. HandlerInv
    BY Zenon DEF Init, HandlerInv, Finished, Outputs
  <2>3. ExecInv /\ NothingLeft
    BY Zenon DEF Init, ExecInv, NothingLeft, Finished
  <2>4. ChunkInv /\ PrefixReceived
    <3>1. \A s \in Streams : /\ got[s] = <<>> /\ taken[s] = 0 /\ printed[s] = 0
                            /\ reader[s] = "none"
      BY Zenon DEF Init
    <3>2. \A s \in Streams : Len(got[s]) = 0
      BY <3>1
    <3> QED BY <3>1, <3>2 DEF ChunkInv, PrefixReceived
  <2> QED BY <2>1, <2>2, <2>3, <2>4, Zenon DEF Inv
<1>2. Inv /\ [Next]_vars => Inv'
  BY TypeStep, HandlerPreserved, ChunksPreserved, ExecPreserved, PrefixPreserved, Zenon
     DEF Inv
<1> QED BY <1>1, <1>2, PTL DEF Spec

-----------------------------------------------------------------------------
(* Each output a caller receives is a prefix of what the command printed,  *)
(* for any amount of output, however the call ends (readOutput).           *)
THEOREM PrefixTheorem == Spec => []PrefixReceived
<1>1. Inv => PrefixReceived
  BY Zenon DEF Inv
<1> QED BY <1>1, InvHolds, PTL

(* A call that returned left neither its command nor a reader behind.      *)
THEOREM NothingLeftTheorem == Spec => []NothingLeft
<1>1. Inv => NothingLeft
  BY Zenon DEF Inv
<1> QED BY <1>1, InvHolds, PTL

(* Exec returns with all that its command and the children it left printed.*)
THEOREM ExecCompleteTheorem == Spec => []ExecComplete
<1>1. Inv => ExecComplete
  <2> SUFFICES ASSUME Inv, kind = "exec", Finished, NEW s \in Streams
               PROVE  Len(got[s]) = printed[s]
    BY Zenon DEF ExecComplete
  <2>1. CASE proc = "none"
    BY <2>1 DEF Inv, TypeOK, HandlerInv, ChunkInv
  <2>2. CASE proc # "none"
    BY <2>2 DEF Inv, TypeOK, NothingLeft, ExecInv
  <2> QED BY <2>1, <2>2, Zenon
<1> QED BY <1>1, InvHolds, PTL

-----------------------------------------------------------------------------
(* The refinement.                                                         *)

LEMMA PhaseMeaning ==
  ASSUME Inv
  PROVE  /\ main = "idle" => Phase = "idle"
         /\ main # "idle" /\ ~Finished => Phase = "running"
         /\ Finished /\ answer = NoResult => Phase = "failed"
         /\ Finished /\ answer # NoResult => Phase = "exited"
BY Zenon DEF Inv, HandlerInv, Phase, Finished

Exit == IF proc = "none" THEN waitCode ELSE status

LEMMA ExitIsInt ==
  ASSUME TypeOK
  PROVE  waitCode \in Int /\ status \in Int /\ Exit \in Int
BY ExitCodesAssumption DEF TypeOK, Exit, Killed

LEMMA Stutters ==
  ASSUME Phase' = Phase, Exit' = Exit, UNCHANGED <<printed, got, answer>>
  PROVE  UNCHANGED Backend!vars
BY Zenon DEF Backend!vars, Exit

LEMMA InitRefines == Init => Backend!Init
<1> SUFFICES ASSUME Init PROVE Backend!Init
  BY Zenon
<1>1. Phase = "idle"
  BY Zenon DEF Init, Phase, Finished
<1>2. proc = "none" /\ waitCode = 0 /\ answer = NoResult
  BY Zenon DEF Init
<1>3. printed = [o \in Streams |-> 0] /\ got = [o \in Streams |-> <<>>]
  BY Zenon DEF Init
<1> QED BY <1>1, <1>2, <1>3 DEF Backend!Init

LEMMA ReturnRefines ==
  ASSUME Inv, Inv', main \in {"refuse", "reply"}, main' \in {"returned", "failed"},
         answer' = IF client = "up" THEN waitCode ELSE answer,
         Exit' = Exit, UNCHANGED <<printed, got>>
  PROVE  Backend!Next
<1>1. Phase = "running" /\ answer = NoResult
  BY PhaseMeaning, Zenon DEF Finished, Inv, HandlerInv
<1>2. waitCode # NoResult
  BY ExitIsInt, NoResultAssumption, Zenon DEF Inv
<1>3. answer' = NoResult => Phase' = "failed"
  BY Zenon DEF Phase, Finished
<1>4. answer' # NoResult => Phase' = "exited"
  BY Zenon DEF Phase
<1>5. CASE client = "up"
  <2>1. answer' = Exit /\ Phase' = "exited"
    BY <1>2, <1>4, <1>5, Zenon DEF Inv, HandlerInv, Exit
  <2>2. Backend!Return("call")
    BY <1>1, <2>1, Zenon DEF Backend!Return, Exit
  <2> QED BY <2>2, Zenon DEF Backend!Next
<1>6. CASE client # "up"
  <2>1. answer' = answer /\ Phase' = "failed"
    BY <1>1, <1>3, <1>6, Zenon
  <2>2. Backend!Fail("call")
    BY <1>1, <2>1, Zenon DEF Backend!Fail, Exit
  <2> QED BY <2>2, Zenon DEF Backend!Next
<1> QED BY <1>5, <1>6, Zenon

LEMMA StepRefines ==
  ASSUME Inv, Inv', [Next]_vars
  PROVE  [Backend!Next]_(Backend!vars)
<1> USE DEF procVars, inputVars
<1>1. CASE Call
  <2>1. Phase = "idle" /\ Phase' = "running" /\ Exit' = Exit
    BY <1>1, Zenon DEF Call, Inv, HandlerInv, Phase, Finished, Exit
  <2>2. Backend!Begin("call")
    BY <1>1, <2>1, Zenon DEF Call, Backend!Begin, Exit
  <2> QED BY <2>2, Zenon DEF Backend!Next
<1>2. CASE StartFails
  <2>1. Phase = "running" /\ Phase' = "running"
    BY <1>2, Zenon DEF StartFails, Inv, HandlerInv, Phase, Finished
  <2>2. Exit' \in Int
    BY ExitCodesAssumption DEF Inv, TypeOK, Exit, Killed
  <2>3. Backend!End("call")
    BY <1>2, <2>1, <2>2, Zenon DEF StartFails, Backend!End, Exit
  <2> QED BY <2>3, Zenon DEF Backend!Next
<1>3. CASE Refuse
  <2>1. Exit' = Exit /\ main' = "returned"
    BY <1>3, Zenon DEF Refuse, Exit
  <2> QED BY <1>3, <2>1, ReturnRefines, Zenon DEF Refuse
<1>4. CASE SendExit
  <2>1. Exit' = Exit /\ main' \in {"returned", "failed"}
    BY <1>4, Zenon DEF SendExit, Exit
  <2> QED BY <1>4, <2>1, ReturnRefines, Zenon DEF SendExit
<1>5. ASSUME NEW s \in Streams, Prints(s) PROVE Backend!Next
  <2>1. Phase # "idle" /\ Phase' = Phase /\ Exit' = Exit
    BY <1>5, Zenon DEF Prints, WritersOpen, Inv, HandlerInv, Phase, Finished, Exit
  <2>2. Backend!Prints("call", s)
    BY <1>5, <2>1, Zenon DEF Prints, Backend!Prints, Exit, Inv, TypeOK
  <2> QED BY <2>2, Zenon DEF Backend!Next
<1>6. ASSUME NEW s \in Streams, SendChunk(s) PROVE Backend!Next
  <2>1. Phase = "running" /\ Phase' = Phase /\ Exit' = Exit
    BY <1>6, Zenon DEF SendChunk, Inv, HandlerInv, NothingLeft, Phase, Finished, Exit
  <2>2. got[s] \in Seq(Nat) /\ Len(got[s]) \in Nat /\ printed[s] \in Nat
    BY DEF Inv, TypeOK
  <2>3. Backend!Newest(got[s]) = Len(got[s])
    <3>1. CASE got[s] = <<>>
      BY <3>1, Zenon DEF Backend!Newest
    <3>2. CASE got[s] # <<>>
      BY <2>2, <3>2 DEF Backend!Newest, Inv, PrefixReceived
    <3> QED BY <3>1, <3>2, Zenon
  <2>4. hand[s] = Len(got[s]) + 1 /\ hand[s] <= printed[s]
    BY <1>6, Zenon DEF SendChunk, Inv, ChunkInv
  <2>5. hand[s] \in Backend!Newest(got[s]) + 1 .. printed[s]
    BY <2>2, <2>3, <2>4
  <2>6. /\ got' = [got EXCEPT ![s] = Append(got[s], hand[s])]
        /\ printed' = printed /\ answer' = answer /\ got \in [Streams -> Seq(Nat)]
    BY <1>6, Zenon DEF SendChunk, Inv, TypeOK
  <2>7. Backend!Receive("call", s)
    BY <2>1, <2>5, <2>6, Zenon DEF Backend!Receive, Exit
  <2> QED BY <2>7, Zenon DEF Backend!Next
<1>7. ASSUME NEW code \in ExitCodes \union {Killed}, Ends(code) PROVE Backend!Next
  <2>1. Phase # "exited" /\ Phase' = Phase
    BY <1>7, Zenon DEF Ends, Inv, HandlerInv, NothingLeft, Phase, Finished
  <2>2. Exit' \in Int
    BY ExitCodesAssumption DEF Inv, TypeOK, Exit, Killed
  <2>3. Backend!End("call")
    BY <1>7, <2>1, <2>2, Zenon DEF Ends, Backend!End, Exit
  <2> QED BY <2>3, Zenon DEF Backend!Next
<1>8. CASE UNCHANGED <<printed, got, answer>> /\ Phase' = Phase /\ Exit' = Exit
  BY <1>8, Stutters, Zenon
<1>9. CASE \/ StartCommand \/ Wait \/ ClosePty \/ Join
           \/ LeaveChild \/ ChildEnds \/ ClientGoes \/ ContextEnds
  <2>1. UNCHANGED <<printed, got, answer>> /\ Exit' = Exit
    BY <1>9, Zenon
    DEF StartCommand, Wait, ClosePty, Join, LeaveChild, ChildEnds, ClientGoes,
                ContextEnds, Exit, Inv, HandlerInv
  <2>2. Phase' = Phase
    BY <1>9, Zenon
    DEF StartCommand, Wait, ClosePty, Join, LeaveChild, ChildEnds, ClientGoes,
                ContextEnds, Phase, Finished, Inv, HandlerInv
  <2> QED BY <1>8, <2>1, <2>2, Zenon
<1>10. CASE Input
  BY <1>8, <1>10, Zenon DEF Input, Receive, HandleInput, ReceiveFails, Phase, Finished, Exit
<1>11. ASSUME NEW s \in Streams, ReadOutput(s), ~SendChunk(s)
       PROVE  [Backend!Next]_(Backend!vars)
  BY <1>8, <1>11, Zenon DEF ReadOutput, CheckContext, Read, ReadEnds, ReadFails, SendFails,
                     Phase, Finished, Exit
<1>12. CASE UNCHANGED vars
  BY <1>8, <1>12, Zenon DEF vars, Phase, Finished, Exit
<1> QED
  BY <1>1, <1>2, <1>3, <1>4, <1>5, <1>6, <1>7, <1>9, <1>10, <1>11, <1>12, Zenon
     DEF Next, Handler, Process, ProcessEnds, Kill

(* Whatever readers, handler, command and client do, and however much is   *)
(* printed, a call on the host backend is a call of ExecBackend.           *)
THEOREM RefinementTheorem == Spec => ImplementsBackend
<1>1. Inv /\ Inv' /\ [Next]_vars => [Backend!Next]_(Backend!vars)
  BY StepRefines, Zenon
<1> QED BY <1>1, InitRefines, InvHolds, PTL DEF Spec, ImplementsBackend, Backend!Spec

(* Why a call returns.  A handler that waits for its readers has closed    *)
(* the outputs, and there is a reader for each of them.                    *)
JoinInv ==
  /\ main = "join" => ~readEnd
  /\ proc # "none" => \A s \in Outputs : reader[s] # "none"

(* The handler can take its next step; so can the reader of s, whose Read  *)
(* returns when the output is closed, holds a chunk or has no writer.      *)
HandlerMoves ==
  \/ main \in {"close", "reply"}
  \/ main = "wait" /\ proc = "ended" /\ (kind = "exec" => ReadersDone)
  \/ main = "join" /\ ReadersDone

ReaderMoves(s) ==
  \/ reader[s] \in {"loop", "send"}
  \/ reader[s] = "read" /\ (~readEnd \/ taken[s] < printed[s] \/ ~WritersOpen)

(* When the command has ended, and with it the children that hold the      *)
(* outputs of Exec or of a terminal, the call has returned, its handler    *)
(* can go on, or it waits for readers that can all go on.                  *)
NotStuck ==
  proc = "ended" /\ (kind = "pipes" \/ ~child) =>
    \/ Finished
    \/ HandlerMoves
    \/ ~ReadersDone /\ \A s \in Outputs : reader[s] = "done" \/ ReaderMoves(s)

(* What is left to do for the reader of s: the chunks it has not taken,    *)
(* three steps each, and the place it is in.                               *)
Place(step) ==
  CASE step = "send" -> 3 [] step = "loop" -> 2 [] step = "read" -> 1 [] OTHER -> 0

LeftToRead(s) == 3 * (printed[s] - taken[s]) + Place(reader[s])

Joining ==
  \/ main = "join"
  \/ main = "wait" /\ kind = "exec" /\ proc = "ended" /\ ~child

(* While the handler waits for its readers, each step of a reader leaves   *)
(* it less to do, and nothing gives it more: the wait is bounded, however  *)
(* much was printed.                                                       *)
Drains ==
  Joining => /\ Joining' \/ main' = "reply"
             /\ \A s \in Outputs :
                  /\ LeftToRead(s) \in Nat /\ LeftToRead(s)' <= LeftToRead(s)
                  /\ ReadOutput(s) => LeftToRead(s)' < LeftToRead(s)

\* What a reader has left is a number, and a step of the reader lowers it.
LEMMA ReaderAdvances ==
  ASSUME TypeOK, ChunkInv, NEW s \in Streams, ReadOutput(s)
  PROVE  /\ UNCHANGED <<kind, proc, child, printed, main, readEnd>>
         /\ reader'[s] # "none"
         /\ \A t \in Streams \ {s} : reader'[t] = reader[t] /\ taken'[t] = taken[t]
         /\ LeftToRead(s)' < LeftToRead(s) /\ LeftToRead(s)' <= LeftToRead(s)
<1>0. printed[s] \in Nat /\ taken[s] \in Nat
  BY DEF TypeOK
<1>1. UNCHANGED <<kind, proc, child, printed, main, readEnd>>
  BY Zenon DEF ReadOutput, CheckContext, Read, ReadEnds, ReadFails, SendChunk, SendFails,
               procVars
<1>2. CASE CheckContext(s)
  <2>1. /\ reader[s] = "loop" /\ reader'[s] \in {"read", "done"} /\ taken' = taken
        /\ \A t \in Streams \ {s} : reader'[t] = reader[t]
    BY <1>2 DEF CheckContext, TypeOK
  <2> QED BY <1>0, <1>1, <2>1 DEF LeftToRead, Place
<1>3. CASE Read(s)
  <2>1. /\ reader[s] = "read" /\ reader'[s] = "send" /\ taken'[s] = taken[s] + 1
        /\ \A t \in Streams \ {s} : reader'[t] = reader[t] /\ taken'[t] = taken[t]
    BY <1>3 DEF Read, Source, TypeOK
  <2> QED BY <1>0, <1>1, <2>1 DEF LeftToRead, Place
<1>4. CASE ReadEnds(s) \/ ReadFails(s) \/ SendFails(s)
  <2>1. /\ reader[s] \in {"read", "send"} /\ reader'[s] = "done" /\ taken' = taken
        /\ \A t \in Streams \ {s} : reader'[t] = reader[t]
    BY <1>4, ZenonT(30) DEF ReadEnds, ReadFails, SendFails, TypeOK
  <2> QED BY <1>0, <1>1, <2>1 DEF LeftToRead, Place
<1>5. CASE SendChunk(s)
  <2>1. /\ reader[s] = "send" /\ reader'[s] \in {"loop", "read"} /\ taken' = taken
        /\ \A t \in Streams \ {s} : reader'[t] = reader[t]
    BY <1>5 DEF SendChunk, TypeOK
  <2> QED BY <1>0, <1>1, <2>1 DEF LeftToRead, Place
<1> QED BY <1>2, <1>3, <1>4, <1>5, Zenon DEF ReadOutput

\* Steps that are none of a reader's, nor the start of the command.
LEMMA ReadersRest ==
  ASSUME [Next]_vars, \A s \in Streams : ~ReadOutput(s), ~StartCommand
  PROVE  UNCHANGED <<kind, reader, taken>>
<1>1. CASE Handler
  BY <1>1, Zenon DEF Handler, Call, StartFails, Refuse, Wait, ClosePty, Join, SendExit
<1>2. CASE Input
  BY <1>2, Zenon DEF Input, Receive, HandleInput, ReceiveFails
<1>3. CASE Process
  BY <1>3, Zenon DEF Process, Prints, LeaveChild, ChildEnds, ProcessEnds, Kill, Ends
<1>4. CASE ClientGoes \/ ContextEnds \/ UNCHANGED vars
  BY <1>4, Zenon DEF ClientGoes, ContextEnds, vars
<1> QED BY <1>1, <1>2, <1>3, <1>4, Zenon DEF Next

\* Where the handler and the command may go in such a step.
LEMMA HandlerGoes ==
  ASSUME TypeOK, HandlerInv, [Next]_vars, \A s \in Streams : ~ReadOutput(s), ~StartCommand
  PROVE  /\ proc # "none" \/ proc' = "none"
         /\ main = "join" => main' \in {"join", "reply"}
         /\ main' = "join" /\ (main = "join" => ~readEnd) => ~readEnd'
         /\ Joining => Joining' \/ main' = "reply"
         /\ Joining /\ (main = "join" => ~readEnd) => printed' = printed
<1> USE DEF procVars, inputVars
<1>0. kind \in {"exec", "pipes", "pty"}
  BY KindsAssumption, Zenon DEF TypeOK, AllKinds
<1>1. CASE Call \/ StartFails \/ Refuse \/ SendExit
  BY <1>1, Zenon DEF Call, StartFails, Refuse, SendExit, Joining, Finished
<1>2. CASE Wait
  <2>1. /\ main = "wait" /\ proc = "ended" /\ UNCHANGED <<proc, printed>>
        /\ kind = "exec" => main' = "reply"
        /\ kind = "pipes" => main' = "join" /\ ~readEnd'
        /\ kind = "pty" => main' = "close"
    BY <1>2, Zenon DEF Wait
  <2> QED BY <1>0, <2>1, Zenon DEF Joining
<1>3. CASE ClosePty \/ Join
  BY <1>3, Zenon DEF ClosePty, Join, Joining
<1>4. CASE Input \/ ClientGoes \/ ContextEnds \/ UNCHANGED vars
  <2>1. UNCHANGED <<kind, proc, child, printed, main, readEnd>>
    BY <1>4, Zenon DEF Input, Receive, HandleInput, ReceiveFails, ClientGoes, ContextEnds,
                       vars
  <2> QED BY <2>1, Zenon DEF Joining
<1>5. ASSUME NEW s \in Streams, Prints(s) PROVE UNCHANGED <<main, proc, kind, child, readEnd>>
  BY <1>5, Zenon DEF Prints
<1>6. ASSUME NEW s \in Streams, Prints(s)
      PROVE  ~(Joining /\ (main = "join" => ~readEnd)) /\ (proc # "none" \/ proc' = "none")
  BY <1>5, <1>6, Zenon DEF Prints, WritersOpen, Joining, HandlerInv
<1>7. CASE \E s \in Streams : Prints(s)
  BY <1>5, <1>6, <1>7, Zenon DEF Joining
<1>8. CASE LeaveChild \/ ChildEnds \/ ProcessEnds \/ Kill
  <2>1. UNCHANGED <<kind, printed, main, readEnd>>
    BY <1>8, Zenon DEF LeaveChild, ChildEnds, ProcessEnds, Kill, Ends
  <2>2. \/ proc = "running"
        \/ child /\ child' = FALSE /\ proc' = proc
    BY <1>8, Zenon DEF LeaveChild, ChildEnds, ProcessEnds, Kill, Ends
  <2> QED BY <2>1, <2>2, Zenon DEF Joining, HandlerInv
<1> QED BY <1>1, <1>2, <1>3, <1>4, <1>7, <1>8, Zenon DEF Next, Handler, Process

LEMMA JoinHolds == Spec => [](Inv /\ JoinInv)
<1>1. Init => JoinInv
  BY Zenon DEF Init, JoinInv
<1>2. Inv /\ JoinInv /\ [Next]_vars => JoinInv'
  <2> SUFFICES ASSUME Inv, JoinInv, [Next]_vars PROVE JoinInv'
    BY Zenon
  <2>0. TypeOK /\ HandlerInv /\ ChunkInv
    BY Zenon DEF Inv
  <2>1. CASE StartCommand
    <3>1. /\ main' = "wait" /\ Outputs' = Outputs /\ Outputs \subseteq Streams
          /\ \A s \in Streams : s \in Outputs => reader'[s] \in {"loop", "read"}
      BY <2>1 DEF StartCommand, Outputs, Streams
    <3> QED BY <3>1 DEF JoinInv
  <2>2. ASSUME NEW s \in Streams, ReadOutput(s) PROVE JoinInv'
    <3>1. Outputs' = Outputs /\ Outputs \subseteq Streams
      BY <2>0, <2>2, ReaderAdvances, Zenon DEF Outputs, Streams
    <3> QED BY <2>0, <2>2, <3>1, ReaderAdvances, Zenon DEF JoinInv
  <2>3. CASE ~StartCommand /\ \A s \in Streams : ~ReadOutput(s)
    <3>1. Outputs' = Outputs /\ reader' = reader
      BY <2>3, ReadersRest, Zenon DEF Outputs
    <3>2. proc' # "none" => proc # "none"
      BY <2>0, <2>3, HandlerGoes, Zenon
    <3>3. main' = "join" => ~readEnd'
      BY <2>0, <2>3, HandlerGoes, Zenon DEF JoinInv
    <3> QED BY <3>1, <3>2, <3>3, Zenon DEF JoinInv
  <2> QED BY <2>1, <2>2, <2>3, Zenon
<1> QED BY <1>1, <1>2, InvHolds, PTL DEF Spec

(* A call whose command has ended is never stuck: not on a reader that     *)
(* cannot go on, nor in its handler.                                       *)
THEOREM NotStuckTheorem == Spec => []NotStuck
<1>1. Inv /\ JoinInv => NotStuck
  <2> SUFFICES ASSUME Inv, JoinInv, proc = "ended", kind = "pipes" \/ ~child,
                      ~Finished, ~HandlerMoves
               PROVE  ~ReadersDone /\ \A s \in Outputs : reader[s] = "done" \/ ReaderMoves(s)
    BY Zenon DEF NotStuck
  <2>1. main \in {"wait", "join"} /\ ~ReadersDone
    BY Zenon DEF Inv, TypeOK, HandlerInv, HandlerMoves, Finished
  <2>2. main = "join" \/ (kind = "exec" /\ ~child)
    BY <2>1, Zenon DEF HandlerMoves
  <2>3. ~readEnd \/ ~WritersOpen
    BY <2>2, Zenon DEF WritersOpen, JoinInv
  <2>4. ASSUME NEW s \in Outputs PROVE reader[s] \in {"loop", "read", "send", "done"}
    <3>1. s \in Streams /\ reader[s] # "none"
      BY <2>4, Zenon DEF JoinInv, Outputs, Streams
    <3>2. reader[s] \in {"none", "loop", "read", "send", "done"}
      BY <3>1, Zenon DEF Inv, TypeOK
    <3> QED BY <3>1, <3>2, Zenon
  <2> QED BY <2>1, <2>3, <2>4, Zenon DEF ReaderMoves
<1> QED BY <1>1, JoinHolds, PTL

(* The wait for the readers comes to its end.                              *)
THEOREM DrainTheorem == Spec => [][Drains]_vars
<1>1. Inv /\ JoinInv /\ [Next]_vars => [Drains]_vars
  <2> SUFFICES ASSUME Inv, JoinInv, [Next]_vars, Joining
               PROVE  /\ Joining' \/ main' = "reply"
                      /\ \A s \in Outputs :
                           /\ LeftToRead(s) \in Nat /\ LeftToRead(s)' <= LeftToRead(s)
                           /\ ReadOutput(s) => LeftToRead(s)' < LeftToRead(s)
    BY Zenon DEF Drains
  <2>0. TypeOK /\ HandlerInv /\ ChunkInv /\ Outputs \subseteq Streams
    BY Zenon DEF Inv, Outputs, Streams
  <2>1. ASSUME NEW s \in Streams PROVE LeftToRead(s) \in Nat
    <3>1. printed[s] \in Nat /\ taken[s] \in Nat /\ taken[s] <= printed[s]
      BY <2>0, Zenon DEF TypeOK, ChunkInv
    <3>2. Place(reader[s]) \in Nat
      BY DEF Place
    <3> QED BY <3>1, <3>2 DEF LeftToRead
  <2>2. ASSUME NEW s \in Streams, ReadOutput(s)
        PROVE  /\ Joining' \/ main' = "reply"
               /\ \A t \in Streams : LeftToRead(t)' <= LeftToRead(t)
    <3>1. Joining'
      BY <2>0, <2>2, ReaderAdvances, Zenon DEF Joining
    <3>2. ASSUME NEW t \in Streams \ {s} PROVE LeftToRead(t)' <= LeftToRead(t)
      <4>1. LeftToRead(t)' = LeftToRead(t)
        BY <2>0, <2>2, ReaderAdvances, Zenon DEF LeftToRead
      <4> QED BY <2>1, <4>1
    <3> QED BY <2>0, <2>2, <3>1, <3>2, ReaderAdvances, Zenon
  <2>3. ~StartCommand
    BY Zenon DEF StartCommand, Joining
  <2>4. ASSUME \A s \in Streams : ~ReadOutput(s)
        PROVE  /\ Joining' \/ main' = "reply"
               /\ \A t \in Streams : LeftToRead(t)' <= LeftToRead(t)
    <3>1. UNCHANGED <<reader, taken>>
      BY <2>3, <2>4, ReadersRest, Zenon
    <3>2. printed' = printed /\ (Joining' \/ main' = "reply")
      BY <2>0, <2>3, <2>4, HandlerGoes, Zenon DEF JoinInv
    <3>3. \A t \in Streams : LeftToRead(t)' = LeftToRead(t)
      BY <3>1, <3>2, Zenon DEF LeftToRead
    <3> QED BY <2>1, <3>2, <3>3
  <2>5. \A s \in Streams : ReadOutput(s) => LeftToRead(s)' < LeftToRead(s)
    BY <2>0, ReaderAdvances, Zenon
  <2>6. \A s \in Streams : LeftToRead(s)' <= LeftToRead(s)
    BY <2>2, <2>4, Zenon
  <2> QED BY <2>0, <2>1, <2>2, <2>4, <2>5, <2>6, Zenon
<1> QED BY <1>1, JoinHolds, PTL DEF Spec
=============================================================================
