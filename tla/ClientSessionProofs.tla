------------------------ MODULE ClientSessionProofs ------------------------
(***************************************************************************)
(* Proofs about ClientSession, for any number of clients and any output:   *)
(* machines that are stopped, results that are true, output that arrives,  *)
(* and waits that have something to wait for.                              *)
(***************************************************************************)
EXTENDS ClientSession, TLAPS

Step(c) == \/ Main(c) \/ CloseEarly(c) \/ Reads(c) \/ ReadOutput(c)
           \/ LeaveOutput(c) \/ Serves(c) \/ Prints(c)
           \/ StoppedByOther(c) \/ Kill(c)

Types ==
  /\ pc \in [Clients -> {"idle", "starting", "ready", "execing", "session", "stopping",
                          "done", "killed"}]
  /\ rpc \in [Clients -> {"none", "start", "exec", "stop", "ok", "err"}]
  /\ loop \in [Clients -> {"off", "reading", "over"}]
  /\ cmd \in [Clients -> {"none", "asked", "running", "over"}]
  /\ code \in [Clients -> Nat] /\ settled \in [Clients -> Nat]
  /\ result \in [Clients -> Nat] /\ vms \in [Clients -> BOOLEAN]

(* Which call is at the daemon at each place, and what the answers mean    *)
(* for the table of machines.                                              *)
Table ==
  /\ \A c \in Clients :
       /\ pc[c] = "idle" => rpc[c] = "none" /\ ~vms[c]
       /\ pc[c] = "starting" /\ rpc[c] # "ok" => ~vms[c]
       /\ pc[c] = "stopping" => rpc[c] \in {"stop", "ok", "err"}
       /\ pc[c] = "stopping" /\ rpc[c] # "stop" => ~vms[c]
       /\ pc[c] = "done" => rpc[c] = "none" /\ (vms[c] => NeverBegan(c))
       /\ pc[c] \in {"idle", "starting", "ready"} => loop[c] = "off"
       /\ rpc[c] = "start" => pc[c] \in {"starting", "killed"}
       /\ rpc[c] = "exec" => pc[c] = "execing"
       /\ cmd[c] = "running" /\ loop[c] = "off" => rpc[c] = "exec"
       /\ cmd[c] = "asked" => loop[c] # "off"
  /\ ~daemonUp => \A c \in Clients : ~vms[c]

(* The exit message among those on their way, if there is one, carries the *)
(* code the command ended with.                                            *)
Message == [type : {"output", "exit", "error"}, n : Nat]
Sent(s, r) == /\ s \in Seq(Message)
              /\ \A i \in 1..Len(s) : s[i].type = "exit" => s[i].n = r /\ r # Pending

(* A command ends once, and what its client has been told is the code it   *)
(* ended with.                                                             *)
Results ==
  \A c \in Clients :
    /\ pc[c] \in {"idle", "starting", "ready"} => cmd[c] = "none"
    /\ cmd[c] # "over" => result[c] = Pending
    /\ code[c] = 0 => result[c] = 0
    /\ settled[c] = 0 => result[c] = 0

Travelling == /\ stream \in [Clients -> Seq(Message)] /\ printed \in [Clients -> Nat]
           /\ \A c \in Clients : Sent(stream[c], result[c])

Inv == Types /\ Table /\ Results /\ Travelling

(* The messages the daemon sends.                                          *)
LEMMA Messages ==
  ASSUME NEW n \in Nat
  PROVE  /\ Output(n) \in Message /\ Output(n).type = "output"
         /\ Exit(n) \in Message /\ Exit(n).type = "exit" /\ Exit(n).n = n
BY Zenon DEF Output, Exit, Message

LEMMA ErrorMessage == Error \in Message /\ Error.type = "error"
BY Zenon DEF Error, Message

(* A stream without messages, with one more, and with one less.            *)
LEMMA SentEmpty == ASSUME NEW r PROVE Sent(<<>>, r) /\ Sent(<<Error>>, r)
BY ErrorMessage DEF Sent

LEMMA SentAppend ==
  ASSUME NEW s, NEW r, Sent(s, r), NEW m \in Message,
         m.type = "exit" => m.n = r /\ r # Pending
  PROVE  Sent(Append(s, m), r)
BY DEF Sent

LEMMA SentError ==
  ASSUME NEW s, NEW r, Sent(s, r) PROVE Sent(Append(s, Error), r)
<1>1. Error.type # "exit"
  BY ErrorMessage, Zenon
<1>q. QED BY <1>1, ErrorMessage, SentAppend, Zenon

LEMMA SentTail ==
  ASSUME NEW s, NEW r, Sent(s, r), s # <<>>
  PROVE  /\ Sent(Tail(s), r) /\ Head(s) \in Message
         /\ Head(s).type = "exit" => Head(s).n = r
BY DEF Sent

LEMMA AppendOne ==
  ASSUME NEW S, NEW q \in Seq(S), NEW e \in S
  PROVE  q \o <<e>> = Append(q, e)
OBVIOUS

LEMMA SentCut ==
  ASSUME NEW s, NEW r, Sent(s, r), NEW k \in Nat, k <= Len(s)
  PROVE  Sent(SubSeq(s, 1, k) \o <<Error>>, r)
<1> DEFINE t == SubSeq(s, 1, k)
<1>1. t \in Seq(Message) /\ Len(t) = k /\ \A i \in 1..k : t[i] = s[i]
  BY DEF Sent
<1>2. Sent(t, r)
  BY <1>1 DEF Sent
<1> HIDE DEF t
<1>3. t \o <<Error>> = Append(t, Error)
  BY <1>1, ErrorMessage, AppendOne, Zenon
<1>4. Sent(t \o <<Error>>, r)
  BY <1>2, <1>3, SentError, Zenon
<1>q. QED BY <1>4, Zenon DEF t

(* While the command has not ended no exit message is on its way, so any   *)
(* code may still become its own.                                          *)
LEMMA SentPending == ASSUME NEW s, NEW r, Sent(s, Pending) PROVE Sent(s, r)
BY Zenon DEF Sent

(* The types are preserved.                                                *)
LEMMA TypesStep ==
  ASSUME Types, Travelling, [Next]_vars PROVE Types'
<1> USE DEF main, session, command, service
<1>1. ASSUME NEW c \in Clients, Step(c) PROVE Types'
  <2>1. CASE StartVM(c)
    BY <2>1, Zenon DEF StartVM, Goto, Call, Types, Codes, Pending
  <2>2. CASE StartFailed(c)
    BY <2>2, Zenon DEF StartFailed, Finish, Report, Goto, Types, Codes, Pending
  <2>3. CASE Exec(c)
    BY <2>3, Zenon DEF Exec, Goto, Call, Types, Codes, Pending
  <2>4. CASE Started(c)
    BY <2>4, Zenon DEF Started, Goto, Types, Codes, Pending
  <2>5. CASE Shell(c)
    BY <2>5, Zenon DEF Shell, Goto, Types, Codes, Pending
  <2>6. CASE StartMessageFails(c)
    BY <2>6, Zenon DEF StartMessageFails, Finish, Report, Goto, Types, Codes, Pending
  <2>7. CASE ExecReturns(c)
    BY <2>7 DEF ExecReturns, Report, Goto, Call, Types, Codes, Pending
  <2>8. CASE SessionOver(c)
    BY <2>8, Zenon DEF SessionOver, Report, Goto, Call, Types, Codes, Pending
  <2>9. CASE StopReturns(c)
    BY <2>9, Zenon DEF StopReturns, Finish, Goto, Types, Codes, Pending
  <2>10. CASE CloseEarly(c)
    BY <2>10, Zenon DEF CloseEarly, Goto, Call, Types, Codes, Pending
  <2>11. CASE ReceiveOutput(c)
    <3>1. /\ UNCHANGED <<loop, settled>> \/ Settle(c, 1)
          /\ UNCHANGED <<pc, rpc, code, cmd, result, vms>>
      BY <2>11, Zenon DEF ReceiveOutput
    <3>q. QED BY <3>1 DEF Settle, Types
  <2>12. CASE ReceiveExit(c)
    <3>1. Head(stream[c]).n \in Nat
      BY <2>12, SentTail, Zenon DEF ReceiveExit, Receive, Travelling, Message
    <3>q. QED BY <2>12, <3>1, Zenon DEF ReceiveExit, Receive, Settle, Types
  <2>13. CASE ReceiveError(c)
    BY <2>13, Zenon DEF ReceiveError, Receive, Settle, CloseQueue, Types, Codes, Pending
  <2>14. CASE ReadOutput(c)
    BY <2>14, Zenon DEF ReadOutput, Types, Codes, Pending
  <2>15. CASE LeaveOutput(c)
    BY <2>15, Zenon DEF LeaveOutput, Types, Codes, Pending
  <2>16. CASE ServeStart(c)
    BY <2>16, Zenon DEF ServeStart, Answer, Types, Codes, Pending
  <2>17. CASE ServeExec(c)
    BY <2>17, Zenon DEF ServeExec, Answer, Types, Codes, Pending
  <2>18. CASE ServeStream(c)
    BY <2>18, Zenon DEF ServeStream, Send, Types, Codes, Pending
  <2>19. CASE ServeStop(c)
    BY <2>19 DEF ServeStop, Answer, Types, Codes, Pending
  <2>20. CASE CommandEnds(c)
    <3>1. PICK n \in Codes : result' = [result EXCEPT ![c] = n]
      BY <2>20, Zenon DEF CommandEnds
    <3>2. /\ UNCHANGED rpc \/ Answer(c, "ok")
          /\ cmd' = [cmd EXCEPT ![c] = "over"]
          /\ UNCHANGED <<pc, loop, code, settled, vms>>
      BY <2>20, Zenon DEF CommandEnds
    <3>q. QED BY <3>1, <3>2 DEF Answer, Codes, Types
  <2>21. CASE CommandFails(c)
    BY <2>21, Zenon DEF CommandFails, Answer, Send, Streams, Types, Codes, Pending
  <2>22. CASE Prints(c)
    BY <2>22, Zenon DEF Prints, Send, Streams, Types, Codes, Pending
  <2>23. CASE StoppedByOther(c)
    BY <2>23, Zenon DEF StoppedByOther, Types, Codes, Pending
  <2>24. CASE Kill(c)
    BY <2>24, Zenon DEF Kill, Goto, Types, Codes, Pending
  <2>25. CASE GiveUp(c)
    BY <2>25, Zenon DEF GiveUp, Finish, Report, Goto, Types
  <2>q. QED BY <1>1, <2>1, <2>2, <2>3, <2>4, <2>5, <2>6, <2>7, <2>8, <2>9, <2>10,
    <2>11, <2>12, <2>13, <2>14, <2>15, <2>16, <2>17, <2>18,
    <2>19, <2>20, <2>21, <2>22, <2>23, <2>24, <2>25, Zenon
    DEF Step, Main, Reads, Serves
<1>2. CASE DaemonEnds
  BY <1>2, Zenon DEF DaemonEnds, Types, Codes, Pending
<1>3. CASE UNCHANGED vars
  BY <1>3, Zenon DEF vars, Types, Codes, Pending
<1>q. QED BY <1>1, <1>2, <1>3, Zenon DEF Next, Step

(* The table of machines agrees with the answers.                          *)
LEMMA TableStep ==
  ASSUME Types, Table, [Next]_vars PROVE Table'
<1> USE DEF main, session, command, service, NeverBegan
<1>1. ASSUME NEW c \in Clients, Step(c) PROVE Table'
  <2>1. CASE StartVM(c)
    BY <2>1 DEF StartVM, Goto, Call, Types, Table
  <2>2. CASE StartFailed(c)
    BY <2>2 DEF StartFailed, Finish, Report, Goto, Types, Table
  <2>3. CASE Exec(c)
    BY <2>3 DEF Exec, Goto, Call, Types, Table
  <2>4. CASE Started(c)
    BY <2>4, Zenon DEF Started, Goto, Types, Table
  <2>5. CASE Shell(c)
    BY <2>5 DEF Shell, Goto, Types, Table
  <2>6. CASE StartMessageFails(c)
    BY <2>6, Zenon DEF StartMessageFails, Finish, Report, Goto, Types, Table
  <2>7. CASE ExecReturns(c)
    BY <2>7 DEF ExecReturns, Report, Goto, Call, Types, Table
  <2>8. CASE SessionOver(c)
    BY <2>8 DEF SessionOver, Report, Goto, Call, Types, Table
  <2>9. CASE StopReturns(c)
    BY <2>9 DEF StopReturns, Finish, Goto, Types, Table
  <2>10. CASE CloseEarly(c)
    BY <2>10 DEF CloseEarly, Goto, Call, Types, Table
  <2>11. CASE ReceiveOutput(c)
    BY <2>11 DEF ReceiveOutput, Receive, Settle, CloseQueue, Types, Table
  <2>12. CASE ReceiveExit(c)
    BY <2>12, Zenon DEF ReceiveExit, Receive, Settle, CloseQueue, Types, Table
  <2>13. CASE ReceiveError(c)
    BY <2>13, Zenon DEF ReceiveError, Receive, Settle, CloseQueue, Types, Table
  <2>14. CASE ReadOutput(c)
    BY <2>14, Zenon DEF ReadOutput, Types, Table
  <2>15. CASE LeaveOutput(c)
    BY <2>15, Zenon DEF LeaveOutput, Types, Table
  <2>16. CASE ServeStart(c)
    BY <2>16 DEF ServeStart, Answer, Types, Table
  <2>17. CASE ServeExec(c)
    BY <2>17 DEF ServeExec, Answer, Types, Table
  <2>18. CASE ServeStream(c)
    BY <2>18 DEF ServeStream, Send, Types, Table
  <2>19. CASE ServeStop(c)
    BY <2>19 DEF ServeStop, Answer, Types, Table
  <2>20. CASE CommandEnds(c)
    BY <2>20 DEF CommandEnds, Answer, Send, Streams, Types, Table
  <2>21. CASE CommandFails(c)
    BY <2>21 DEF CommandFails, Answer, Send, Streams, Types, Table
  <2>22. CASE Prints(c)
    BY <2>22, Zenon DEF Prints, Send, Streams, Types, Table
  <2>23. CASE StoppedByOther(c)
    BY <2>23, Zenon DEF StoppedByOther, Types, Table
  <2>24. CASE Kill(c)
    BY <2>24 DEF Kill, Goto, Types, Table
  <2>25. CASE GiveUp(c)
    BY <2>25 DEF GiveUp, Finish, Report, Goto, Types, Table
  <2>q. QED BY <1>1, <2>1, <2>2, <2>3, <2>4, <2>5, <2>6, <2>7, <2>8, <2>9, <2>10,
    <2>11, <2>12, <2>13, <2>14, <2>15, <2>16, <2>17, <2>18,
    <2>19, <2>20, <2>21, <2>22, <2>23, <2>24, <2>25, Zenon
    DEF Step, Main, Reads, Serves
<1>2. CASE DaemonEnds
  BY <1>2, Zenon DEF DaemonEnds, Types, Table
<1>3. CASE UNCHANGED vars
  BY <1>3, Zenon DEF vars, Types, Table
<1>q. QED BY <1>1, <1>2, <1>3, Zenon DEF Next, Step

(* What a client has been told stays the command's code.                   *)
LEMMA ResultsStep ==
  ASSUME Types, Table, Results, Travelling, [Next]_vars PROVE Results'
<1> USE DEF main, session, command, service
<1>1. ASSUME NEW c \in Clients, Step(c) PROVE Results'
  <2>1. CASE StartVM(c)
    BY <2>1 DEF StartVM, Goto, Call, Types, Results, Codes, Pending
  <2>2. CASE StartFailed(c)
    BY <2>2 DEF StartFailed, Finish, Report, Goto, Types, Results, Codes, Pending
  <2>3. CASE Exec(c)
    BY <2>3 DEF Exec, Goto, Call, Types, Results, Codes, Pending
  <2>4. CASE Started(c)
    BY <2>4 DEF Started, Goto, Types, Results, Codes, Pending
  <2>5. CASE Shell(c)
    BY <2>5 DEF Shell, Goto, Types, Results, Codes, Pending
  <2>6. CASE StartMessageFails(c)
    BY <2>6 DEF StartMessageFails, Finish, Report, Goto, Types, Results, Codes, Pending
  <2>7. CASE ExecReturns(c)
    BY <2>7 DEF ExecReturns, Report, Goto, Call, Types, Results, Codes, Pending
  <2>8. CASE SessionOver(c)
    BY <2>8 DEF SessionOver, Report, Goto, Call, Types, Results, Codes, Pending
  <2>9. CASE StopReturns(c)
    BY <2>9 DEF StopReturns, Finish, Goto, Types, Results, Codes, Pending
  <2>10. CASE CloseEarly(c)
    BY <2>10 DEF CloseEarly, Goto, Call, Types, Results, Codes, Pending
  <2>11. CASE ReceiveOutput(c)
    BY <2>11 DEF ReceiveOutput, Receive, Settle, CloseQueue, Types, Results, Codes, Pending
  <2>12. CASE ReceiveExit(c)
    <3>1. Head(stream[c]).n = result[c]
      BY <2>12, SentTail, Zenon DEF ReceiveExit, Receive, Travelling
    <3>q. QED BY <2>12, <3>1, Zenon DEF ReceiveExit, Receive, Settle, Types, Results
  <2>13. CASE ReceiveError(c)
    BY <2>13 DEF ReceiveError, Receive, Settle, CloseQueue, Types, Results, Codes, Pending
  <2>14. CASE ReadOutput(c)
    BY <2>14, Zenon DEF ReadOutput, Types, Results, Codes, Pending
  <2>15. CASE LeaveOutput(c)
    BY <2>15, Zenon DEF LeaveOutput, Types, Results, Codes, Pending
  <2>16. CASE ServeStart(c)
    BY <2>16, Zenon DEF ServeStart, Answer, Types, Results, Codes, Pending
  <2>17. CASE ServeExec(c)
    BY <2>17 DEF ServeExec, Answer, Types, Table, Results, Codes, Pending
  <2>18. CASE ServeStream(c)
    BY <2>18 DEF ServeStream, Send, Types, Results, Codes, Pending
  <2>19. CASE ServeStop(c)
    BY <2>19, Zenon DEF ServeStop, Answer, Types, Results, Codes, Pending
  <2>20. CASE CommandEnds(c)
    BY <2>20 DEF CommandEnds, Answer, Send, Streams, Types, Results, Codes, Pending
  <2>21. CASE CommandFails(c)
    BY <2>21 DEF CommandFails, Answer, Send, Streams, Types, Results, Codes, Pending
  <2>22. CASE Prints(c)
    BY <2>22, Zenon DEF Prints, Send, Streams, Types, Results, Codes, Pending
  <2>23. CASE StoppedByOther(c)
    BY <2>23, Zenon DEF StoppedByOther, Types, Results, Codes, Pending
  <2>24. CASE Kill(c)
    BY <2>24 DEF Kill, Goto, Types, Results, Codes, Pending
  <2>25. CASE GiveUp(c)
    BY <2>25 DEF GiveUp, Finish, Report, Goto, Types, Results, Pending
  <2>q. QED BY <1>1, <2>1, <2>2, <2>3, <2>4, <2>5, <2>6, <2>7, <2>8, <2>9, <2>10,
    <2>11, <2>12, <2>13, <2>14, <2>15, <2>16, <2>17, <2>18,
    <2>19, <2>20, <2>21, <2>22, <2>23, <2>24, <2>25, Zenon
    DEF Step, Main, Reads, Serves
<1>2. CASE DaemonEnds
  BY <1>2, Zenon DEF DaemonEnds, Types, Results, Codes, Pending
<1>3. CASE UNCHANGED vars
  BY <1>3, Zenon DEF vars, Types, Results, Codes, Pending
<1>q. QED BY <1>1, <1>2, <1>3, Zenon DEF Next, Step

(* A step that changes the stream of one client.                           *)
LEMMA StreamChanged ==
  ASSUME Travelling, NEW c \in Clients, Sent(stream'[c], result'[c]),
         stream' = [stream EXCEPT ![c] = stream'[c]],
         \A d \in Clients \ {c} : result'[d] = result[d],
         printed' \in [Clients -> Nat]
  PROVE  Travelling'
<1>1. stream'[c] \in Seq(Message)
  BY Zenon DEF Sent
<1>2. ASSUME NEW d \in Clients PROVE Sent(stream'[d], result'[d])
  <2>1. CASE d = c
    BY <2>1, Zenon
  <2>2. CASE d # c
    <3>1. stream'[d] = stream[d] /\ result'[d] = result[d]
      BY <2>2, Zenon DEF Travelling
    <3>q. QED BY <3>1, Zenon DEF Travelling
  <2>q. QED BY <2>1, <2>2, Zenon
<1>3. stream' \in [Clients -> Seq(Message)]
  BY <1>1, Zenon DEF Travelling
<1>q. QED BY <1>2, <1>3, Zenon DEF Travelling, Sent

(* Every message on its way stays truthful.                                *)
LEMMA TravellingStep ==
  ASSUME Types, Results, Travelling, [Next]_vars PROVE Travelling'
<1> USE DEF main, session, command, service
<1>1. ASSUME NEW c \in Clients, Step(c) PROVE Travelling'
  <2>1. CASE StartVM(c)
    BY <2>1, Zenon DEF StartVM, Goto, Call, Travelling
  <2>2. CASE StartFailed(c)
    BY <2>2, Zenon DEF StartFailed, Finish, Report, Goto, Travelling
  <2>3. CASE Exec(c)
    BY <2>3, Zenon DEF Exec, Goto, Call, Travelling
  <2>4. CASE Started(c)
    BY <2>4, Zenon DEF Started, Goto, Travelling
  <2>5. CASE Shell(c)
    <3>1. Sent(stream'[c], result'[c]) /\ result'[c] \in Nat
      <4>1. stream'[c] \in {<<>>, <<Error>>} /\ result' = result
        BY <2>5, Zenon DEF Shell, Travelling
      <4>q. QED BY <4>1, SentEmpty, Zenon DEF Types
    <3>2. /\ stream' = [stream EXCEPT ![c] = stream'[c]]
          /\ \A d \in Clients \ {c} : result'[d] = result[d]
          /\ printed' \in [Clients -> Nat]
      BY <2>5, Zenon DEF Shell, Goto, Types, Travelling
    <3>q. QED BY <3>1, <3>2, StreamChanged, Zenon
  <2>6. CASE StartMessageFails(c)
    BY <2>6, Zenon DEF StartMessageFails, Finish, Report, Goto, Travelling
  <2>7. CASE ExecReturns(c)
    BY <2>7, Zenon DEF ExecReturns, Report, Goto, Call, Travelling
  <2>8. CASE SessionOver(c)
    BY <2>8, Zenon DEF SessionOver, Report, Goto, Call, Travelling
  <2>9. CASE StopReturns(c)
    <3>1. Sent(stream'[c], result'[c]) /\ result'[c] \in Nat
      <4>1. stream'[c] \in {stream[c], <<Error>>} /\ result' = result
        BY <2>9, Zenon DEF StopReturns, Travelling
      <4>q. QED BY <4>1, SentEmpty, Zenon DEF Types, Travelling
    <3>2. /\ stream' = [stream EXCEPT ![c] = stream'[c]]
          /\ \A d \in Clients \ {c} : result'[d] = result[d]
          /\ printed' \in [Clients -> Nat]
      BY <2>9, Zenon DEF StopReturns, Finish, Goto, Types, Travelling
    <3>q. QED BY <3>1, <3>2, StreamChanged, Zenon
  <2>10. CASE CloseEarly(c)
    BY <2>10, Zenon DEF CloseEarly, Goto, Call, Travelling
  <2>11. CASE ReceiveOutput(c)
    <3>1. Sent(stream'[c], result'[c]) /\ result'[c] \in Nat
      BY <2>11, SentTail, Zenon DEF ReceiveOutput, Receive, Travelling, Types
    <3>2. /\ stream' = [stream EXCEPT ![c] = stream'[c]]
          /\ \A d \in Clients \ {c} : result'[d] = result[d]
          /\ printed' \in [Clients -> Nat]
      BY <2>11, Zenon DEF ReceiveOutput, Receive, Settle, CloseQueue, Types, Travelling
    <3>q. QED BY <3>1, <3>2, StreamChanged, Zenon
  <2>12. CASE ReceiveExit(c)
    <3>1. Sent(stream'[c], result'[c]) /\ result'[c] \in Nat
      BY <2>12, SentTail, Zenon DEF ReceiveExit, Receive, Travelling, Types
    <3>2. /\ stream' = [stream EXCEPT ![c] = stream'[c]]
          /\ \A d \in Clients \ {c} : result'[d] = result[d]
          /\ printed' \in [Clients -> Nat]
      BY <2>12, Zenon DEF ReceiveExit, Receive, Settle, CloseQueue, Types, Travelling
    <3>q. QED BY <3>1, <3>2, StreamChanged, Zenon
  <2>13. CASE ReceiveError(c)
    <3>1. Sent(stream'[c], result'[c]) /\ result'[c] \in Nat
      BY <2>13, SentTail, Zenon DEF ReceiveError, Receive, Travelling, Types
    <3>2. /\ stream' = [stream EXCEPT ![c] = stream'[c]]
          /\ \A d \in Clients \ {c} : result'[d] = result[d]
          /\ printed' \in [Clients -> Nat]
      BY <2>13, Zenon DEF ReceiveError, Receive, Settle, CloseQueue, Types, Travelling
    <3>q. QED BY <3>1, <3>2, StreamChanged, Zenon
  <2>14. CASE ReadOutput(c)
    BY <2>14, Zenon DEF ReadOutput, Travelling
  <2>15. CASE LeaveOutput(c)
    BY <2>15, Zenon DEF LeaveOutput, Travelling
  <2>16. CASE ServeStart(c)
    BY <2>16, Zenon DEF ServeStart, Answer, Travelling
  <2>17. CASE ServeExec(c)
    BY <2>17, Zenon DEF ServeExec, Answer, Travelling
  <2>18. CASE ServeStream(c)
    <3>1. Sent(stream'[c], result'[c]) /\ result'[c] \in Nat
      <4>1. /\ stream'[c] \in {stream[c], Append(stream[c], Error)}
            /\ result' = result
        BY <2>18, Zenon DEF ServeStream, Send, Travelling
      <4>q. QED BY <4>1, SentError, Zenon DEF Types, Travelling
    <3>2. /\ stream' = [stream EXCEPT ![c] = stream'[c]]
          /\ \A d \in Clients \ {c} : result'[d] = result[d]
          /\ printed' \in [Clients -> Nat]
      BY <2>18, Zenon DEF ServeStream, Send, Types, Travelling
    <3>q. QED BY <3>1, <3>2, StreamChanged, Zenon
  <2>19. CASE ServeStop(c)
    BY <2>19, Zenon DEF ServeStop, Answer, Travelling
  <2>20. CASE CommandEnds(c)
    <3>1. Sent(stream'[c], result'[c]) /\ result'[c] \in Nat
      <4>1. PICK n \in Codes :
              /\ result' = [result EXCEPT ![c] = n]
              /\ Send(c, Exit(n)) \/ UNCHANGED stream
        BY <2>20, Zenon DEF CommandEnds
      <4>2. result[c] = Pending /\ n \in Nat /\ n # Pending
        BY <2>20 DEF CommandEnds, Results, Codes, Pending
      <4>3. Sent(stream[c], n)
        BY <4>2, SentPending, Zenon DEF Travelling
      <4>4. Exit(n) \in Message /\ Exit(n).n = n
        BY <4>2, Messages, Zenon
      <4>5. stream'[c] \in {stream[c], Append(stream[c], Exit(n))}
        BY <4>1, Zenon DEF Send, Travelling
      <4>6. result'[c] = n
        BY <4>1, Zenon DEF Types
      <4>q. QED BY <4>2, <4>3, <4>4, <4>5, <4>6, SentAppend, Zenon
    <3>2. /\ stream' = [stream EXCEPT ![c] = stream'[c]]
          /\ \A d \in Clients \ {c} : result'[d] = result[d]
          /\ printed' \in [Clients -> Nat]
      BY <2>20 DEF CommandEnds, Answer, Send, Streams, Types, Travelling
    <3>q. QED BY <3>1, <3>2, StreamChanged, Zenon
  <2>21. CASE CommandFails(c)
    <3>1. Sent(stream'[c], result'[c]) /\ result'[c] \in Nat
      <4>1. /\ stream'[c] \in {stream[c], Append(stream[c], Error)}
            /\ result' = result
        BY <2>21, Zenon DEF CommandFails, Send, Travelling
      <4>q. QED BY <4>1, SentError, Zenon DEF Types, Travelling
    <3>2. /\ stream' = [stream EXCEPT ![c] = stream'[c]]
          /\ \A d \in Clients \ {c} : result'[d] = result[d]
          /\ printed' \in [Clients -> Nat]
      BY <2>21, Zenon DEF CommandFails, Answer, Send, Streams, Types, Travelling
    <3>q. QED BY <3>1, <3>2, StreamChanged, Zenon
  <2>22. CASE Prints(c)
    <3>1. Sent(stream'[c], result'[c]) /\ result'[c] \in Nat
      <4> DEFINE m == Output(printed[c] + 1)
      <4>1. m \in Message /\ m.type = "output"
        BY Messages DEF Travelling
      <4>2. stream'[c] = Append(stream[c], m) /\ result' = result
        BY <2>22, Zenon DEF Prints, Send, Travelling
      <4> HIDE DEF m
      <4>q. QED BY <4>1, <4>2, SentAppend DEF Types, Travelling
    <3>2. /\ stream' = [stream EXCEPT ![c] = stream'[c]]
          /\ \A d \in Clients \ {c} : result'[d] = result[d]
          /\ printed' \in [Clients -> Nat]
      BY <2>22 DEF Prints, Send, Streams, Types, Travelling
    <3>q. QED BY <3>1, <3>2, StreamChanged, Zenon
  <2>23. CASE StoppedByOther(c)
    BY <2>23, Zenon DEF StoppedByOther, Travelling
  <2>24. CASE Kill(c)
    <3>1. Sent(stream'[c], result'[c]) /\ result'[c] \in Nat
      BY <2>24, SentEmpty, Zenon DEF Kill, Travelling, Types
    <3>2. /\ stream' = [stream EXCEPT ![c] = stream'[c]]
          /\ \A d \in Clients \ {c} : result'[d] = result[d]
          /\ printed' \in [Clients -> Nat]
      BY <2>24, Zenon DEF Kill, Goto, Types, Travelling
    <3>q. QED BY <3>1, <3>2, StreamChanged, Zenon
  <2>25. CASE GiveUp(c)
    BY <2>25, Zenon DEF GiveUp, Finish, Report, Goto, Travelling
  <2>q. QED BY <1>1, <2>1, <2>2, <2>3, <2>4, <2>5, <2>6, <2>7, <2>8, <2>9, <2>10,
    <2>11, <2>12, <2>13, <2>14, <2>15, <2>16, <2>17, <2>18,
    <2>19, <2>20, <2>21, <2>22, <2>23, <2>24, <2>25, Zenon
    DEF Step, Main, Reads, Serves
<1>2. CASE DaemonEnds
  <2>1. PICK kept \in [Clients -> 0..MaxPrints + 1] :
          /\ \A c \in Clients : kept[c] <= Len(stream[c])
          /\ stream' = [c \in Clients |->
                          IF loop[c] = "reading"
                            THEN SubSeq(stream[c], 1, kept[c]) \o <<Error>>
                            ELSE <<>>]
    BY <1>2, Zenon DEF DaemonEnds
  <2>2. ASSUME NEW c \in Clients PROVE Sent(stream'[c], result[c])
    <3>1. kept[c] \in Nat
      BY <2>1, PrintsAssumption
    <3>q. QED BY <2>1, <3>1, SentCut, SentEmpty, Zenon DEF Travelling
  <2>3. DOMAIN stream' = Clients /\ stream' = [c \in Clients |-> stream'[c]]
    BY <2>1, Zenon
  <2>q. QED BY <1>2, <2>2, <2>3 DEF DaemonEnds, Travelling, Sent
<1>3. CASE UNCHANGED vars
  BY <1>3, Zenon DEF vars, Travelling
<1>q. QED BY <1>1, <1>2, <1>3, Zenon DEF Next, Step

(* Inv holds in every reachable state.                                     *)
LEMMA InvHolds == Spec => []Inv
<1>1. Init => Inv
  <2> SUFFICES ASSUME Init PROVE Inv
    BY Zenon
  <2>1. Types
    BY Zenon DEF Init, Types, Pending
  <2>2. Table
    BY Zenon DEF Init, Table, NeverBegan
  <2>3. Results
    BY Zenon DEF Init, Results, Pending
  <2>4. Travelling
    BY SentEmpty DEF Init, Travelling
  <2>q. QED BY <2>1, <2>2, <2>3, <2>4, Zenon DEF Inv
<1>2. Inv /\ [Next]_vars => Inv'
  BY TypesStep, TableStep, ResultsStep, TravellingStep, Zenon DEF Inv
<1>q. QED BY <1>1, <1>2, PTL DEF Spec

(* A client that ended by itself has no machine in the daemon's table, on  *)
(* every path through execCommand, shellCommand and the SDK's close but    *)
(* one: a shell that could not send its start message.                     *)
THEOREM MachineTheorem == Spec => []NoMachineLeft
<1>1. Inv => NoMachineLeft
  BY Zenon DEF Inv, Table, NoMachineLeft, NeverBegan
<1>q. QED BY <1>1, InvHolds, PTL

(* A client reports exit code 0 only for a command that ended with 0.      *)
THEOREM SuccessTheorem == Spec => []NoFalseSuccess
<1>1. Inv => NoFalseSuccess
  BY Zenon DEF Inv, Results, NoFalseSuccess
<1>q. QED BY <1>1, InvHolds, PTL
-----------------------------------------------------------------------------
(* What a session has received: chunks 1, 2, ... in order, those the       *)
(* consumer has had first, the rest in the queue.                          *)
InOrder(got, waiting) ==
  /\ got \in Seq(Nat) /\ waiting \in Seq(Nat)
  /\ \A i \in 1..Len(got) : got[i] = i
  /\ \A i \in 1..Len(waiting) : waiting[i] = Len(got) + i

(* The messages on their way to a session that has received g chunks: the  *)
(* k next ones first, in order, then the end, and an exit message comes    *)
(* only behind the last of the p chunks that were sent.                    *)
Coming(s, g, p) ==
  \E k \in 0..Len(s) :
    /\ g + k <= p
    /\ \A i \in 1..k : s[i].type = "output" /\ s[i].n = g + i
    /\ \A i \in (k + 1)..Len(s) : /\ s[i].type # "output"
                                  /\ s[i].type = "exit" => g + k = p

(* As long as the command runs nothing is missing.                         *)
Complete(s, g, p) ==
  /\ g + Len(s) = p
  /\ \A i \in 1..Len(s) : s[i].type = "output" /\ s[i].n = g + i

Received(c) == Len(shown[c]) + Len(queue[c])

(* A session that reads has everything before what is on its way.  One     *)
(* that has stopped reading misses nothing if it was told that the command *)
(* ended with 0.                                                           *)
FlowOf(c) ==
  /\ InOrder(shown[c], queue[c])
  /\ Received(c) <= printed[c]
  /\ settled[c] = 0 => Received(c) = printed[c]
  /\ loop[c] # "over" => Coming(stream[c], Received(c), printed[c])
  /\ loop[c] # "over" /\ cmd[c] # "over" =>
       Complete(stream[c], Received(c), printed[c])
  /\ cmd[c] = "none" => loop[c] = "off" /\ stream[c] = <<>> /\ settled[c] = Pending
  /\ settled[c] # Pending => loop[c] # "reading"
  /\ kind[c] = "shell" => queue[c] = <<>>
  /\ reader[c] = "waiting" => queue[c] = <<>> /\ ~closed[c]
  /\ reader[c] = "done" => queue[c] = <<>> /\ closed[c]

Flow ==
  /\ kind \in [Clients -> {"exec", "shell", "sdk"}]
  /\ closed \in [Clients -> BOOLEAN]
  /\ reader \in [Clients -> {"off", "idle", "waiting", "done", "left"}]
  /\ shown \in [Clients -> Seq(Nat)] /\ queue \in [Clients -> Seq(Nat)]
  /\ \A c \in Clients : FlowOf(c)

LEMMA ComingEmpty ==
  ASSUME NEW g \in Nat, NEW p \in Nat, g <= p
  PROVE  Coming(<<>>, g, p) /\ Coming(<<Error>>, g, p)
BY ErrorMessage DEF Coming

LEMMA CompleteComing ==
  ASSUME NEW s \in Seq(Message), NEW g \in Nat, NEW p \in Nat, Complete(s, g, p)
  PROVE  Coming(s, g, p)
BY DEF Coming, Complete

LEMMA CompletePrint ==
  ASSUME NEW s \in Seq(Message), NEW g \in Nat, NEW p \in Nat, Complete(s, g, p)
  PROVE  Complete(Append(s, Output(p + 1)), g, p + 1)
<1> DEFINE m == Output(p + 1)
<1>1. m \in Message /\ m.type = "output" /\ m.n = p + 1
  BY DEF Output, Message
<1> HIDE DEF m
<1>2. Complete(Append(s, m), g, p + 1)
  BY <1>1 DEF Complete
<1>q. QED BY <1>2, Zenon DEF m

LEMMA CompleteEnd ==
  ASSUME NEW s \in Seq(Message), NEW g \in Nat, NEW p \in Nat, Complete(s, g, p),
         NEW m \in Message, m.type # "output"
  PROVE  Coming(Append(s, m), g, p)
<1> DEFINE t == Append(s, m)
<1>1. /\ Len(t) = Len(s) + 1 /\ t[Len(s) + 1] = m
      /\ \A i \in 1..Len(s) : t[i] = s[i]
  OBVIOUS
<1>2. Len(s) \in 0..Len(t) /\ Len(s) \in Nat
  BY <1>1
<1> HIDE DEF t
<1>3. \A i \in (Len(s) + 1)..Len(t) : i = Len(s) + 1
  BY <1>1, <1>2
<1>q. QED BY <1>1, <1>2, <1>3 DEF Coming, Complete, t

LEMMA ComingOutput ==
  ASSUME NEW s \in Seq(Message), NEW g \in Nat, NEW p \in Nat, s # <<>>,
         Coming(s, g, p), Head(s).type = "output"
  PROVE  /\ Head(s).n = g + 1 /\ g + 1 <= p
         /\ Coming(Tail(s), g + 1, p)
         /\ Complete(s, g, p) => Complete(Tail(s), g + 1, p)
<1> DEFINE t == Tail(s)
<1>1. /\ Head(s) = s[1] /\ 1 \in 1..Len(s) /\ Len(t) = Len(s) - 1 /\ Len(t) \in Nat
      /\ \A i \in 1..Len(t) : t[i] = s[i + 1] /\ i + 1 \in 1..Len(s)
  OBVIOUS
<1>2. PICK k \in 0..Len(s) :
        /\ g + k <= p
        /\ \A i \in 1..k : s[i].type = "output" /\ s[i].n = g + i
        /\ \A i \in (k + 1)..Len(s) : /\ s[i].type # "output"
                                      /\ s[i].type = "exit" => g + k = p
  BY Zenon DEF Coming
<1> HIDE DEF t
<1>3. k # 0
  BY <1>1, <1>2
<1>4. Head(s).n = g + 1 /\ g + 1 <= p
  BY <1>1, <1>2, <1>3
<1>5. Coming(t, g + 1, p)
  <2> DEFINE j == k - 1
  <2>1. j \in 0..Len(t) /\ g + 1 + j = g + k
    BY <1>1, <1>2, <1>3
  <2>2. \A i \in 1..j : i \in 1..Len(t) /\ i + 1 \in 1..k /\ g + (i + 1) = g + 1 + i
    BY <1>1, <1>3
  <2>3. \A i \in (j + 1)..Len(t) : i + 1 \in (k + 1)..Len(s) /\ i \in 1..Len(t)
    BY <1>1, <1>3
  <2> HIDE DEF j
  <2>4. ASSUME NEW i \in 1..j PROVE t[i].type = "output" /\ t[i].n = g + 1 + i
    <3>1. t[i] = s[i + 1] /\ i + 1 \in 1..k /\ g + (i + 1) = g + 1 + i
      BY <1>1, <2>2, Zenon
    <3>q. QED BY <1>2, <3>1, Zenon
  <2>5. \A i \in (j + 1)..Len(t) : /\ t[i].type # "output"
                                   /\ t[i].type = "exit" => g + 1 + j = p
    BY <1>1, <1>2, <2>1, <2>3, Zenon
  <2>6. g + 1 + j <= p
    BY <1>2, <2>1, Zenon
  <2>q. QED BY <2>1, <2>4, <2>5, <2>6, Zenon DEF Coming
<1>6. ASSUME Complete(s, g, p) PROVE Complete(t, g + 1, p)
  <2>1. g + 1 + Len(t) = p
    <3>1. g + Len(s) = p /\ Len(s) \in Nat
      BY <1>6 DEF Complete
    <3>2. \A x, y \in Nat : y = x - 1 => g + 1 + y = g + x
      OBVIOUS
    <3>q. QED BY <1>1, <3>1, <3>2, Zenon
  <2>2. \A i \in Nat : g + (i + 1) = g + 1 + i
    OBVIOUS
  <2>3. \A i \in 1..Len(t) : i \in Nat
    OBVIOUS
  <2>q. QED BY <1>1, <1>6, <2>1, <2>2, <2>3, ZenonT(30) DEF Complete
<1>q. QED BY <1>4, <1>5, <1>6, Zenon DEF t

LEMMA ComingExit ==
  ASSUME NEW s \in Seq(Message), NEW g \in Nat, NEW p \in Nat, s # <<>>,
         Coming(s, g, p), Head(s).type = "exit"
  PROVE  g = p
<1>1. Head(s) = s[1] /\ 1 \in 1..Len(s)
  OBVIOUS
<1>q. QED BY <1>1 DEF Coming

LEMMA ComingCut ==
  ASSUME NEW s \in Seq(Message), NEW g \in Nat, NEW p \in Nat, Coming(s, g, p),
         NEW j \in Nat, j <= Len(s)
  PROVE  Coming(SubSeq(s, 1, j) \o <<Error>>, g, p)
<1> DEFINE t == SubSeq(s, 1, j)
           u == Append(t, Error)
<1>1. t \in Seq(Message) /\ Len(t) = j /\ \A i \in 1..j : t[i] = s[i]
  OBVIOUS
<1>2. t \o <<Error>> = u
  BY <1>1, ErrorMessage, AppendOne, Zenon
<1> HIDE DEF t
<1>3. Len(u) = j + 1 /\ u[j + 1] = Error /\ \A i \in 1..j : u[i] = s[i]
  BY <1>1, ErrorMessage
<1> HIDE DEF u
<1>4. PICK k \in 0..Len(s) :
        /\ g + k <= p
        /\ \A i \in 1..k : s[i].type = "output" /\ s[i].n = g + i
        /\ \A i \in (k + 1)..Len(s) : /\ s[i].type # "output"
                                      /\ s[i].type = "exit" => g + k = p
  BY Zenon DEF Coming
<1>5. Coming(u, g, p)
  <2>1. CASE k <= j
    <3>1. k \in 0..Len(u) /\ \A i \in 1..k : u[i] = s[i]
      BY <1>3, <2>1
    <3>2. ASSUME NEW i \in (k + 1)..Len(u)
          PROVE  u[i].type # "output" /\ (u[i].type = "exit" => g + k = p)
      <4>1. CASE i = j + 1
        BY <4>1, <1>3, ErrorMessage, Zenon
      <4>2. CASE i # j + 1
        <5>1. i \in 1..j /\ i \in (k + 1)..Len(s)
          BY <4>2, <1>3, <2>1
        <5>q. QED BY <5>1, <1>3, <1>4, Zenon
      <4>q. QED BY <4>1, <4>2, Zenon
    <3>q. QED BY <1>4, <3>1, <3>2, ZenonT(30) DEF Coming
  <2>2. CASE k > j
    <3>1. j \in 0..Len(u) /\ g + j <= p /\ \A i \in 1..j : i \in 1..k
      BY <1>3, <1>4, <2>2
    <3>2. \A i \in (j + 1)..Len(u) : i = j + 1
      BY <1>3
    <3>3. \A i \in 1..j : u[i].type = "output" /\ u[i].n = g + i
      BY <1>3, <1>4, <3>1, Zenon
    <3>4. \A i \in (j + 1)..Len(u) : u[i].type = "error"
      BY <1>3, <3>2, ErrorMessage, Zenon
    <3>q. QED BY <3>1, <3>3, <3>4, Zenon DEF Coming
  <2>q. QED BY <2>1, <2>2
<1>q. QED BY <1>2, <1>5, Zenon DEF t

(* A chunk is handed to the consumer at once, or put into the queue and    *)
(* taken out later.                                                        *)
LEMMA OrderShow ==
  ASSUME NEW got, InOrder(got, <<>>), NEW n \in Nat, n = Len(got) + 1
  PROVE  InOrder(Append(got, n), <<>>) /\ Len(Append(got, n)) = Len(got) + 1
BY DEF InOrder

LEMMA OrderQueue ==
  ASSUME NEW got, NEW w, InOrder(got, w), NEW n \in Nat, n = Len(got) + Len(w) + 1
  PROVE  InOrder(got, Append(w, n)) /\ Len(Append(w, n)) = Len(w) + 1
BY DEF InOrder

LEMMA OrderRead ==
  ASSUME NEW got, NEW w, InOrder(got, w), w # <<>>
  PROVE  /\ InOrder(Append(got, Head(w)), Tail(w))
         /\ Len(Append(got, Head(w))) + Len(Tail(w)) = Len(got) + Len(w)
<1> DEFINE n == Head(w)
           t == Tail(w)
<1>1. /\ n \in Nat /\ n = Len(got) + 1
      /\ t \in Seq(Nat) /\ Len(t) = Len(w) - 1
      /\ \A i \in 1..Len(t) : t[i] = Len(got) + 1 + i
  BY DEF InOrder
<1> HIDE DEF n, t
<1>2. InOrder(Append(got, n), t) /\ Len(Append(got, n)) = Len(got) + 1
  BY <1>1 DEF InOrder
<1>3. Len(got) + 1 + (Len(w) - 1) = Len(got) + Len(w)
  BY DEF InOrder
<1>q. QED BY <1>1, <1>2, <1>3, Zenon DEF n, t

LEMMA OrderNumbers ==
  ASSUME NEW got, NEW w, InOrder(got, w)
  PROVE  Len(got \o w) = Len(got) + Len(w) /\ got \o w = Numbers(Len(got \o w))
<1> DEFINE all == got \o w
<1>1. all \in Seq(Nat) /\ Len(all) = Len(got) + Len(w)
  BY DEF InOrder
<1>2. \A i \in 1..Len(all) : all[i] = i
  BY DEF InOrder
<1> HIDE DEF all
<1>3. all = Numbers(Len(got) + Len(w))
  <2>1. all = [i \in 1..Len(all) |-> all[i]]
    BY <1>1
  <2>q. QED BY <1>1, <1>2, <2>1, Zenon DEF Numbers
<1>q. QED BY <1>1, <1>3, Zenon DEF all

(* The steps of a client that leave its session and its command alone.     *)
LEMMA Elsewhere ==
  ASSUME NEW c \in Clients,
         \/ StartVM(c) \/ StartFailed(c) \/ Exec(c) \/ Started(c) \/ GiveUp(c)
         \/ StartMessageFails(c) \/ ExecReturns(c) \/ SessionOver(c)
         \/ CloseEarly(c) \/ ServeStart(c) \/ ServeStop(c) \/ StoppedByOther(c)
  PROVE  UNCHANGED <<kind, session, command>>
<1> USE DEF session, command
<1>1. CASE StartVM(c) \/ StartFailed(c) \/ Exec(c)
  BY <1>1, Zenon DEF StartVM, StartFailed, Exec
<1>2. CASE Started(c) \/ GiveUp(c) \/ StartMessageFails(c)
  BY <1>2, Zenon DEF Started, GiveUp, StartMessageFails
<1>3. CASE ExecReturns(c) \/ SessionOver(c) \/ CloseEarly(c)
  BY <1>3, Zenon DEF ExecReturns, SessionOver, CloseEarly
<1>4. CASE ServeStart(c) \/ ServeStop(c) \/ StoppedByOther(c)
  BY <1>4, Zenon DEF ServeStart, ServeStop, StoppedByOther
<1>q. QED BY <1>1, <1>2, <1>3, <1>4, Zenon

(* What FlowOf reads of a client.                                          *)
Same(c) ==
  /\ kind'[c] = kind[c] /\ loop'[c] = loop[c] /\ settled'[c] = settled[c]
  /\ queue'[c] = queue[c] /\ closed'[c] = closed[c] /\ reader'[c] = reader[c]
  /\ shown'[c] = shown[c] /\ stream'[c] = stream[c] /\ cmd'[c] = cmd[c]
  /\ printed'[c] = printed[c]

LEMMA SameFlow ==
  ASSUME NEW c \in Clients, FlowOf(c), Same(c) PROVE FlowOf(c)'
<1>1. Received(c)' = Received(c)
  BY Zenon DEF Received, Same
<1>q. QED BY <1>1, Zenon DEF FlowOf, Same

(* The numbers FlowOf compares.                                            *)
LEMMA FlowFacts ==
  ASSUME NEW c \in Clients, Types, Travelling, FlowOf(c)
  PROVE  /\ stream[c] \in Seq(Message)
         /\ Received(c) \in Nat /\ printed[c] \in Nat /\ Received(c) <= printed[c]
<1>1. stream[c] \in Seq(Message) /\ printed[c] \in Nat
  BY Zenon DEF Travelling
<1>2. shown[c] \in Seq(Nat) /\ queue[c] \in Seq(Nat)
  BY Zenon DEF FlowOf, InOrder
<1>3. /\ \A q \in Seq(Nat) : Len(q) \in Nat
      /\ \A x, y \in Nat : x + y \in Nat
  OBVIOUS
<1>4. Received(c) \in Nat
  BY <1>2, <1>3, Zenon DEF Received
<1>q. QED BY <1>1, <1>4, Zenon DEF FlowOf

(* A step that is about one client and keeps what it says of this one.     *)
LEMMA FlowChanged ==
  ASSUME Flow, NEW c \in Clients, FlowOf(c)',
         kind' = kind,
         closed' = [closed EXCEPT ![c] = closed'[c]], closed'[c] \in BOOLEAN,
         reader' = [reader EXCEPT ![c] = reader'[c]],
         reader'[c] \in {"off", "idle", "waiting", "done", "left"},
         shown' = [shown EXCEPT ![c] = shown'[c]],
         queue' = [queue EXCEPT ![c] = queue'[c]],
         \A d \in Clients \ {c} : Same(d)
  PROVE  Flow'
<1>1. shown'[c] \in Seq(Nat) /\ queue'[c] \in Seq(Nat)
  BY Zenon DEF FlowOf, InOrder
<1>2. /\ kind' \in [Clients -> {"exec", "shell", "sdk"}]
      /\ closed' \in [Clients -> BOOLEAN]
  BY Zenon DEF Flow
<1>3. reader' \in [Clients -> {"off", "idle", "waiting", "done", "left"}]
  BY Zenon DEF Flow
<1>4. shown' \in [Clients -> Seq(Nat)] /\ queue' \in [Clients -> Seq(Nat)]
  BY <1>1, Zenon DEF Flow
<1>5. ASSUME NEW d \in Clients PROVE FlowOf(d)'
  <2>1. CASE d = c
    BY <2>1, Zenon
  <2>2. CASE d # c
    BY <2>2, SameFlow, Zenon DEF Flow
  <2>q. QED BY <2>1, <2>2, Zenon
<1>q. QED BY <1>2, <1>3, <1>4, <1>5, Zenon DEF Flow

(* Every step keeps the chunks in order and the account of what is on its  *)
(* way.                                                                    *)
LEMMA FlowStep ==
  ASSUME Inv, Flow, [Next]_vars PROVE Flow'
<1> USE DEF main, session, command, service
<1>1. ASSUME NEW c \in Clients, Step(c) PROVE Flow'
  <2> DEFINE g == Received(c)
             p == printed[c]
  <2>0. /\ Types /\ Table /\ Results /\ Travelling /\ FlowOf(c)
        /\ stream[c] \in Seq(Message) /\ g \in Nat /\ p \in Nat /\ g <= p
        /\ closed[c] \in BOOLEAN
        /\ reader[c] \in {"off", "idle", "waiting", "done", "left"}
    BY FlowFacts, Zenon DEF Inv, Flow
  <2>1. CASE Shell(c)
    <3>1. /\ kind' = kind
          /\ closed' = [closed EXCEPT ![c] = closed'[c]] /\ closed'[c] \in BOOLEAN
          /\ reader' = [reader EXCEPT ![c] = reader'[c]]
          /\ reader'[c] \in {"off", "idle", "waiting", "done", "left"}
          /\ shown' = [shown EXCEPT ![c] = shown'[c]]
          /\ queue' = [queue EXCEPT ![c] = queue'[c]]
      BY <2>1, <2>0, Zenon DEF Shell, Goto, Flow
    <3>2. ASSUME NEW d \in Clients \ {c} PROVE Same(d)
      <4>1. /\ closed'[d] = closed[d] /\ reader'[d] = reader[d]
            /\ shown'[d] = shown[d] /\ queue'[d] = queue[d]
        BY <3>1, Zenon DEF Flow
      <4>2. stream'[d] = stream[d] /\ cmd'[d] = cmd[d] /\ printed'[d] = printed[d]
        BY <2>1, <2>0, Zenon DEF Shell, Goto, Types, Travelling
      <4>3. loop'[d] = loop[d] /\ settled'[d] = settled[d]
        BY <2>1, <2>0, Zenon DEF Shell, Goto, Types, Travelling
      <4>q. QED BY <3>1, <4>1, <4>2, <4>3, Zenon DEF Same
    <3>3. FlowOf(c)'
      <4>1. /\ cmd[c] = "none"
            /\ \/ stream'[c] = <<>> /\ cmd'[c] = "asked"
               \/ stream'[c] = <<Error>> /\ cmd'[c] = "over"
            /\ loop'[c] = "reading" /\ reader'[c] \in {"idle", "off"}
        BY <2>1, <2>0, Zenon DEF Shell, Goto, Types, Results, Travelling, Flow
      <4>2. /\ settled'[c] = settled[c] /\ queue'[c] = queue[c] /\ closed'[c] = closed[c]
            /\ shown'[c] = shown[c] /\ printed'[c] = p /\ kind'[c] = kind[c]
            /\ Received(c)' = g
        BY <2>1, Zenon DEF Shell, Goto, Received
      <4>3. Complete(<<>>, g, p) /\ settled[c] = Pending
        BY <2>0, <4>1, Zenon DEF FlowOf
      <4>4. Coming(stream'[c], g, p)
        BY <2>0, <4>1, ComingEmpty, Zenon
      <4>q. QED BY <2>0, <4>1, <4>2, <4>3, <4>4, Zenon DEF FlowOf
    <3>q. QED BY <3>1, <3>2, <3>3, FlowChanged, Zenon
  <2>2. CASE StopReturns(c)
    <3>1. /\ kind' = kind
          /\ closed' = [closed EXCEPT ![c] = closed'[c]] /\ closed'[c] \in BOOLEAN
          /\ reader' = [reader EXCEPT ![c] = reader'[c]]
          /\ reader'[c] \in {"off", "idle", "waiting", "done", "left"}
          /\ shown' = [shown EXCEPT ![c] = shown'[c]]
          /\ queue' = [queue EXCEPT ![c] = queue'[c]]
      BY <2>2, <2>0, Zenon DEF StopReturns, Finish, Goto, Flow
    <3>2. ASSUME NEW d \in Clients \ {c} PROVE Same(d)
      <4>1. /\ closed'[d] = closed[d] /\ reader'[d] = reader[d]
            /\ shown'[d] = shown[d] /\ queue'[d] = queue[d]
        BY <3>1, Zenon DEF Flow
      <4>2. stream'[d] = stream[d] /\ cmd'[d] = cmd[d] /\ printed'[d] = printed[d]
        BY <2>2, <2>0, Zenon DEF StopReturns, Finish, Goto, Types, Travelling
      <4>3. loop'[d] = loop[d] /\ settled'[d] = settled[d]
        BY <2>2, <2>0, Zenon DEF StopReturns, Finish, Goto, Types, Travelling
      <4>q. QED BY <3>1, <4>1, <4>2, <4>3, Zenon DEF Same
    <3>3. FlowOf(c)'
      <4>1. /\ settled'[c] = settled[c] /\ queue'[c] = queue[c] /\ closed'[c] = closed[c]
            /\ shown'[c] = shown[c] /\ printed'[c] = p /\ kind'[c] = kind[c]
            /\ loop'[c] = loop[c] /\ reader'[c] = reader[c] /\ Received(c)' = g
            /\ \/ stream'[c] = <<Error>> /\ cmd'[c] = "over"
               \/ stream'[c] = stream[c] /\ cmd'[c] = cmd[c]
        BY <2>2, <2>0, Zenon DEF StopReturns, Finish, Goto, Received, Types, Travelling
      <4>2. Coming(<<Error>>, g, p)
        BY <2>0, ComingEmpty, Zenon
      <4>q. QED BY <2>0, <4>1, <4>2, Zenon DEF FlowOf
    <3>q. QED BY <3>1, <3>2, <3>3, FlowChanged, Zenon
  <2>3. CASE ReceiveOutput(c)
    <3>1. /\ kind' = kind
          /\ closed' = [closed EXCEPT ![c] = closed'[c]] /\ closed'[c] \in BOOLEAN
          /\ reader' = [reader EXCEPT ![c] = reader'[c]]
          /\ reader'[c] \in {"off", "idle", "waiting", "done", "left"}
          /\ shown' = [shown EXCEPT ![c] = shown'[c]]
          /\ queue' = [queue EXCEPT ![c] = queue'[c]]
      BY <2>3, <2>0, Zenon DEF ReceiveOutput, Receive, Settle, CloseQueue, Flow
    <3>2. ASSUME NEW d \in Clients \ {c} PROVE Same(d)
      <4>1. /\ closed'[d] = closed[d] /\ reader'[d] = reader[d]
            /\ shown'[d] = shown[d] /\ queue'[d] = queue[d]
        BY <3>1, Zenon DEF Flow
      <4>2. /\ stream'[d] = stream[d] /\ cmd'[d] = cmd[d] /\ printed'[d] = printed[d]
        BY <2>3, <2>0, Zenon DEF ReceiveOutput, Receive, Travelling
      <4>3. loop'[d] = loop[d] /\ settled'[d] = settled[d]
        BY <2>3, <2>0, Zenon DEF ReceiveOutput, Settle, Types
      <4>q. QED BY <3>1, <4>1, <4>2, <4>3, Zenon DEF Same
    <3>3. FlowOf(c)'
      <4>1. /\ loop[c] = "reading" /\ stream[c] # <<>> /\ Head(stream[c]).type = "output"
            /\ stream'[c] = Tail(stream[c])
        BY <2>3, <2>0, Zenon DEF ReceiveOutput, Receive, Travelling
      <4>2. /\ kind'[c] = kind[c] /\ cmd'[c] = cmd[c] /\ printed'[c] = p
        BY <2>3, Zenon DEF ReceiveOutput
      <4>3. /\ cmd[c] # "none" /\ settled[c] = Pending /\ Coming(stream[c], g, p)
            /\ cmd[c] # "over" => Complete(stream[c], g, p)
        BY <2>0, <4>1, Zenon DEF FlowOf
      <4>4. /\ Head(stream[c]).n = g + 1 /\ g + 1 <= p
            /\ Coming(Tail(stream[c]), g + 1, p)
            /\ cmd[c] # "over" => Complete(Tail(stream[c]), g + 1, p)
        BY <2>0, <4>1, <4>3, ComingOutput, Zenon
      <4>5. g + 1 \in Nat
        BY <2>0
      <4>6. /\ InOrder(shown[c], queue[c]) /\ shown[c] \in Seq(Nat)
            /\ Len(shown[c]) \in Nat /\ Len(<<>>) = 0
        BY <2>0 DEF FlowOf, InOrder
      <4>7. CASE /\ kind[c] = "shell" \/ reader[c] = "waiting"
                 /\ shown' = [shown EXCEPT ![c] = Append(@, Head(stream[c]).n)]
                 /\ reader' = [reader EXCEPT ![c] = IF @ = "waiting" THEN "idle" ELSE @]
                 /\ UNCHANGED <<loop, settled, queue, closed>>
        <5>1. queue[c] = <<>>
          BY <2>0, <4>7, Zenon DEF FlowOf
        <5>2. g = Len(shown[c])
          BY <4>6, <5>1 DEF Received
        <5>3. /\ shown'[c] = Append(shown[c], g + 1)
              /\ reader'[c] = (IF reader[c] = "waiting" THEN "idle" ELSE reader[c])
              /\ loop'[c] = loop[c] /\ settled'[c] = Pending
              /\ queue'[c] = <<>> /\ closed'[c] = closed[c]
          BY <4>3, <4>4, <4>7, <5>1, Zenon DEF Flow
        <5>4. InOrder(shown'[c], queue'[c]) /\ Len(shown'[c]) = g + 1
          BY <4>5, <4>6, <5>1, <5>2, <5>3, OrderShow, Zenon
        <5>5. Received(c)' = g + 1
          <6>1. \A n \in Nat : n + 0 = n
            OBVIOUS
          <6>q. QED BY <4>5, <4>6, <5>3, <5>4, <6>1, Zenon DEF Received
        <5>6. reader'[c] # "waiting" /\ (reader'[c] = "done" => closed'[c])
          BY <2>0, <5>3, Zenon DEF FlowOf
        <5>q. QED BY <4>1, <4>2, <4>3, <4>4, <5>3, <5>4, <5>5, <5>6
          DEF FlowOf, Pending
      <4>8. CASE /\ kind[c] = "sdk" /\ reader[c] # "waiting" /\ ~closed[c]
                 /\ queue' = [queue EXCEPT ![c] = Append(@, Head(stream[c]).n)]
                 /\ UNCHANGED <<loop, settled, closed, reader, shown>>
        <5>1. /\ queue'[c] = Append(queue[c], g + 1)
              /\ loop'[c] = loop[c] /\ settled'[c] = Pending
              /\ shown'[c] = shown[c] /\ closed'[c] = FALSE /\ reader'[c] = reader[c]
          BY <4>3, <4>4, <4>8, <2>0, Zenon DEF Flow
        <5>2. InOrder(shown'[c], queue'[c]) /\ Len(queue'[c]) = Len(queue[c]) + 1
          BY <4>5, <4>6, <5>1, OrderQueue, Zenon DEF Received
        <5>3. Received(c)' = g + 1
          <6>1. Len(queue[c]) \in Nat
            BY <4>6 DEF InOrder
          <6>2. \A x, y \in Nat : x + (y + 1) = x + y + 1
            OBVIOUS
          <6>q. QED BY <4>6, <5>1, <5>2, <6>1, <6>2, Zenon DEF Received
        <5>4. kind[c] # "shell" /\ reader'[c] # "waiting" /\ reader'[c] # "done"
          BY <2>0, <4>8, <5>1, Zenon DEF FlowOf
        <5>q. QED BY <4>1, <4>2, <4>3, <4>4, <5>1, <5>2, <5>3, <5>4
          DEF FlowOf, Pending
      <4>9. CASE /\ kind[c] = "sdk" /\ closed[c]
                 /\ Settle(c, 1)
                 /\ UNCHANGED <<queue, shown>>
        <5>1. /\ queue'[c] = queue[c] /\ shown'[c] = shown[c] /\ Received(c)' = g
              /\ loop'[c] = "over" /\ settled'[c] = 1 /\ closed'[c] = TRUE
              /\ reader'[c] = (IF reader[c] = "waiting" THEN "done" ELSE reader[c])
          BY <2>0, <4>9, ZenonT(30) DEF Settle, CloseQueue, Received, Types, Flow
        <5>2. /\ reader'[c] # "waiting"
              /\ reader'[c] = "done" => queue'[c] = <<>> /\ closed'[c]
          BY <2>0, <5>1, Zenon DEF FlowOf
        <5>q. QED BY <2>0, <4>2, <4>3, <4>9, <5>1, <5>2 DEF FlowOf
      <4>q. QED BY <2>3, <4>7, <4>8, <4>9, Zenon DEF ReceiveOutput
    <3>q. QED BY <3>1, <3>2, <3>3, FlowChanged, Zenon
  <2>4. CASE ReceiveExit(c)
    <3>1. /\ kind' = kind
          /\ closed' = [closed EXCEPT ![c] = closed'[c]] /\ closed'[c] \in BOOLEAN
          /\ reader' = [reader EXCEPT ![c] = reader'[c]]
          /\ reader'[c] \in {"off", "idle", "waiting", "done", "left"}
          /\ shown' = [shown EXCEPT ![c] = shown'[c]]
          /\ queue' = [queue EXCEPT ![c] = queue'[c]]
      BY <2>4, <2>0, Zenon DEF ReceiveExit, Receive, Settle, CloseQueue, Flow
    <3>2. ASSUME NEW d \in Clients \ {c} PROVE Same(d)
      <4>1. /\ closed'[d] = closed[d] /\ reader'[d] = reader[d]
            /\ shown'[d] = shown[d] /\ queue'[d] = queue[d]
        BY <3>1, Zenon DEF Flow
      <4>2. stream'[d] = stream[d] /\ cmd'[d] = cmd[d] /\ printed'[d] = printed[d]
        BY <2>4, <2>0, Zenon DEF ReceiveExit, Receive, Settle, CloseQueue, Types, Travelling
      <4>3. loop'[d] = loop[d] /\ settled'[d] = settled[d]
        BY <2>4, <2>0, Zenon DEF ReceiveExit, Receive, Settle, CloseQueue, Types, Travelling
      <4>q. QED BY <3>1, <4>1, <4>2, <4>3, Zenon DEF Same
    <3>3. FlowOf(c)'
      <4>1. /\ loop[c] = "reading" /\ stream[c] # <<>>
            /\ kind'[c] = kind[c] /\ cmd'[c] = cmd[c] /\ printed'[c] = p
            /\ queue'[c] = queue[c] /\ shown'[c] = shown[c] /\ Received(c)' = g
            /\ loop'[c] = "over"
        BY <2>4, <2>0, Zenon DEF ReceiveExit, Receive, Settle, CloseQueue, Received, Types
      <4>2. /\ \/ /\ closed'[c]
                  /\ reader'[c] = (IF reader[c] = "waiting" THEN "done" ELSE reader[c])
               \/ closed'[c] = closed[c] /\ reader'[c] = reader[c]
        BY <2>4, <2>0, Zenon DEF ReceiveExit, Receive, Settle, CloseQueue, Flow
      <4>3. cmd[c] # "none" /\ Coming(stream[c], g, p)
        BY <2>0, <4>1, Zenon DEF FlowOf
      <4>4. g = p
        BY <2>4, <2>0, <4>1, <4>3, ComingExit, Zenon DEF ReceiveExit, Receive
      <4>5. /\ reader'[c] = "waiting" => queue'[c] = <<>> /\ ~closed'[c]
            /\ reader'[c] = "done" => queue'[c] = <<>> /\ closed'[c]
        BY <2>0, <4>1, <4>2, Zenon DEF FlowOf
      <4>q. QED BY <2>0, <4>1, <4>3, <4>4, <4>5, Zenon DEF FlowOf
    <3>q. QED BY <3>1, <3>2, <3>3, FlowChanged, Zenon
  <2>5. CASE ReceiveError(c)
    <3>1. /\ kind' = kind
          /\ closed' = [closed EXCEPT ![c] = closed'[c]] /\ closed'[c] \in BOOLEAN
          /\ reader' = [reader EXCEPT ![c] = reader'[c]]
          /\ reader'[c] \in {"off", "idle", "waiting", "done", "left"}
          /\ shown' = [shown EXCEPT ![c] = shown'[c]]
          /\ queue' = [queue EXCEPT ![c] = queue'[c]]
      BY <2>5, <2>0, Zenon DEF ReceiveError, Receive, Settle, CloseQueue, Flow
    <3>2. ASSUME NEW d \in Clients \ {c} PROVE Same(d)
      <4>1. /\ closed'[d] = closed[d] /\ reader'[d] = reader[d]
            /\ shown'[d] = shown[d] /\ queue'[d] = queue[d]
        BY <3>1, Zenon DEF Flow
      <4>2. stream'[d] = stream[d] /\ cmd'[d] = cmd[d] /\ printed'[d] = printed[d]
        BY <2>5, <2>0, Zenon DEF ReceiveError, Receive, Settle, CloseQueue, Types, Travelling
      <4>3. loop'[d] = loop[d] /\ settled'[d] = settled[d]
        BY <2>5, <2>0, Zenon DEF ReceiveError, Receive, Settle, CloseQueue, Types, Travelling
      <4>q. QED BY <3>1, <4>1, <4>2, <4>3, Zenon DEF Same
    <3>3. FlowOf(c)'
      <4>1. /\ loop[c] = "reading" /\ stream[c] # <<>>
            /\ kind'[c] = kind[c] /\ cmd'[c] = cmd[c] /\ printed'[c] = p
            /\ queue'[c] = queue[c] /\ shown'[c] = shown[c] /\ Received(c)' = g
            /\ loop'[c] = "over"
        BY <2>5, <2>0, Zenon DEF ReceiveError, Receive, Settle, CloseQueue, Received, Types
      <4>2. /\ \/ /\ closed'[c]
                  /\ reader'[c] = (IF reader[c] = "waiting" THEN "done" ELSE reader[c])
               \/ closed'[c] = closed[c] /\ reader'[c] = reader[c]
        BY <2>5, <2>0, Zenon DEF ReceiveError, Receive, Settle, CloseQueue, Flow
      <4>3. cmd[c] # "none" /\ Coming(stream[c], g, p)
        BY <2>0, <4>1, Zenon DEF FlowOf
      <4>4. settled'[c] = 1
        BY <2>5, <2>0, Zenon DEF ReceiveError, Receive, Settle, CloseQueue, Types
      <4>5. /\ reader'[c] = "waiting" => queue'[c] = <<>> /\ ~closed'[c]
            /\ reader'[c] = "done" => queue'[c] = <<>> /\ closed'[c]
        BY <2>0, <4>1, <4>2, Zenon DEF FlowOf
      <4>q. QED BY <2>0, <4>1, <4>3, <4>4, <4>5 DEF FlowOf
    <3>q. QED BY <3>1, <3>2, <3>3, FlowChanged, Zenon
  <2>6. CASE ReadOutput(c)
    <3>1. /\ kind' = kind
          /\ closed' = [closed EXCEPT ![c] = closed'[c]] /\ closed'[c] \in BOOLEAN
          /\ reader' = [reader EXCEPT ![c] = reader'[c]]
          /\ reader'[c] \in {"off", "idle", "waiting", "done", "left"}
          /\ shown' = [shown EXCEPT ![c] = shown'[c]]
          /\ queue' = [queue EXCEPT ![c] = queue'[c]]
      BY <2>6, <2>0, Zenon DEF ReadOutput, Flow
    <3>2. ASSUME NEW d \in Clients \ {c} PROVE Same(d)
      <4>1. /\ closed'[d] = closed[d] /\ reader'[d] = reader[d]
            /\ shown'[d] = shown[d] /\ queue'[d] = queue[d]
        BY <3>1, Zenon DEF Flow
      <4>q. QED BY <2>6, <4>1, Zenon DEF ReadOutput, Same
    <3>3. FlowOf(c)'
      <4>1. /\ kind'[c] = kind[c] /\ cmd'[c] = cmd[c] /\ printed'[c] = p
            /\ stream'[c] = stream[c] /\ loop'[c] = loop[c] /\ settled'[c] = settled[c]
            /\ closed'[c] = closed[c] /\ reader[c] = "idle"
        BY <2>6, Zenon DEF ReadOutput
      <4>2. CASE queue[c] # <<>>
        <5>1. /\ shown'[c] = Append(shown[c], Head(queue[c]))
              /\ queue'[c] = Tail(queue[c]) /\ reader'[c] = "idle"
          BY <2>6, <4>2, Zenon DEF ReadOutput, Flow
        <5>2. InOrder(shown'[c], queue'[c]) /\ Received(c)' = g
          BY <2>0, <4>2, <5>1, OrderRead, ZenonT(30) DEF FlowOf, Received
        <5>q. QED BY <2>0, <4>1, <4>2, <5>1, <5>2, Zenon DEF FlowOf
      <4>3. CASE queue[c] = <<>>
        <5>1. /\ shown'[c] = shown[c] /\ queue'[c] = <<>> /\ Received(c)' = g
              /\ reader'[c] = (IF closed[c] THEN "done" ELSE "waiting")
          BY <2>6, <4>3, Zenon DEF ReadOutput, Flow, Received
        <5>q. QED BY <2>0, <4>1, <4>3, <5>1, Zenon DEF FlowOf
      <4>q. QED BY <4>2, <4>3, Zenon
    <3>q. QED BY <3>1, <3>2, <3>3, FlowChanged, Zenon
  <2>7. CASE LeaveOutput(c)
    <3>1. /\ kind' = kind
          /\ closed' = [closed EXCEPT ![c] = closed'[c]] /\ closed'[c] \in BOOLEAN
          /\ reader' = [reader EXCEPT ![c] = reader'[c]]
          /\ reader'[c] \in {"off", "idle", "waiting", "done", "left"}
          /\ shown' = [shown EXCEPT ![c] = shown'[c]]
          /\ queue' = [queue EXCEPT ![c] = queue'[c]]
      BY <2>7, <2>0, Zenon DEF LeaveOutput, Flow
    <3>2. ASSUME NEW d \in Clients \ {c} PROVE Same(d)
      <4>1. /\ closed'[d] = closed[d] /\ reader'[d] = reader[d]
            /\ shown'[d] = shown[d] /\ queue'[d] = queue[d]
        BY <3>1, Zenon DEF Flow
      <4>2. stream'[d] = stream[d] /\ cmd'[d] = cmd[d] /\ printed'[d] = printed[d]
        BY <2>7, <2>0, Zenon DEF LeaveOutput, Types, Travelling
      <4>3. loop'[d] = loop[d] /\ settled'[d] = settled[d]
        BY <2>7, <2>0, Zenon DEF LeaveOutput, Types, Travelling
      <4>q. QED BY <3>1, <4>1, <4>2, <4>3, Zenon DEF Same
    <3>3. FlowOf(c)'
      <4>1. /\ kind'[c] = kind[c] /\ cmd'[c] = cmd[c] /\ printed'[c] = p
            /\ stream'[c] = stream[c] /\ loop'[c] = loop[c] /\ settled'[c] = settled[c]
            /\ shown'[c] = shown[c] /\ queue'[c] = queue[c] /\ Received(c)' = g
            /\ reader'[c] = "left"
        BY <2>7, Zenon DEF LeaveOutput, Received, Flow
      <4>q. QED BY <2>0, <4>1, Zenon DEF FlowOf
    <3>q. QED BY <3>1, <3>2, <3>3, FlowChanged, Zenon
  <2>8. CASE ServeExec(c)
    <3>1. /\ kind' = kind
          /\ closed' = [closed EXCEPT ![c] = closed'[c]] /\ closed'[c] \in BOOLEAN
          /\ reader' = [reader EXCEPT ![c] = reader'[c]]
          /\ reader'[c] \in {"off", "idle", "waiting", "done", "left"}
          /\ shown' = [shown EXCEPT ![c] = shown'[c]]
          /\ queue' = [queue EXCEPT ![c] = queue'[c]]
      BY <2>8, <2>0, Zenon DEF ServeExec, Flow
    <3>2. ASSUME NEW d \in Clients \ {c} PROVE Same(d)
      <4>1. /\ closed'[d] = closed[d] /\ reader'[d] = reader[d]
            /\ shown'[d] = shown[d] /\ queue'[d] = queue[d]
        BY <3>1, Zenon DEF Flow
      <4>2. stream'[d] = stream[d] /\ cmd'[d] = cmd[d] /\ printed'[d] = printed[d]
        BY <2>8, <2>0, Zenon DEF ServeExec, Types, Travelling
      <4>3. loop'[d] = loop[d] /\ settled'[d] = settled[d]
        BY <2>8, <2>0, Zenon DEF ServeExec, Types, Travelling
      <4>q. QED BY <3>1, <4>1, <4>2, <4>3, Zenon DEF Same
    <3>3. FlowOf(c)'
      <4>1. /\ kind'[c] = kind[c] /\ loop'[c] = loop[c] /\ settled'[c] = settled[c]
            /\ queue'[c] = queue[c] /\ closed'[c] = closed[c] /\ reader'[c] = reader[c]
            /\ shown'[c] = shown[c] /\ Received(c)' = g
            /\ stream'[c] = stream[c] /\ printed'[c] = p
            /\ cmd[c] = "none" /\ cmd'[c] # "over"
        BY <2>8, <2>0, Zenon DEF ServeExec, Received, Types
      <4>q. QED BY <2>0, <4>1, Zenon DEF FlowOf
    <3>q. QED BY <3>1, <3>2, <3>3, FlowChanged, Zenon
  <2>9. CASE ServeStream(c)
    <3>1. /\ kind' = kind
          /\ closed' = [closed EXCEPT ![c] = closed'[c]] /\ closed'[c] \in BOOLEAN
          /\ reader' = [reader EXCEPT ![c] = reader'[c]]
          /\ reader'[c] \in {"off", "idle", "waiting", "done", "left"}
          /\ shown' = [shown EXCEPT ![c] = shown'[c]]
          /\ queue' = [queue EXCEPT ![c] = queue'[c]]
      BY <2>9, <2>0, Zenon DEF ServeStream, Send, Flow
    <3>2. ASSUME NEW d \in Clients \ {c} PROVE Same(d)
      <4>1. /\ closed'[d] = closed[d] /\ reader'[d] = reader[d]
            /\ shown'[d] = shown[d] /\ queue'[d] = queue[d]
        BY <3>1, Zenon DEF Flow
      <4>2. stream'[d] = stream[d] /\ cmd'[d] = cmd[d] /\ printed'[d] = printed[d]
        BY <2>9, <2>0, Zenon DEF ServeStream, Send, Types, Travelling
      <4>3. loop'[d] = loop[d] /\ settled'[d] = settled[d]
        BY <2>9, <2>0, Zenon DEF ServeStream, Send, Types, Travelling
      <4>q. QED BY <3>1, <4>1, <4>2, <4>3, Zenon DEF Same
    <3>3. FlowOf(c)'
      <4>1. /\ kind'[c] = kind[c] /\ loop'[c] = loop[c] /\ settled'[c] = settled[c]
            /\ queue'[c] = queue[c] /\ closed'[c] = closed[c] /\ reader'[c] = reader[c]
            /\ shown'[c] = shown[c] /\ Received(c)' = g
            /\ printed'[c] = p /\ cmd[c] = "asked"
            /\ \/ stream'[c] = stream[c] /\ cmd'[c] = "running"
               \/ stream'[c] = Append(stream[c], Error) /\ cmd'[c] = "over"
        BY <2>9, <2>0, Zenon DEF ServeStream, Send, Received, Types, Travelling
      <4>2. loop[c] # "over" => Coming(Append(stream[c], Error), g, p)
        BY <2>0, <4>1, CompleteEnd, ErrorMessage, Zenon DEF FlowOf
      <4>q. QED BY <2>0, <4>1, <4>2, Zenon DEF FlowOf
    <3>q. QED BY <3>1, <3>2, <3>3, FlowChanged, Zenon
  <2>10. CASE CommandEnds(c)
    <3>1. /\ kind' = kind
          /\ closed' = [closed EXCEPT ![c] = closed'[c]] /\ closed'[c] \in BOOLEAN
          /\ reader' = [reader EXCEPT ![c] = reader'[c]]
          /\ reader'[c] \in {"off", "idle", "waiting", "done", "left"}
          /\ shown' = [shown EXCEPT ![c] = shown'[c]]
          /\ queue' = [queue EXCEPT ![c] = queue'[c]]
      BY <2>10, <2>0, Zenon DEF CommandEnds, Send, Flow
    <3>2. ASSUME NEW d \in Clients \ {c} PROVE Same(d)
      <4>1. /\ closed'[d] = closed[d] /\ reader'[d] = reader[d]
            /\ shown'[d] = shown[d] /\ queue'[d] = queue[d]
        BY <3>1, Zenon DEF Flow
      <4>2. stream'[d] = stream[d] /\ cmd'[d] = cmd[d] /\ printed'[d] = printed[d]
        BY <2>10, <2>0, Zenon DEF CommandEnds, Send, Types, Travelling
      <4>3. loop'[d] = loop[d] /\ settled'[d] = settled[d]
        BY <2>10, <2>0, Zenon DEF CommandEnds, Send, Types, Travelling
      <4>q. QED BY <3>1, <4>1, <4>2, <4>3, Zenon DEF Same
    <3>3. FlowOf(c)'
      <4>1. /\ kind'[c] = kind[c] /\ loop'[c] = loop[c] /\ settled'[c] = settled[c]
            /\ queue'[c] = queue[c] /\ closed'[c] = closed[c] /\ reader'[c] = reader[c]
            /\ shown'[c] = shown[c] /\ Received(c)' = g
            /\ printed'[c] = p /\ cmd[c] = "running" /\ cmd'[c] = "over"
        BY <2>10, <2>0, Zenon DEF CommandEnds, Received, Types
      <4>2. PICK n \in Codes : \/ stream'[c] = stream[c]
                              \/ stream'[c] = Append(stream[c], Exit(n))
        BY <2>10, <2>0, Zenon DEF CommandEnds, Send, Travelling
      <4>3. n \in Nat
        BY DEF Codes
      <4>4. Exit(n) \in Message /\ Exit(n).type # "output"
        BY <4>3, Messages, Zenon
      <4>5. loop[c] # "over" => Coming(Append(stream[c], Exit(n)), g, p)
        BY <2>0, <4>1, <4>4, CompleteEnd, Zenon DEF FlowOf
      <4>q. QED BY <2>0, <4>1, <4>2, <4>5, Zenon DEF FlowOf
    <3>q. QED BY <3>1, <3>2, <3>3, FlowChanged, Zenon
  <2>11. CASE CommandFails(c)
    <3>1. /\ kind' = kind
          /\ closed' = [closed EXCEPT ![c] = closed'[c]] /\ closed'[c] \in BOOLEAN
          /\ reader' = [reader EXCEPT ![c] = reader'[c]]
          /\ reader'[c] \in {"off", "idle", "waiting", "done", "left"}
          /\ shown' = [shown EXCEPT ![c] = shown'[c]]
          /\ queue' = [queue EXCEPT ![c] = queue'[c]]
      BY <2>11, <2>0, Zenon DEF CommandFails, Send, Flow
    <3>2. ASSUME NEW d \in Clients \ {c} PROVE Same(d)
      <4>1. /\ closed'[d] = closed[d] /\ reader'[d] = reader[d]
            /\ shown'[d] = shown[d] /\ queue'[d] = queue[d]
        BY <3>1, Zenon DEF Flow
      <4>2. stream'[d] = stream[d] /\ cmd'[d] = cmd[d] /\ printed'[d] = printed[d]
        BY <2>11, <2>0, Zenon DEF CommandFails, Send, Types, Travelling
      <4>3. loop'[d] = loop[d] /\ settled'[d] = settled[d]
        BY <2>11, <2>0, Zenon DEF CommandFails, Send, Types, Travelling
      <4>q. QED BY <3>1, <4>1, <4>2, <4>3, Zenon DEF Same
    <3>3. FlowOf(c)'
      <4>1. /\ kind'[c] = kind[c] /\ loop'[c] = loop[c] /\ settled'[c] = settled[c]
            /\ queue'[c] = queue[c] /\ closed'[c] = closed[c] /\ reader'[c] = reader[c]
            /\ shown'[c] = shown[c] /\ Received(c)' = g
            /\ printed'[c] = p /\ cmd[c] = "running" /\ cmd'[c] = "over"
            /\ \/ stream'[c] = stream[c]
               \/ stream'[c] = Append(stream[c], Error)
        BY <2>11, <2>0, Zenon DEF CommandFails, Send, Received, Types, Travelling
      <4>2. loop[c] # "over" => Coming(Append(stream[c], Error), g, p)
        BY <2>0, <4>1, CompleteEnd, ErrorMessage, Zenon DEF FlowOf
      <4>q. QED BY <2>0, <4>1, <4>2, Zenon DEF FlowOf
    <3>q. QED BY <3>1, <3>2, <3>3, FlowChanged, Zenon
  <2>12. CASE Prints(c)
    <3>1. /\ kind' = kind
          /\ closed' = [closed EXCEPT ![c] = closed'[c]] /\ closed'[c] \in BOOLEAN
          /\ reader' = [reader EXCEPT ![c] = reader'[c]]
          /\ reader'[c] \in {"off", "idle", "waiting", "done", "left"}
          /\ shown' = [shown EXCEPT ![c] = shown'[c]]
          /\ queue' = [queue EXCEPT ![c] = queue'[c]]
      BY <2>12, <2>0, Zenon DEF Prints, Send, Flow
    <3>2. ASSUME NEW d \in Clients \ {c} PROVE Same(d)
      <4>1. /\ closed'[d] = closed[d] /\ reader'[d] = reader[d]
            /\ shown'[d] = shown[d] /\ queue'[d] = queue[d]
        BY <3>1, Zenon DEF Flow
      <4>2. stream'[d] = stream[d] /\ cmd'[d] = cmd[d] /\ printed'[d] = printed[d]
        BY <2>12, <2>0, Zenon DEF Prints, Send, Types, Travelling
      <4>3. loop'[d] = loop[d] /\ settled'[d] = settled[d]
        BY <2>12, <2>0, Zenon DEF Prints, Send, Types, Travelling
      <4>q. QED BY <3>1, <4>1, <4>2, <4>3, Zenon DEF Same
    <3>3. FlowOf(c)'
      <4>1. /\ kind'[c] = kind[c] /\ loop'[c] = loop[c] /\ settled'[c] = settled[c]
            /\ queue'[c] = queue[c] /\ closed'[c] = closed[c] /\ reader'[c] = reader[c]
            /\ shown'[c] = shown[c] /\ Received(c)' = g
            /\ cmd[c] = "running" /\ cmd'[c] = "running"
            /\ printed'[c] = p + 1
            /\ stream'[c] = Append(stream[c], Output(p + 1))
        BY <2>12, <2>0, Zenon DEF Prints, Send, Received, Travelling
      <4>2. settled[c] # 0
        <5>1. result[c] = Pending /\ (settled[c] = 0 => result[c] = 0)
          BY <2>0, <4>1, Zenon DEF Results
        <5>q. QED BY <5>1, SMT DEF Pending
      <4>3. p + 1 \in Nat /\ g <= p + 1
        BY <2>0
      <4>4. loop[c] # "over" => Complete(stream'[c], g, p + 1)
        BY <2>0, <4>1, CompletePrint, Zenon DEF FlowOf
      <4>5. stream'[c] \in Seq(Message)
        <5>1. stream[c] \in Seq(Message)
          BY <2>0, Zenon DEF Travelling
        <5>2. Output(p + 1) \in Message
          BY <4>3, Messages, Zenon
        <5>3. stream'[c] = Append(stream[c], Output(p + 1))
          BY <4>1, Zenon
        <5>q. QED BY <5>1, <5>2, <5>3, SMTT(30)
      <4>6. loop[c] # "over" => Coming(stream'[c], g, p + 1)
        BY <2>0, <4>3, <4>4, <4>5, CompleteComing, Zenon
      <4>q. QED BY <2>0, <4>1, <4>2, <4>3, <4>4, <4>6, Zenon DEF FlowOf
    <3>q. QED BY <3>1, <3>2, <3>3, FlowChanged, Zenon
  <2>13. CASE Kill(c)
    <3>1. /\ kind' = kind
          /\ closed' = [closed EXCEPT ![c] = closed'[c]] /\ closed'[c] \in BOOLEAN
          /\ reader' = [reader EXCEPT ![c] = reader'[c]]
          /\ reader'[c] \in {"off", "idle", "waiting", "done", "left"}
          /\ shown' = [shown EXCEPT ![c] = shown'[c]]
          /\ queue' = [queue EXCEPT ![c] = queue'[c]]
      BY <2>13, <2>0, Zenon DEF Kill, Goto, Flow
    <3>2. ASSUME NEW d \in Clients \ {c} PROVE Same(d)
      <4>1. /\ closed'[d] = closed[d] /\ reader'[d] = reader[d]
            /\ shown'[d] = shown[d] /\ queue'[d] = queue[d]
        BY <3>1, Zenon DEF Flow
      <4>2. stream'[d] = stream[d] /\ cmd'[d] = cmd[d] /\ printed'[d] = printed[d]
        BY <2>13, <2>0, Zenon DEF Kill, Goto, Types, Travelling
      <4>3. loop'[d] = loop[d] /\ settled'[d] = settled[d]
        BY <2>13, <2>0, Zenon DEF Kill, Goto, Types, Travelling
      <4>q. QED BY <3>1, <4>1, <4>2, <4>3, Zenon DEF Same
    <3>3. FlowOf(c)'
      <4>1. /\ kind'[c] = kind[c] /\ loop'[c] = "off" /\ settled'[c] = settled[c]
            /\ queue'[c] = queue[c] /\ closed'[c] = closed[c] /\ reader'[c] = "off"
            /\ shown'[c] = shown[c] /\ printed'[c] = p /\ Received(c)' = g
            /\ stream'[c] = <<>> /\ cmd'[c] = "over"
        BY <2>13, <2>0, Zenon DEF Kill, Goto, Received, Types, Travelling, Flow
      <4>2. Coming(<<>>, g, p)
        BY <2>0, ComingEmpty, Zenon
      <4>q. QED BY <2>0, <4>1, <4>2, Zenon DEF FlowOf
    <3>q. QED BY <3>1, <3>2, <3>3, FlowChanged, Zenon
  <2>14. CASE UNCHANGED <<kind, session, command>>
    <3>1. \A d \in Clients : Same(d)
      BY <2>14, Zenon DEF Same
    <3>q. QED BY <2>14, <3>1, SameFlow, Zenon DEF Flow
  <2>q. QED
    BY <1>1, <2>1, <2>2, <2>3, <2>4, <2>5, <2>6, <2>7, <2>8, <2>9, <2>10, <2>11,
       <2>12, <2>13, <2>14, Elsewhere, Zenon
    DEF Step, Main, Reads, Serves
<1>2. CASE DaemonEnds
  <2>1. PICK kept \in [Clients -> 0..MaxPrints + 1] :
          /\ \A c \in Clients : kept[c] <= Len(stream[c])
          /\ stream' = [c \in Clients |->
                          IF loop[c] = "reading"
                            THEN SubSeq(stream[c], 1, kept[c]) \o <<Error>>
                            ELSE <<>>]
    BY <1>2, Zenon DEF DaemonEnds
  <2>2. ASSUME NEW c \in Clients PROVE FlowOf(c)'
    <3> DEFINE g == Received(c)
               p == printed[c]
    <3>1. /\ Types /\ FlowOf(c) /\ stream[c] \in Seq(Message)
          /\ g \in Nat /\ p \in Nat /\ g <= p
      BY FlowFacts, Zenon DEF Inv, Flow
    <3>2. /\ kind'[c] = kind[c] /\ loop'[c] = loop[c] /\ settled'[c] = settled[c]
          /\ queue'[c] = queue[c] /\ closed'[c] = closed[c] /\ reader'[c] = reader[c]
          /\ shown'[c] = shown[c] /\ printed'[c] = p /\ Received(c)' = g
          /\ cmd'[c] = (IF cmd[c] = "none" THEN "none" ELSE "over")
      BY <1>2, Zenon DEF DaemonEnds, Received
    <3>3. kept[c] \in Nat
      BY <2>1, PrintsAssumption
    <3>4. CASE loop[c] = "reading"
      <4>1. Coming(stream'[c], g, p)
        BY <2>1, <3>1, <3>3, <3>4, ComingCut, Zenon DEF FlowOf
      <4>2. cmd[c] # "none"
        BY <3>1, <3>4, Zenon DEF FlowOf
      <4>q. QED BY <3>1, <3>2, <3>4, <4>1, <4>2, Zenon DEF FlowOf
    <3>5. CASE loop[c] # "reading"
      <4>1. stream'[c] = <<>>
        BY <2>1, <3>5, Zenon
      <4>2. Coming(<<>>, g, p)
        BY <3>1, ComingEmpty, Zenon
      <4>q. QED BY <3>1, <3>2, <4>1, <4>2, Zenon DEF FlowOf
    <3>q. QED BY <3>4, <3>5, Zenon
  <2>q. QED BY <1>2, <2>2, Zenon DEF DaemonEnds, Flow
<1>3. CASE UNCHANGED vars
  <2>1. \A d \in Clients : Same(d)
    BY <1>3, Zenon DEF Same, vars
  <2>q. QED BY <1>3, <2>1, SameFlow, Zenon DEF Flow, vars
<1>q. QED BY <1>1, <1>2, <1>3, Zenon DEF Next, Step

LEMMA FlowInit == ASSUME Init PROVE Flow
<1>1. ASSUME NEW c \in Clients PROVE FlowOf(c)
  BY ComingEmpty DEF Init, FlowOf, InOrder, Received, Complete, Pending
<1>q. QED BY <1>1 DEF Init, Flow

(* Output reaches a session in order and without gaps, all of it before an *)
(* exit code 0, and a consumer that is told the end has had everything.    *)
THEOREM OutputTheorem == Spec => []OutputComplete
<1>1. Init => Flow
  BY FlowInit, Zenon
<1>2. Inv /\ Flow /\ [Next]_vars => Flow'
  BY FlowStep, Zenon
<1>3. Flow => OutputComplete
  <2> SUFFICES ASSUME Flow, NEW c \in Clients
               PROVE  /\ shown[c] \o queue[c] = Numbers(Len(shown[c] \o queue[c]))
                      /\ Len(shown[c] \o queue[c]) <= printed[c]
                      /\ settled[c] = 0 => Len(shown[c] \o queue[c]) = printed[c]
                      /\ kind[c] = "shell" \/ reader[c] = "done" => queue[c] = <<>>
    BY Zenon DEF OutputComplete
  <2>q. QED BY OrderNumbers, Zenon DEF Flow, FlowOf, Received
<1>q. QED BY <1>1, <1>2, <1>3, InvHolds, PTL DEF Spec
-----------------------------------------------------------------------------
(* Why a client ends.  A stream whose last message is an exit message or   *)
(* an error ends its reader.                                               *)
Ends(s) == s # <<>> /\ s[Len(s)].type # "output"

(* The call a place of the main thread waits for.                          *)
CallAt(place) ==
  CASE place = "starting" -> "start" [] place = "execing" -> "exec" [] OTHER -> "stop"

(* The main thread waits for an answer, or for a call that is at a running *)
(* daemon; a call of Exec waits for a command that has not ended.          *)
AnswerComes(c) ==
  /\ pc[c] \in {"starting", "execing", "stopping"} =>
       rpc[c] \in {"ok", "err"} \/ (daemonUp /\ rpc[c] = CallAt(pc[c]))
  /\ rpc[c] = "exec" => cmd[c] \in {"none", "running"}

(* A session that has not been settled is being read, and what is read     *)
(* comes to an end: the last message is there, or the daemon has still to  *)
(* send it.                                                                *)
StreamEnds(c) ==
  /\ pc[c] = "session" => loop[c] = "reading" \/ settled[c] # Pending
  /\ loop[c] = "reading" =>
       Ends(stream[c]) \/ (daemonUp /\ cmd[c] \in {"asked", "running"})

(* The consumer of a session's output waits only for a stream that is      *)
(* being read, never beside an item of the queue or on a closed one.       *)
ConsumerWoken(c) ==
  reader[c] = "waiting" => loop[c] = "reading" /\ queue[c] = <<>> /\ ~closed[c]

NobodyWaitsInVain ==
  \A c \in Clients : AnswerComes(c) /\ StreamEnds(c) /\ ConsumerWoken(c)

(* A session belongs to the loop that reads it, and the loop's end settles *)
(* the session and closes the queue; a call of Exec waits for a command    *)
(* that has not ended.                                                     *)
SessionOf(c) ==
  /\ pc[c] \in {"idle", "starting", "ready", "execing"} =>
       loop[c] = "off" /\ reader[c] = "off"
  /\ pc[c] = "starting" => rpc[c] \in {"start", "ok", "err"}
  /\ pc[c] = "execing" => rpc[c] \in {"exec", "ok", "err"}
  /\ rpc[c] \in {"start", "exec", "stop"} => daemonUp
  /\ rpc[c] = "exec" => cmd[c] \in {"none", "running"}
  /\ pc[c] = "session" => loop[c] = "reading" \/ settled[c] # Pending
  /\ loop[c] = "off" => reader[c] = "off"
  /\ loop[c] = "over" /\ kind[c] = "sdk" => closed[c]
  /\ reader[c] # "off" => kind[c] = "sdk"
  /\ reader[c] = "waiting" => loop[c] = "reading"

Waits == \A c \in Clients : SessionOf(c)

\* The end of a session's loop.
LEMMA SettledStep ==
  ASSUME Types, Waits, NEW c \in Clients, NEW n, n # Pending, Settle(c, n),
         loop[c] = "reading", UNCHANGED <<kind, pc, rpc, cmd, daemonUp>>,
         closed \in [Clients -> BOOLEAN],
         reader \in [Clients -> {"off", "idle", "waiting", "done", "left"}]
  PROVE  Waits'
<1>1. /\ loop'[c] = "over" /\ settled'[c] # Pending /\ reader'[c] # "waiting"
      /\ kind[c] = "sdk" => closed'[c]
      /\ reader[c] = "off" => reader'[c] = "off"
      /\ reader'[c] # "off" => reader[c] # "off"
  <2>1. loop'[c] = "over" /\ settled'[c] # Pending
    BY Zenon DEF Settle, Types
  <2>2. CASE kind[c] = "sdk"
    <3>1. closed'[c] /\ reader'[c] = (IF reader[c] = "waiting" THEN "done" ELSE reader[c])
      BY <2>2, Zenon DEF Settle, CloseQueue
    <3>q. QED BY <2>1, <3>1
  <2>3. CASE kind[c] # "sdk"
    <3>1. reader' = reader
      BY <2>3, Zenon DEF Settle
    <3>q. QED BY <2>1, <2>3, <3>1, Zenon DEF Waits, SessionOf
  <2>q. QED BY <2>2, <2>3, Zenon
<1>2. ASSUME NEW d \in Clients \ {c}
      PROVE  /\ loop'[d] = loop[d] /\ settled'[d] = settled[d]
             /\ closed'[d] = closed[d] /\ reader'[d] = reader[d]
  BY Zenon DEF Settle, CloseQueue, Types
<1>3. ASSUME NEW d \in Clients \ {c} PROVE SessionOf(d)'
  BY <1>2, ZenonT(30) DEF Waits, SessionOf
<1>4. SessionOf(c)'
  BY <1>1, Zenon DEF Waits, SessionOf
<1>q. QED BY <1>3, <1>4, Zenon DEF Waits

\* Every step keeps them.
LEMMA WaitsStep ==
  ASSUME Types, Table, Results, Flow, Waits, [Next]_vars,
         \A c \in Clients : ReceiveExit(c) => Head(stream[c]).n # Pending
  PROVE  Waits'
<1> USE DEF main, session, command, service
<1>0. /\ kind \in [Clients -> {"exec", "shell", "sdk"}]
      /\ closed \in [Clients -> BOOLEAN]
      /\ reader \in [Clients -> {"off", "idle", "waiting", "done", "left"}]
  BY Zenon DEF Flow
<1>1. ASSUME NEW c \in Clients, Step(c) PROVE Waits'
  <2>1. CASE StartVM(c)
    BY <2>1, <1>0 DEF StartVM, Goto, Call, Types, Waits, SessionOf
  <2>2. CASE StartFailed(c)
    BY <2>2, <1>0 DEF StartFailed, Finish, Report, Goto, Types, Waits, SessionOf
  <2>3. CASE Exec(c)
    BY <2>3, <1>0 DEF Exec, Goto, Call, Types, Results, Waits, SessionOf
  <2>4. CASE Started(c)
    BY <2>4, <1>0 DEF Started, Goto, Types, Waits, SessionOf
  <2>5. CASE Shell(c)
    BY <2>5, <1>0 DEF Shell, Goto, Types, Waits, SessionOf
  <2>6. CASE StartMessageFails(c) \/ GiveUp(c)
    BY <2>6, <1>0 DEF StartMessageFails, GiveUp, Finish, Report, Goto, Types, Waits, SessionOf
  <2>7. CASE ExecReturns(c)
    BY <2>7, <1>0 DEF ExecReturns, Report, Goto, Call, Types, Waits, SessionOf
  <2>8. CASE SessionOver(c)
    BY <2>8, <1>0 DEF SessionOver, Report, Goto, Call, Types, Waits, SessionOf
  <2>9. CASE StopReturns(c)
    BY <2>9, <1>0 DEF StopReturns, Finish, Goto, Types, Waits, SessionOf
  <2>10. CASE CloseEarly(c)
    BY <2>10, <1>0 DEF CloseEarly, Goto, Call, Types, Waits, SessionOf
  <2>11. CASE ReceiveOutput(c)
    BY <2>11, <1>0 DEF ReceiveOutput, Receive, Settle, CloseQueue, Pending, Types, Waits, SessionOf
  <2>12. CASE ReceiveExit(c)
    <3>1. /\ Settle(c, Head(stream[c]).n) /\ loop[c] = "reading"
          /\ UNCHANGED <<kind, pc, rpc, cmd, daemonUp>>
      BY <2>12, Zenon DEF ReceiveExit, Receive
    <3>q. QED BY <1>0, <2>12, <3>1, SettledStep, Zenon
  <2>13. CASE ReceiveError(c)
    <3>1. /\ Settle(c, 1) /\ loop[c] = "reading"
          /\ UNCHANGED <<kind, pc, rpc, cmd, daemonUp>>
      BY <2>13, Zenon DEF ReceiveError, Receive
    <3>2. 1 # Pending
      BY DEF Pending
    <3>q. QED BY <1>0, <3>1, <3>2, SettledStep, Zenon
  <2>14. CASE ReadOutput(c)
    BY <2>14, <1>0 DEF ReadOutput, Types, Waits, SessionOf
  <2>15. CASE LeaveOutput(c)
    BY <2>15, <1>0 DEF LeaveOutput, Types, Waits, SessionOf
  <2>16. CASE ServeStart(c)
    BY <2>16, <1>0 DEF ServeStart, Answer, Types, Waits, SessionOf
  <2>17. CASE ServeExec(c)
    BY <2>17, <1>0 DEF ServeExec, Answer, Types, Waits, SessionOf
  <2>18. CASE ServeStream(c)
    <3>1. /\ cmd[c] = "asked"
          /\ \E m \in {"running", "over"} : cmd' = [cmd EXCEPT ![c] = m]
          /\ UNCHANGED <<kind, pc, rpc, session, daemonUp>>
      BY <2>18, Zenon DEF ServeStream
    <3>q. QED BY <3>1, <1>0 DEF Types, Waits, SessionOf
  <2>19. CASE ServeStop(c)
    BY <2>19, <1>0 DEF ServeStop, Answer, Types, Waits, SessionOf
  <2>20. CASE CommandEnds(c)
    BY <2>20, <1>0 DEF CommandEnds, Answer, Send, Streams, Types, Table, Waits, SessionOf
  <2>21. CASE CommandFails(c)
    BY <2>21, <1>0 DEF CommandFails, Answer, Send, Streams, Types, Table, Waits, SessionOf
  <2>22. CASE Prints(c) \/ StoppedByOther(c)
    BY <2>22, <1>0 DEF Prints, StoppedByOther, Send, Types, Waits, SessionOf
  <2>23. CASE Kill(c)
    BY <2>23, <1>0 DEF Kill, Goto, Types, Waits, SessionOf
  <2>q. QED BY <1>1, <2>1, <2>2, <2>3, <2>4, <2>5, <2>6, <2>7, <2>8, <2>9, <2>10,
    <2>11, <2>12, <2>13, <2>14, <2>15, <2>16, <2>17, <2>18,
    <2>19, <2>20, <2>21, <2>22, <2>23, Zenon
    DEF Step, Main, Reads, Serves
<1>2. CASE DaemonEnds
  BY <1>2 DEF DaemonEnds, Types, Waits, SessionOf
<1>3. CASE UNCHANGED vars
  BY <1>3 DEF vars, Waits, SessionOf
<1>q. QED BY <1>1, <1>2, <1>3, Zenon DEF Next, Step

\* A stream whose last message ends it, and what the daemon may still add.
Comes(s, c) == Ends(s) \/ (daemonUp /\ cmd[c] \in {"asked", "running"})

LEMMA EndsAppend ==
  ASSUME NEW s \in Seq(Message), NEW m \in Message, m.type # "output"
  PROVE  Ends(Append(s, m))
<1> DEFINE t == Append(s, m)
<1>1. Len(t) = Len(s) + 1 /\ t[Len(s) + 1] = m /\ t # <<>>
  OBVIOUS
<1>q. QED BY <1>1, Zenon DEF Ends

LEMMA EndsError == Ends(<<Error>>)
BY ErrorMessage DEF Ends

LEMMA EndsCut ==
  ASSUME NEW s \in Seq(Message), NEW k \in Nat, k <= Len(s)
  PROVE  Ends(SubSeq(s, 1, k) \o <<Error>>)
<1> DEFINE t == SubSeq(s, 1, k)
<1>1. t \in Seq(Message)
  OBVIOUS
<1>2. t \o <<Error>> = Append(t, Error)
  BY <1>1, AppendOne, ErrorMessage, Zenon
<1>q. QED BY <1>1, <1>2, EndsAppend, ErrorMessage, Zenon

\* A message of output is not the last one of such a stream.
LEMMA EndsTail ==
  ASSUME NEW s \in Seq(Message), Ends(s), Head(s).type = "output"
  PROVE  Ends(Tail(s))
<1> DEFINE t == Tail(s)
<1>1. s # <<>> /\ Len(s) \in Nat /\ Len(s) # 0 /\ Head(s) = s[1]
  BY DEF Ends
<1>2. Len(s) # 1
  BY <1>1, Zenon DEF Ends
<1>3. /\ t \in Seq(Message) /\ Len(t) = Len(s) - 1
      /\ \A i \in 1..Len(t) : t[i] = s[i + 1]
  BY <1>1
<1>4. Len(t) \in 1..Len(t) /\ Len(t) + 1 = Len(s) /\ t # <<>>
  BY <1>1, <1>2, <1>3
<1>5. t[Len(t)] = s[Len(s)]
  BY <1>3, <1>4, Zenon
<1> HIDE DEF t
<1>6. Ends(t)
  BY <1>4, <1>5, Zenon DEF Ends
<1>q. QED BY <1>6, Zenon DEF t

Closing == \A c \in Clients : loop[c] = "reading" => Comes(stream[c], c)

\* A step that is about one client.
LEMMA ClosingChanged ==
  ASSUME Closing, NEW c \in Clients, daemonUp' = daemonUp,
         loop'[c] = "reading" => Comes(stream[c], c)',
         \A d \in Clients \ {c} : /\ loop'[d] = loop[d] /\ stream'[d] = stream[d]
                                  /\ cmd'[d] = cmd[d]
  PROVE  Closing'
<1> SUFFICES ASSUME NEW d \in Clients, d # c, loop'[d] = "reading"
             PROVE  Comes(stream[d], d)'
  BY Zenon DEF Closing
<1>1. loop[d] = "reading" /\ stream'[d] = stream[d] /\ cmd'[d] = cmd[d]
  BY Zenon
<1>q. QED BY <1>1, Zenon DEF Closing, Comes

LEMMA ClosingStep ==
  ASSUME Inv, Closing, [Next]_vars
  PROVE  Closing'
<1> USE DEF main, session, command, service
<1>1. ASSUME NEW c \in Clients, Step(c) PROVE Closing'
  <2>0. /\ Types /\ Table /\ Travelling
        /\ stream[c] \in Seq(Message) /\ stream \in [Clients -> Seq(Message)]
    BY Zenon DEF Inv, Travelling
  <2>1. CASE UNCHANGED <<loop, stream, cmd, daemonUp>>
    BY <2>1, Zenon DEF Closing, Comes
  <2>2. CASE Shell(c)
    <3>1. /\ cmd'[c] = (IF daemonUp THEN "asked" ELSE "over")
          /\ stream'[c] = (IF daemonUp THEN <<>> ELSE <<Error>>)
          /\ daemonUp' = daemonUp
          /\ \A d \in Clients \ {c} : /\ loop'[d] = loop[d] /\ stream'[d] = stream[d]
                                      /\ cmd'[d] = cmd[d]
      BY <2>0, <2>2, Zenon DEF Shell, Types
    <3>2. Comes(stream[c], c)'
      BY <3>1, EndsError, Zenon DEF Comes
    <3>q. QED BY <3>1, <3>2, ClosingChanged, Zenon
  <2>3. CASE StopReturns(c)
    <3>1. \/ stream'[c] = <<Error>>
          \/ UNCHANGED <<stream, cmd>>
      BY <2>0, <2>3, Zenon DEF StopReturns
    <3>2. /\ daemonUp' = daemonUp /\ loop' = loop
          /\ \A d \in Clients \ {c} : stream'[d] = stream[d] /\ cmd'[d] = cmd[d]
      BY <2>0, <2>3, Zenon DEF StopReturns, Types
    <3>3. loop'[c] = "reading" => Comes(stream[c], c)'
      BY <3>1, <3>2, EndsError, Zenon DEF Comes, Closing
    <3>q. QED BY <3>2, <3>3, ClosingChanged, Zenon
  <2>4. CASE ReceiveOutput(c)
    <3>1. /\ stream' = [stream EXCEPT ![c] = Tail(@)]
          /\ Head(stream[c]).type = "output" /\ loop[c] = "reading"
          /\ UNCHANGED <<cmd, daemonUp>>
      BY <2>4, Zenon DEF ReceiveOutput, Receive
    <3>2. UNCHANGED loop \/ Settle(c, 1)
      BY <2>4, Zenon DEF ReceiveOutput
    <3>3. \A d \in Clients \ {c} : loop'[d] = loop[d] /\ stream'[d] = stream[d]
      BY <2>0, <3>1, <3>2, Zenon DEF Types, Settle
    <3>4. Comes(stream[c], c)'
      BY <2>0, <3>1, EndsTail, Zenon DEF Closing, Comes
    <3>q. QED BY <3>1, <3>3, <3>4, ClosingChanged, Zenon
  <2>5. CASE ReceiveExit(c) \/ ReceiveError(c)
    <3>1. /\ loop' = [loop EXCEPT ![c] = "over"] /\ UNCHANGED <<cmd, daemonUp>>
          /\ stream' = [stream EXCEPT ![c] = Tail(@)]
      BY <2>5, Zenon DEF ReceiveExit, ReceiveError, Receive, Settle
    <3>2. /\ loop'[c] # "reading"
          /\ \A d \in Clients \ {c} : loop'[d] = loop[d] /\ stream'[d] = stream[d]
      BY <2>0, <3>1, Zenon DEF Types
    <3>q. QED BY <3>1, <3>2, ClosingChanged, Zenon
  <2>6. CASE Kill(c)
    <3>1. /\ loop'[c] # "reading" /\ daemonUp' = daemonUp
          /\ \A d \in Clients \ {c} : /\ loop'[d] = loop[d] /\ stream'[d] = stream[d]
                                      /\ cmd'[d] = cmd[d]
      BY <2>0, <2>6, Zenon DEF Kill, Types
    <3>q. QED BY <3>1, ClosingChanged, Zenon
  <2>7. CASE ServeExec(c) \/ Prints(c)
    <3>1. /\ UNCHANGED <<loop, daemonUp>> /\ daemonUp
          /\ \A d \in Clients \ {c} : stream'[d] = stream[d] /\ cmd'[d] = cmd[d]
      BY <2>0, <2>7, Zenon DEF ServeExec, Prints, Send, Types
    <3>2. cmd'[c] = "running" \/ UNCHANGED <<stream, cmd>>
      BY <2>0, <2>7, Zenon DEF ServeExec, Prints, Types
    <3>3. loop'[c] = "reading" => Comes(stream[c], c)'
      BY <3>1, <3>2, Zenon DEF Comes, Closing
    <3>q. QED BY <3>1, <3>3, ClosingChanged, Zenon
  <2>8. CASE ServeStream(c) \/ CommandFails(c)
    <3>1. /\ UNCHANGED <<loop, daemonUp>> /\ daemonUp
          /\ \A d \in Clients \ {c} : stream'[d] = stream[d] /\ cmd'[d] = cmd[d]
      BY <2>0, <2>8, Zenon DEF ServeStream, CommandFails, Send, Types
    <3>2. cmd'[c] = "running" \/ loop[c] = "off" \/ stream'[c] = Append(stream[c], Error)
      BY <2>0, <2>8, Zenon DEF ServeStream, CommandFails, Send, Streams, Types
    <3>3. Ends(Append(stream[c], Error))
      BY <2>0, EndsAppend, ErrorMessage
    <3>4. loop'[c] = "reading" => Comes(stream[c], c)'
      BY <3>1, <3>2, <3>3 DEF Comes
    <3>q. QED BY <3>1, <3>4, ClosingChanged, Zenon
  <2>9. CASE CommandEnds(c)
    <3>1. /\ UNCHANGED <<loop, daemonUp>>
          /\ \A d \in Clients \ {c} : stream'[d] = stream[d] /\ cmd'[d] = cmd[d]
      BY <2>0, <2>9, Zenon DEF CommandEnds, Send, Types
    <3>2. loop[c] = "off" \/ \E n \in Codes : stream'[c] = Append(stream[c], Exit(n))
      BY <2>0, <2>9, Zenon DEF CommandEnds, Send, Streams
    <3>3. ASSUME NEW n \in Codes PROVE Ends(Append(stream[c], Exit(n)))
      <4>1. Exit(n) \in Message /\ Exit(n).type # "output"
        BY Messages DEF Codes
      <4>q. QED BY <2>0, <4>1, EndsAppend, Zenon
    <3>4. loop'[c] = "reading" => Comes(stream[c], c)'
      BY <3>1, <3>2, <3>3 DEF Comes
    <3>q. QED BY <3>1, <3>4, ClosingChanged, Zenon
  <2>10. CASE ReadOutput(c) \/ LeaveOutput(c)
    BY <2>1, <2>10, Zenon DEF ReadOutput, LeaveOutput
  <2>11. CASE \/ StartVM(c) \/ StartFailed(c) \/ Exec(c) \/ Started(c) \/ GiveUp(c)
              \/ StartMessageFails(c) \/ ExecReturns(c) \/ SessionOver(c)
              \/ CloseEarly(c) \/ ServeStart(c) \/ ServeStop(c) \/ StoppedByOther(c)
    <3>1. UNCHANGED <<loop, stream, cmd>>
      BY <2>11, Elsewhere, Zenon
    <3>2. daemonUp' = daemonUp
      BY <2>11, Zenon DEF StartVM, StartFailed, Exec, Started, GiveUp, StartMessageFails,
         ExecReturns, SessionOver, CloseEarly, ServeStart, ServeStop, StoppedByOther
    <3>q. QED BY <2>1, <3>1, <3>2, Zenon
  <2>q. QED BY <1>1, <2>2, <2>3, <2>4, <2>5, <2>6, <2>7, <2>8, <2>9, <2>10, <2>11, Zenon
    DEF Step, Main, Reads, Serves
<1>2. CASE DaemonEnds
  <2>1. PICK kept \in [Clients -> 0..MaxPrints + 1] :
          /\ \A c \in Clients : kept[c] <= Len(stream[c])
          /\ stream' = [c \in Clients |->
                          IF loop[c] = "reading"
                            THEN SubSeq(stream[c], 1, kept[c]) \o <<Error>>
                            ELSE <<>>]
    BY <1>2, Zenon DEF DaemonEnds
  <2>2. loop' = loop
    BY <1>2, Zenon DEF DaemonEnds
  <2>3. ASSUME NEW c \in Clients, loop[c] = "reading" PROVE Ends(stream'[c])
    <3>1. kept[c] \in Nat /\ stream[c] \in Seq(Message)
      BY PrintsAssumption DEF Inv, Travelling
    <3>2. stream'[c] = SubSeq(stream[c], 1, kept[c]) \o <<Error>>
      BY <2>1, <2>3, Zenon
    <3>q. QED BY <2>1, <3>1, <3>2, EndsCut, Zenon
  <2>q. QED BY <2>2, <2>3, Zenon DEF Closing, Comes
<1>3. CASE UNCHANGED vars
  BY <1>3, Zenon DEF vars, Closing, Comes
<1>q. QED BY <1>1, <1>2, <1>3, Zenon DEF Next, Step

(* Whoever waits has something to wait for: an answer, the end of a stream *)
(* or an item of the queue is there, or the daemon that owes it runs.      *)
THEOREM WaitTheorem == Spec => []NobodyWaitsInVain
<1>1. Init => Flow /\ Waits /\ Closing
  BY FlowInit, ZenonT(30) DEF Init, Waits, SessionOf, Closing
<1>2. Inv /\ Flow /\ Waits /\ Closing /\ [Next]_vars => (Flow /\ Waits /\ Closing)'
  <2> SUFFICES ASSUME Inv, Flow, Waits, Closing, [Next]_vars
               PROVE  Flow' /\ Waits' /\ Closing'
    BY Zenon
  <2>1. ASSUME NEW c \in Clients, ReceiveExit(c) PROVE Head(stream[c]).n # Pending
    <3>1. Sent(stream[c], result[c]) /\ stream[c] # <<>> /\ Head(stream[c]).type = "exit"
      BY <2>1, Zenon DEF Inv, Travelling, ReceiveExit, Receive
    <3>2. ASSUME NEW s, NEW r, Sent(s, r), s # <<>>, Head(s).type = "exit"
          PROVE  Head(s).n # Pending
      BY <3>2 DEF Sent
    <3>q. QED BY <3>1, <3>2, Zenon
  <2>q. QED BY <2>1, FlowStep, WaitsStep, ClosingStep, Zenon DEF Inv
<1>3. Inv /\ Flow /\ Waits /\ Closing => NobodyWaitsInVain
  <2> SUFFICES ASSUME Inv, Flow, Waits, Closing, NEW c \in Clients
               PROVE  AnswerComes(c) /\ StreamEnds(c) /\ ConsumerWoken(c)
    BY Zenon DEF NobodyWaitsInVain
  <2>1. AnswerComes(c)
    BY Zenon DEF AnswerComes, CallAt, Inv, Table, Waits, SessionOf
  <2>2. StreamEnds(c)
    BY Zenon DEF StreamEnds, Closing, Comes, Waits, SessionOf
  <2>3. ConsumerWoken(c)
    BY Zenon DEF ConsumerWoken, Flow, FlowOf, Waits, SessionOf
  <2>q. QED BY <2>1, <2>2, <2>3, Zenon
<1>q. QED BY <1>1, <1>2, <1>3, InvHolds, PTL DEF Spec
=============================================================================
