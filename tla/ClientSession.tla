--------------------------- MODULE ClientSession ---------------------------
(***************************************************************************)
(* The clients of the daemon and the service they call: klitka exec and    *)
(* klitka shell (cli/main.go), a program that uses the TypeScript Sandbox  *)
(* and its ShellSession (sdk/src/client.ts), and the four handlers of      *)
(* daemon/service.go with the table of machines.                           *)
(*                                                                         *)
(* Every client starts one machine, runs one command in it - by Exec, or   *)
(* by ExecStream, whose messages arrive in order - and stops the machine.  *)
(* Meanwhile another process may stop that machine (klitka stop), the      *)
(* client may be killed, and the daemon may end.  What the machine does    *)
(* with the command is HostStream's and VmExec's matter; here it prints,   *)
(* ends with an exit code, or fails.                                       *)
(***************************************************************************)
EXTENDS Naturals, Sequences

CONSTANTS Clients,
          MaxPrints   \* bound: chunks of output of a command

ASSUME PrintsAssumption == MaxPrints \in Nat

VARIABLES kind,      \* "exec", "shell" or "sdk"
          pc,        \* where the client's main thread is
          rpc,       \* its unary call: at the daemon, or answered
          code,      \* the exit code the client reports
          loop,      \* the goroutine or async function that reads the stream
          settled,   \* exitCodeCh/readErrCh, or the exit promise
          queue,     \* outputQueue of a ShellSession
          closed,    \* outputQueue.closed
          reader,    \* the consumer of ShellSession.output
          shown,     \* chunks printed or handed to the consumer
          stream,    \* messages of ExecStream on their way to the client
          cmd,       \* the command in the machine
          printed,   \* how many chunks of its output the backend has sent
          result,    \* the exit code it ended with
          vms,       \* the machine in Service.vms
          daemonUp

vars == <<kind, pc, rpc, code, loop, settled, queue, closed, reader, shown, stream,
          cmd, printed, result, vms, daemonUp>>

Pending == 99   \* no exit code yet
Codes == {0, 1}
Output(n) == [type |-> "output", n |-> n]
Exit(c) == [type |-> "exit", n |-> c]
Error == [type |-> "error", n |-> 0]

Init == /\ kind \in [Clients -> {"exec", "shell", "sdk"}]
        /\ pc = [c \in Clients |-> "idle"]
        /\ rpc = [c \in Clients |-> "none"]
        /\ code = [c \in Clients |-> Pending]
        /\ loop = [c \in Clients |-> "off"]
        /\ settled = [c \in Clients |-> Pending]
        /\ queue = [c \in Clients |-> <<>>]
        /\ closed = [c \in Clients |-> FALSE]
        /\ reader = [c \in Clients |-> "off"]
        /\ shown = [c \in Clients |-> <<>>]
        /\ stream = [c \in Clients |-> <<>>]
        /\ cmd = [c \in Clients |-> "none"]
        /\ printed = [c \in Clients |-> 0]
        /\ result = [c \in Clients |-> Pending]
        /\ vms = [c \in Clients |-> FALSE]
        /\ daemonUp = TRUE

main == <<pc, rpc, code>>
session == <<loop, settled, queue, closed, reader, shown>>
command == <<stream, cmd, printed, result>>
service == <<vms, daemonUp>>

(* A call reaches the daemon, or fails at once when there is none.         *)
Call(c, method) ==
  rpc' = [rpc EXCEPT ![c] = IF daemonUp THEN method ELSE "err"]
Goto(c, place) == pc' = [pc EXCEPT ![c] = place]
Report(c, n) == code' = [code EXCEPT ![c] = n]

(* os.Exit, log.Fatalf or the end of main: every thread ends with it.      *)
Finish(c) == /\ Goto(c, "done")
             /\ rpc' = [rpc EXCEPT ![c] = "none"]

-----------------------------------------------------------------------------
(* The command line is wrong, or there is no way to reach a daemon.        *)
GiveUp(c) ==
  /\ pc[c] = "idle"
  /\ Finish(c) /\ Report(c, 1)
  /\ UNCHANGED <<kind, session, command, service>>

(* execCommand, shellCommand and Sandbox.start begin alike.                *)
StartVM(c) ==
  /\ pc[c] = "idle"
  /\ Goto(c, "starting")
  /\ Call(c, "start")
  /\ UNCHANGED <<kind, code, session, command, service>>

StartFailed(c) ==
  /\ pc[c] = "starting" /\ rpc[c] = "err"
  /\ Finish(c) /\ Report(c, 1)
  /\ UNCHANGED <<kind, session, command, service>>

(* execCommand goes on to Exec; Sandbox.exec is called by the program.     *)
Exec(c) ==
  /\ \/ kind[c] = "exec" /\ pc[c] = "starting" /\ rpc[c] = "ok"
     \/ kind[c] = "sdk" /\ pc[c] = "ready"
  /\ Goto(c, "execing")
  /\ Call(c, "exec")
  /\ UNCHANGED <<kind, code, session, command, service>>

Started(c) ==
  /\ kind[c] = "sdk" /\ pc[c] = "starting" /\ rpc[c] = "ok"
  /\ Goto(c, "ready")
  /\ UNCHANGED <<kind, rpc, code, session, command, service>>

(* shellCommand goes on to ExecStream and Sandbox.shell is called by the   *)
(* program; both send the start message and begin to read.                 *)
Shell(c) ==
  /\ \/ kind[c] = "shell" /\ pc[c] = "starting" /\ rpc[c] = "ok"
     \/ kind[c] = "sdk" /\ pc[c] = "ready"
  /\ Goto(c, "session")
  /\ rpc' = [rpc EXCEPT ![c] = "none"]
  /\ cmd' = [cmd EXCEPT ![c] = IF daemonUp THEN "asked" ELSE "over"]
  /\ stream' = [stream EXCEPT ![c] = IF daemonUp THEN <<>> ELSE <<Error>>]
  /\ loop' = [loop EXCEPT ![c] = "reading"]
  /\ reader' = [reader EXCEPT ![c] = IF kind[c] = "sdk" THEN "idle" ELSE "off"]
  /\ UNCHANGED <<kind, code, settled, queue, closed, shown, printed, result, service>>

(* shellCommand gives up when the start message cannot be sent, because    *)
(* the daemon has ended or the stream could not be opened: log.Fatalf, and *)
(* nobody stops the machine.                                               *)
StartMessageFails(c) ==
  /\ kind[c] = "shell" /\ pc[c] = "starting" /\ rpc[c] = "ok"
  /\ Finish(c) /\ Report(c, 1)
  /\ UNCHANGED <<kind, session, command, service>>

(* Mutant of ExecReturns: log.Fatalf before the machine is stopped.        *)
FatalBeforeStop(c) ==
  /\ pc[c] = "execing"
  /\ \/ rpc[c] = "ok" /\ Report(c, result[c]) /\ Goto(c, "stopping") /\ Call(c, "stop")
     \/ rpc[c] = "err" /\ Report(c, 1) /\ Finish(c)
  /\ UNCHANGED <<kind, session, command, service>>

(* execCommand stops the machine whether Exec failed or not; a program     *)
(* that uses the SDK calls close.                                          *)
ExecReturns(c) ==
  /\ pc[c] = "execing"
  /\ \/ rpc[c] = "ok" /\ Report(c, result[c])
     \/ rpc[c] = "err" /\ Report(c, 1)
  /\ Goto(c, "stopping")
  /\ Call(c, "stop")
  /\ UNCHANGED <<kind, session, command, service>>

(* shellCommand's select, or a program that awaits ShellSession.exit and   *)
(* closes the sandbox.                                                     *)
SessionOver(c) ==
  /\ pc[c] = "session" /\ settled[c] # Pending
  /\ Report(c, settled[c])
  /\ Goto(c, "stopping")
  /\ Call(c, "stop")
  /\ UNCHANGED <<kind, session, command, service>>

(* A program may close the sandbox while the session goes on.              *)
CloseEarly(c) ==
  /\ kind[c] = "sdk"
  /\ pc[c] = "session" /\ settled[c] = Pending
  /\ Goto(c, "stopping")
  /\ Call(c, "stop")
  /\ UNCHANGED <<kind, code, session, command, service>>

(* An error of StopVM is logged, or thrown by close.  With the transport   *)
(* that close closes otherwise, or with the process, the stream ends.      *)
StopReturns(c) ==
  /\ pc[c] = "stopping" /\ rpc[c] \in {"ok", "err"}
  /\ Finish(c)
  /\ \/ /\ kind[c] = "sdk" /\ rpc[c] = "ok" /\ loop[c] = "reading"
        /\ stream' = [stream EXCEPT ![c] = <<Error>>]
        /\ cmd' = [cmd EXCEPT ![c] = "over"]
     \/ /\ ~(kind[c] = "sdk" /\ rpc[c] = "ok" /\ loop[c] = "reading")
        /\ UNCHANGED <<stream, cmd>>
  /\ UNCHANGED <<kind, code, session, printed, result, service>>

-----------------------------------------------------------------------------
(* The thread that reads the stream.                                       *)
Receive(c, type) ==
  /\ loop[c] = "reading"
  /\ stream[c] # <<>> /\ Head(stream[c]).type = type
  /\ stream' = [stream EXCEPT ![c] = Tail(@)]

(* AsyncQueue.close: a consumer that waits is told that there is no more.  *)
CloseQueue(c) ==
  /\ closed' = [closed EXCEPT ![c] = TRUE]
  /\ reader' = [reader EXCEPT ![c] = IF @ = "waiting" THEN "done" ELSE @]

(* The loop's finally clause, or the end of shellCommand's goroutine.      *)
Settle(c, n) ==
  /\ settled' = [settled EXCEPT ![c] = n]
  /\ loop' = [loop EXCEPT ![c] = "over"]
  /\ IF kind[c] = "sdk" THEN CloseQueue(c) ELSE UNCHANGED <<closed, reader>>

(* shellCommand writes the chunk; the SDK pushes it to the queue, which    *)
(* hands it to a consumer that waits.  A consumer that has left closed the *)
(* queue: push throws, and the exit promise is rejected.                   *)
ReceiveOutput(c) ==
  /\ Receive(c, "output")
  /\ LET chunk == Head(stream[c]).n IN
     \/ /\ kind[c] = "shell" \/ reader[c] = "waiting"
        /\ shown' = [shown EXCEPT ![c] = Append(@, chunk)]
        /\ reader' = [reader EXCEPT ![c] = IF @ = "waiting" THEN "idle" ELSE @]
        /\ UNCHANGED <<loop, settled, queue, closed>>
     \/ /\ kind[c] = "sdk" /\ reader[c] # "waiting" /\ ~closed[c]
        /\ queue' = [queue EXCEPT ![c] = Append(@, chunk)]
        /\ UNCHANGED <<loop, settled, closed, reader, shown>>
     \/ /\ kind[c] = "sdk" /\ closed[c]
        /\ Settle(c, 1)
        /\ UNCHANGED <<queue, shown>>
  /\ UNCHANGED <<kind, main, cmd, printed, result, service>>

ReceiveExit(c) ==
  /\ Receive(c, "exit")
  /\ Settle(c, Head(stream[c]).n)
  /\ UNCHANGED <<kind, main, queue, shown, cmd, printed, result, service>>

(* Mutant of ReceiveError: the error is taken for the end of the stream.   *)
ErrorIsEof(c) ==
  /\ Receive(c, "error")
  /\ loop' = [loop EXCEPT ![c] = "over"]
  /\ UNCHANGED <<kind, main, settled, closed, reader, queue, shown, cmd, printed,
                 result, service>>

(* Mutant of ReceiveError: the error settles nothing but the exit code.    *)
ErrorIsSuccess(c) ==
  /\ Receive(c, "error")
  /\ Settle(c, 0)
  /\ UNCHANGED <<kind, main, queue, shown, cmd, printed, result, service>>

(* shellCommand reports 1, the exit promise is rejected.                   *)
ReceiveError(c) ==
  /\ Receive(c, "error")
  /\ Settle(c, 1)
  /\ UNCHANGED <<kind, main, queue, shown, cmd, printed, result, service>>

(* Mutant of ReadOutput: a closed queue is looked at before its items.     *)
ClosedFirst(c) ==
  /\ reader[c] = "idle"
  /\ \/ /\ ~closed[c] /\ queue[c] # <<>>
        /\ shown' = [shown EXCEPT ![c] = Append(@, Head(queue[c]))]
        /\ queue' = [queue EXCEPT ![c] = Tail(@)]
        /\ UNCHANGED reader
     \/ /\ closed[c] \/ queue[c] = <<>>
        /\ reader' = [reader EXCEPT ![c] = IF closed[c] THEN "done" ELSE "waiting"]
        /\ UNCHANGED <<shown, queue>>
  /\ UNCHANGED <<kind, main, loop, settled, closed, command, service>>

(* AsyncQueue's next, called by the consumer of ShellSession.output: the   *)
(* items first, then the end, otherwise a promise that push or close       *)
(* resolves.                                                               *)
ReadOutput(c) ==
  /\ reader[c] = "idle"
  /\ \/ /\ queue[c] # <<>>
        /\ shown' = [shown EXCEPT ![c] = Append(@, Head(queue[c]))]
        /\ queue' = [queue EXCEPT ![c] = Tail(@)]
        /\ UNCHANGED reader
     \/ /\ queue[c] = <<>>
        /\ reader' = [reader EXCEPT ![c] = IF closed[c] THEN "done" ELSE "waiting"]
        /\ UNCHANGED <<shown, queue>>
  /\ UNCHANGED <<kind, main, loop, settled, closed, command, service>>

(* A consumer that leaves its loop calls the iterator's return.            *)
LeaveOutput(c) ==
  /\ reader[c] = "idle"
  /\ reader' = [reader EXCEPT ![c] = "left"]
  /\ closed' = [closed EXCEPT ![c] = TRUE]
  /\ UNCHANGED <<kind, main, loop, settled, queue, shown, command, service>>

-----------------------------------------------------------------------------
Answer(c, answer) == rpc' = [rpc EXCEPT ![c] = answer]
Send(c, message) == stream' = [stream EXCEPT ![c] = Append(@, message)]

(* Service.StartVM.  It does not look at its context, so it ends as usual  *)
(* when the client is gone.                                                *)
ServeStart(c) ==
  /\ daemonUp /\ rpc[c] = "start"
  /\ \/ Answer(c, "ok") /\ vms' = [vms EXCEPT ![c] = TRUE]
     \/ Answer(c, "err") /\ UNCHANGED vms
  /\ UNCHANGED <<kind, pc, code, session, command, daemonUp>>

(* Service.Exec: a machine that is not in the table is an error.           *)
ServeExec(c) ==
  /\ daemonUp /\ rpc[c] = "exec" /\ cmd[c] = "none"
  /\ \/ vms[c] /\ cmd' = [cmd EXCEPT ![c] = "running"] /\ UNCHANGED rpc
     \/ ~vms[c] /\ Answer(c, "err") /\ UNCHANGED cmd
  /\ UNCHANGED <<kind, pc, code, session, stream, printed, result, service>>

(* Service.ExecStream, with the start message.                             *)
ServeStream(c) ==
  /\ daemonUp /\ cmd[c] = "asked"
  /\ \/ vms[c] /\ cmd' = [cmd EXCEPT ![c] = "running"] /\ UNCHANGED stream
     \/ ~vms[c] /\ cmd' = [cmd EXCEPT ![c] = "over"] /\ Send(c, Error)
  /\ UNCHANGED <<kind, main, session, printed, result, service>>

Streams(c) == loop[c] # "off"

Prints(c) ==
  /\ daemonUp /\ cmd[c] = "running" /\ Streams(c) /\ printed[c] < MaxPrints
  /\ printed' = [printed EXCEPT ![c] = @ + 1]
  /\ Send(c, Output(printed[c] + 1))
  /\ UNCHANGED <<kind, main, session, cmd, result, service>>

(* The command ends: Exec answers, ExecStream sends the exit message last. *)
CommandEnds(c) ==
  /\ daemonUp /\ cmd[c] = "running"
  /\ cmd' = [cmd EXCEPT ![c] = "over"]
  /\ \E n \in Codes :
       /\ result' = [result EXCEPT ![c] = n]
       /\ \/ Streams(c) /\ Send(c, Exit(n)) /\ UNCHANGED rpc
          \/ ~Streams(c) /\ Answer(c, "ok") /\ UNCHANGED stream
  /\ UNCHANGED <<kind, pc, code, session, printed, service>>

(* The backend fails, because its machine has died or is being closed.     *)
CommandFails(c) ==
  /\ daemonUp /\ cmd[c] = "running"
  /\ cmd' = [cmd EXCEPT ![c] = "over"]
  /\ \/ Streams(c) /\ Send(c, Error) /\ UNCHANGED rpc
     \/ ~Streams(c) /\ Answer(c, "err") /\ UNCHANGED stream
  /\ UNCHANGED <<kind, pc, code, session, printed, result, service>>

(* Service.StopVM: a machine that is not in the table is an error; closing *)
(* one may fail, but it has left the table.                                *)
ServeStop(c) ==
  /\ daemonUp /\ rpc[c] = "stop"
  /\ \/ vms[c] /\ \E answer \in {"ok", "err"} : Answer(c, answer)
     \/ ~vms[c] /\ Answer(c, "err")
  /\ vms' = [vms EXCEPT ![c] = FALSE]
  /\ UNCHANGED <<kind, pc, code, session, command, daemonUp>>

(* stopCommand of another process, with the identifier of this machine.    *)
StoppedByOther(c) ==
  /\ daemonUp /\ vms[c]
  /\ vms' = [vms EXCEPT ![c] = FALSE]
  /\ UNCHANGED <<kind, main, session, command, daemonUp>>

-----------------------------------------------------------------------------
(* A client is killed: its calls are cancelled and its streams reset.      *)
(* StartVM and StopVM ignore that, a command is ended by it.               *)
Kill(c) ==
  /\ pc[c] \notin {"idle", "done", "killed"}
  /\ Goto(c, "killed")
  /\ rpc' = [rpc EXCEPT ![c] = IF @ \in {"start", "stop"} THEN @ ELSE "none"]
  /\ loop' = [loop EXCEPT ![c] = "off"]
  /\ reader' = [reader EXCEPT ![c] = "off"]
  /\ stream' = [stream EXCEPT ![c] = <<>>]
  /\ cmd' = [cmd EXCEPT ![c] = "over"]
  /\ UNCHANGED <<kind, code, settled, queue, closed, shown, printed, result, service>>

(* The daemon ends: calls in progress fail, and the messages a stream had  *)
(* not delivered may be lost.                                              *)
DaemonEnds ==
  /\ daemonUp
  /\ daemonUp' = FALSE
  /\ rpc' = [c \in Clients |-> IF rpc[c] \in {"start", "exec", "stop"}
                                 THEN "err" ELSE rpc[c]]
  /\ \E kept \in [Clients -> 0..MaxPrints + 1] :
       /\ \A c \in Clients : kept[c] <= Len(stream[c])
       /\ stream' = [c \in Clients |->
                       IF loop[c] = "reading"
                         THEN SubSeq(stream[c], 1, kept[c]) \o <<Error>>
                         ELSE <<>>]
  /\ cmd' = [c \in Clients |-> IF cmd[c] = "none" THEN "none" ELSE "over"]
  /\ vms' = [c \in Clients |-> FALSE]
  /\ UNCHANGED <<kind, pc, code, session, printed, result>>

Main(c) == \/ GiveUp(c) \/ StartVM(c) \/ StartFailed(c) \/ Exec(c) \/ Started(c)
           \/ Shell(c)
           \/ StartMessageFails(c) \/ ExecReturns(c) \/ SessionOver(c)
           \/ StopReturns(c)
Reads(c) == ReceiveOutput(c) \/ ReceiveExit(c) \/ ReceiveError(c)
Serves(c) == \/ ServeStart(c) \/ ServeExec(c) \/ ServeStream(c) \/ ServeStop(c)
             \/ CommandEnds(c) \/ CommandFails(c)

Next == \/ \E c \in Clients : \/ Main(c) \/ CloseEarly(c) \/ Reads(c) \/ ReadOutput(c)
                             \/ LeaveOutput(c) \/ Serves(c) \/ Prints(c)
                             \/ StoppedByOther(c) \/ Kill(c)
        \/ DaemonEnds

Spec == Init /\ [][Next]_vars

(* Threads run and handlers return.  A command ends sooner or later, or its *)
(* machine dies; nothing is assumed of a command whose machine was stopped *)
(* under it, because a VM backend may then never answer.                   *)
FairSpec ==
  /\ Spec
  /\ \A c \in Clients :
       /\ WF_vars(Main(c)) /\ WF_vars(Reads(c)) /\ WF_vars(ReadOutput(c))
       /\ WF_vars(ServeStart(c) \/ ServeExec(c) \/ ServeStream(c) \/ ServeStop(c))
       /\ WF_vars(vms[c] /\ (CommandEnds(c) \/ CommandFails(c)))

-----------------------------------------------------------------------------
Numbers(n) == [i \in 1..n |-> i]

\* A klitka shell that never came to read its stream.
NeverBegan(c) == kind[c] = "shell" /\ loop[c] = "off"

(* A client that ended by itself has no machine in the daemon's table,     *)
(* whatever failed on the way, another's stop of its machine included.     *)
(* The one exception is a klitka shell whose start message could not be    *)
(* sent: it leaves its machine running.  Clients that are killed are not   *)
(* meant here; they leave theirs too.                                      *)
NoMachineLeft ==
  \A c \in Clients : pc[c] = "done" => ~vms[c] \/ NeverBegan(c)

(* A client reports success only for a command that ended with 0: an error *)
(* of the stream, a stopped machine or the end of the daemon never looks   *)
(* like one.                                                               *)
NoFalseSuccess == \A c \in Clients : code[c] = 0 => result[c] = 0

(* Output is shown in order and without gaps.  When the session ends with  *)
(* exit code 0 all of it has been shown, or waits in the queue for the     *)
(* consumer, and a consumer that is told the end has had everything.       *)
OutputComplete ==
  \A c \in Clients :
    LET got == shown[c] \o queue[c] IN
    /\ got = Numbers(Len(got)) /\ Len(got) <= printed[c]
    /\ settled[c] = 0 => Len(got) = printed[c]
    /\ kind[c] = "shell" \/ reader[c] = "done" => queue[c] = <<>>

(* Every client that has begun ends, and so does its session, also when    *)
(* the daemon ends: the stream brings an exit message or an error, and     *)
(* either wakes the main thread or settles the promise, and closing the    *)
(* sandbox ends a session that goes on.  The one exception is a command    *)
(* whose machine was stopped under it by another process, or by a close    *)
(* that failed.                                                            *)
ClientEnds ==
  \A c \in Clients :
    pc[c] # "idle" ~> \/ pc[c] \in {"done", "killed"} /\ loop[c] # "reading"
                     \/ /\ cmd[c] = "running" /\ ~vms[c]
                        /\ pc[c] \in {"execing", "session", "done"}
=============================================================================
