------------------------------- MODULE Sandboxd -------------------------------
(***************************************************************************)
(* sandboxd, the agent in the guest (guest/src/main.zig).  It is one       *)
(* thread: main reads a frame, handleExec runs that command to its end     *)
(* while relaying output, stdin and terminal sizes, and main reads on.     *)
(* While a command runs, frames are read only if its stdin is open, and    *)
(* then by handleStdin, which expects input for that command only.         *)
(***************************************************************************)
EXTENDS VirtioPort

CONSTANT WireCap   \* frames in flight at which handleExec stops reading output

ASSUME SandboxdAssumption == WireCap \in Nat \ {0}

VARIABLES
  job,       \* <<>>, or the one command handleExec is running
  printed,   \* history: chunks printed under each request id
  exitOf     \* history: exit code of the command run under each id

guestVars == <<job, printed, exitOf>>

(* stdinOpen is the local stdin_open: the virtio port is polled for input. *)
(* sawEof says that the process itself has met the end of its input; the   *)
(* two differ under a pty, where a failed read leaves the terminal open.   *)
(* outOpen is stdout_open or stderr_open; outReadable says that their      *)
(* descriptors are still valid.                                            *)
Job == [id : Ids, pty : BOOLEAN, stdinOpen : BOOLEAN, sawEof : BOOLEAN,
        outOpen : BOOLEAN, outReadable : BOOLEAN, exited : BOOLEAN]

SandboxdTypeOK ==
  /\ job = <<>> \/ \E j \in Job : job = <<j>>
  /\ printed \in [Ids -> 0 .. MaxOut]
  /\ exitOf \in [Ids -> Codes]

SandboxdInit ==
  /\ job = <<>>
  /\ printed = [i \in Ids |-> 0]
  /\ exitOf = [i \in Ids |-> CHOOSE c \in Codes : TRUE]

Idle == guestUp /\ job = <<>>
Running == guestUp /\ job # <<>>
Current == job[1]

-----------------------------------------------------------------------------
(* main and the first half of handleExec: an exec_request is taken and its *)
(* process forked.  A pty implies stdin; without stdin the process reads   *)
(* /dev/null, so it is at the end of its input from the start.             *)
StartExec ==
  /\ Idle
  /\ toGuest # <<>>
  /\ LET req == Head(toGuest)
         wantsStdin == req.stdin \/ req.pty
     IN /\ req.t = "exec_request"
        /\ toGuest' = Tail(toGuest)
        /\ job' = <<[id |-> req.id, pty |-> req.pty,
                     stdinOpen |-> wantsStdin, sawEof |-> ~wantsStdin,
                     outOpen |-> TRUE, outReadable |-> TRUE, exited |-> FALSE]>>
  /\ UNCHANGED <<toHost, connOpen, guestUp, printed, exitOf>>

(* handleExec returns an error before the fork (pipe2, forkpty, the        *)
(* environment): main answers for that id and goes on.                     *)
StartExecFails ==
  /\ Idle
  /\ toGuest # <<>>
  /\ Head(toGuest).t = "exec_request"
  /\ toGuest' = Tail(toGuest)
  /\ GuestWrite(ErrorFrame(Head(toGuest).id))
  /\ UNCHANGED <<connOpen, guestUp, job, printed, exitOf>>

(* main gets a frame that is not an exec_request, input for a command that *)
(* has ended: decodeExecRequest fails and error 0 is sent.                 *)
RejectFrame ==
  /\ Idle
  /\ toGuest # <<>>
  /\ Head(toGuest).t # "exec_request"
  /\ toGuest' = Tail(toGuest)
  /\ GuestWrite(ErrorFrame(0))
  /\ UNCHANGED <<connOpen, guestUp, job, printed, exitOf>>

(* A chunk of stdout or stderr is read and framed, unless the writer is    *)
(* full (backpressure).                                                    *)
RelayOutput ==
  /\ Running
  /\ Current.outOpen /\ Current.outReadable
  /\ printed[Current.id] < MaxOut
  /\ Len(toHost) < WireCap
  /\ LET n == printed[Current.id] + 1
     IN /\ printed' = [printed EXCEPT ![Current.id] = n]
        /\ GuestWrite(ExecOutput(Current.id, n))
  /\ UNCHANGED <<toGuest, connOpen, guestUp, job, exitOf>>

(* Both output descriptors reach their end.  Under a pty they are the      *)
(* terminal, so input ends with them.                                      *)
OutputEnds ==
  /\ Running
  /\ Current.outOpen /\ Current.outReadable
  /\ job' = <<[Current EXCEPT !.outOpen = FALSE,
                              !.stdinOpen = @ /\ ~Current.pty,
                              !.sawEof = @ \/ Current.pty]>>
  /\ UNCHANGED <<portVars, printed, exitOf>>

\* The process ends and waitpid collects its status (parseStatus).
ProcessExits ==
  /\ Running
  /\ ~Current.exited
  /\ job' = <<[Current EXCEPT !.exited = TRUE]>>
  /\ \E c \in Codes : exitOf' = [exitOf EXCEPT ![Current.id] = c]
  /\ UNCHANGED <<portVars, printed>>

(* handleStdin takes the next frame.  Input for this command is written to *)
(* the process; an eof closes its stdin, or types EOT under a pty.  A      *)
(* process that no longer reads makes the write fail; any other frame, an  *)
(* exec_request or input for another id, makes decodeInputMessage fail:    *)
(* the frame is gone and input is no longer read.                          *)
HandleStdin ==
  /\ Running
  /\ Current.stdinOpen
  /\ toGuest # <<>>
  /\ toGuest' = Tail(toGuest)
  /\ \E written \in BOOLEAN :
       LET m == Head(toGuest)
           taken == /\ m.t # "exec_request" /\ m.id = Current.id
                    /\ m.t = "pty_resize" \/ written
           eof == taken /\ m.t = "stdin_data" /\ m.eof
       IN job' = <<[Current EXCEPT
                      !.stdinOpen = taken /\ ~eof,
                      !.sawEof = @ \/ eof \/ (~taken /\ ~Current.pty)]>>
  /\ UNCHANGED <<toHost, connOpen, guestUp, printed, exitOf>>

(* handleStdin reads end of stream: the daemon closed the port.  Under a   *)
(* pty the descriptor it closes is also the one output is read from, whose *)
(* end poll then never reports.                                            *)
StdinHangsUp ==
  /\ Running
  /\ Current.stdinOpen
  /\ toGuest = <<>> /\ ~connOpen
  /\ job' = <<[Current EXCEPT !.stdinOpen = FALSE, !.sawEof = TRUE,
                              !.outReadable = ~Current.pty]>>
  /\ UNCHANGED <<portVars, printed, exitOf>>

\* The loop of handleExec is over: the exit status is sent.
SendResponse ==
  /\ Running
  /\ Current.exited /\ ~Current.outOpen
  /\ GuestWrite(ExecResponse(Current.id, exitOf[Current.id]))
  /\ job' = <<>>
  /\ UNCHANGED <<toGuest, connOpen, guestUp, printed, exitOf>>

\* Mutant: the error is sent but the loop goes on and answers again.
AbortGoesOn ==
  /\ Running
  /\ GuestWrite(ErrorFrame(Current.id))
  /\ UNCHANGED <<toGuest, connOpen, guestUp, job, printed, exitOf>>

(* A read, poll or allocation in the loop fails: main answers with an      *)
(* error and no longer looks at the process.                               *)
ExecAborts ==
  /\ Running
  /\ GuestWrite(ErrorFrame(Current.id))
  /\ job' = <<>>
  /\ UNCHANGED <<toGuest, connOpen, guestUp, printed, exitOf>>
=============================================================================
