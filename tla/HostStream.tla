----------------------------- MODULE HostStream -----------------------------
(***************************************************************************)
(* One call of Exec or ExecStream on the host backend: the command, the    *)
(* pipes or the pseudo-terminal it prints to, the reader goroutines, the   *)
(* input goroutine, the handler that waits for them all, and the client.   *)
(* Calls share no state, so one is enough.                                 *)
(*                                                                         *)
(* A chunk is what one Read returns.  The chunks of an output are numbered *)
(* in the order printed; a pipe holds the chunks after taken, up to        *)
(* printed.                                                                *)
(***************************************************************************)
EXTENDS Integers, Sequences

CONSTANTS
  Kinds,       \* the calls a run considers, a subset of AllKinds
  ExitCodes,   \* the codes a command may exit with
  MaxChunks,   \* bound: chunks printed to one output
  MaxInput,    \* bound: input messages a client sends
  Survivors,   \* whether the command may leave a child with its outputs open
  NoResult     \* no exit code sent

AllKinds == {"exec",    \* Exec: cmd.Run into buffers
             "pipes",   \* ExecStream without a terminal
             "pty"}     \* ExecStream with one

ASSUME KindsAssumption == Kinds \subseteq AllKinds
ASSUME ExitCodesAssumption == ExitCodes \subseteq Nat
ASSUME BoundsAssumption == MaxChunks \in Nat /\ MaxInput \in Nat
ASSUME SurvivorsAssumption == Survivors \in BOOLEAN
ASSUME NoResultAssumption == NoResult \notin Int

Streams == {"stdout", "stderr"}

VARIABLES
  kind,
  (* the command *)
  proc,        \* "none", "running", "ended"
  status,      \* its exit code once it ended
  child,       \* a surviving child holds the outputs open
  printed,     \* chunks printed to each output
  taken,       \* chunks read from each output
  stdin,       \* "open", or "eof" once the command meets the end
  (* the handler *)
  main,        \* the handler's step
  readEnd,     \* the daemon's end of the outputs is open
  waitCode,    \* the code cmd.Wait leads to
  cancelled,   \* the command's context is cancelled
  outputErr,   \* the channel outputErr holds an error
  (* its goroutines *)
  reader,      \* step of the reader of each output
  hand,        \* the chunk a reader is sending
  input,       \* step of the input goroutine
  eof,         \* the input message it handles ends the input
  inputs,      \* input messages received so far
  (* the client *)
  client,      \* "up" or "gone"
  got,         \* chunks of each output sent to it, or buffered by Exec
  answer       \* the exit code sent

procVars == <<proc, status, child, printed, stdin>>
inputVars == <<input, eof, inputs>>
vars == <<kind, procVars, taken, main, readEnd, waitCode, cancelled, outputErr,
          reader, hand, inputVars, client, got, answer>>

Killed == -1

TypeOK ==
  /\ kind \in Kinds
  /\ proc \in {"none", "running", "ended"}
  /\ status \in ExitCodes \union {Killed, 0}
  /\ child \in BOOLEAN
  /\ printed \in [Streams -> Nat]
  /\ taken \in [Streams -> Nat]
  /\ stdin \in {"open", "eof"}
  /\ main \in {"idle", "start", "refuse", "wait", "close", "join", "reply",
               "returned", "failed"}
  /\ readEnd \in BOOLEAN
  /\ waitCode \in ExitCodes \union {Killed, 0, 1, 127}
  /\ cancelled \in BOOLEAN
  /\ outputErr \in BOOLEAN
  /\ reader \in [Streams -> {"none", "loop", "read", "send", "done"}]
  /\ hand \in [Streams -> Nat]
  /\ input \in {"none", "recv", "write", "done"}
  /\ eof \in BOOLEAN
  /\ inputs \in Nat
  /\ client \in {"up", "gone"}
  /\ got \in [Streams -> Seq(Nat)]
  /\ answer \in Int \union {NoResult}

Init ==
  /\ kind \in Kinds
  /\ proc = "none" /\ status = 0 /\ child = FALSE
  /\ printed = [s \in Streams |-> 0]
  /\ taken = [s \in Streams |-> 0]
  /\ stdin = "open"
  /\ main = "idle" /\ readEnd = FALSE /\ waitCode = 0
  /\ cancelled = FALSE /\ outputErr = FALSE
  /\ reader = [s \in Streams |-> "none"]
  /\ hand = [s \in Streams |-> 0]
  /\ input = "none" /\ eof = FALSE /\ inputs = 0
  /\ client = "up"
  /\ got = [s \in Streams |-> <<>>]
  /\ answer = NoResult

IsStream == kind # "exec"
Finished == main \in {"returned", "failed"}

(* A terminal is one file: what the command prints to either output comes  *)
(* from it, and there is no reader for stderr.                             *)
Outputs == IF kind = "pty" THEN {"stdout"} ELSE Streams

\* Mutant: both readers read standard output.
StderrReadsStdout(s) == "stdout"

(* The output the reader labelled s reads. *)
Source(s) == s

WritersOpen == proc = "running" \/ child

-----------------------------------------------------------------------------
(* The handler.                                                            *)

Call ==
  /\ main = "idle"
  /\ main' = "start"
  /\ UNCHANGED <<kind, procVars, taken, readEnd, waitCode, cancelled, outputErr,
                 reader, hand, inputVars, client, got, answer>>

(* The command starts.  Exec's readers are os/exec's copying goroutines,   *)
(* which look at no context.                                               *)
StartCommand ==
  /\ main = "start" /\ ~cancelled
  /\ main' = "wait"
  /\ proc' = "running"
  /\ readEnd' = TRUE
  /\ reader' = [s \in Streams |->
                  IF s \in Outputs THEN (IF IsStream THEN "loop" ELSE "read")
                                   ELSE "none"]
  /\ input' = IF IsStream THEN "recv" ELSE "none"
  /\ UNCHANGED <<kind, status, child, printed, stdin, taken, waitCode,
                 cancelled, outputErr, hand, eof, inputs, client, got, answer>>

(* The command is not there, or the context has ended already.             *)
StartFails ==
  /\ main = "start"
  /\ main' = "refuse"
  /\ waitCode' = IF cancelled /\ ~IsStream THEN 1 ELSE 127
  /\ UNCHANGED <<kind, procVars, taken, readEnd, cancelled, outputErr,
                 reader, hand, inputVars, client, got, answer>>

(* The error text goes to stderr (it is no chunk of the command), then the *)
(* code; failing to send either changes nothing.                           *)
Refuse ==
  /\ main = "refuse"
  /\ main' = "returned"
  /\ answer' = IF client = "up" THEN waitCode ELSE answer
  /\ UNCHANGED <<kind, procVars, taken, readEnd, waitCode, cancelled, outputErr,
                 reader, hand, inputVars, client, got>>

ReadersDone == \A s \in Outputs : reader[s] = "done"

\* Mutant: the copying goroutines are not waited for.
WaitIgnoresCopying ==
  /\ main = "wait"
  /\ proc = "ended"
  /\ waitCode' \in {status} \union (IF cancelled /\ status = 0 THEN {1} ELSE {})
  /\ main' = CASE kind = "pty" -> "close" [] kind = "pipes" -> "join"
               [] OTHER -> "reply"
  /\ readEnd' = (readEnd /\ kind # "pipes")
  /\ UNCHANGED <<kind, procVars, taken, cancelled, outputErr,
                 reader, hand, inputVars, client, got, answer>>

\* Mutant: the error of Wait is dropped.
WaitErrorLost ==
  /\ main = "wait"
  /\ proc = "ended"
  /\ kind = "exec" => ReadersDone
  /\ waitCode' = 0
  /\ main' = CASE kind = "pty" -> "close" [] kind = "pipes" -> "join"
               [] OTHER -> "reply"
  /\ readEnd' = (readEnd /\ kind # "pipes")
  /\ UNCHANGED <<kind, procVars, taken, cancelled, outputErr,
                 reader, hand, inputVars, client, got, answer>>

(* cmd.Wait reaps the command.  With StdoutPipe and StderrPipe it then     *)
(* closes the read ends, unread chunks or not; with buffers (cmd.Run) it   *)
(* first waits for the copying goroutines.  A kill that reaches a command  *)
(* which has just exited with 0 makes it report the cancellation.          *)
Wait ==
  /\ main = "wait"
  /\ proc = "ended"
  /\ kind = "exec" => ReadersDone
  /\ waitCode' \in {status} \union (IF cancelled /\ status = 0 THEN {1} ELSE {})
  /\ main' = CASE kind = "pty" -> "close" [] kind = "pipes" -> "join"
               [] OTHER -> "reply"
  /\ readEnd' = (readEnd /\ kind # "pipes")
  /\ UNCHANGED <<kind, procVars, taken, cancelled, outputErr,
                 reader, hand, inputVars, client, got, answer>>

ClosePty ==
  /\ main = "close"
  /\ main' = "join"
  /\ readEnd' = FALSE
  /\ UNCHANGED <<kind, procVars, taken, waitCode, cancelled, outputErr,
                 reader, hand, inputVars, client, got, answer>>

\* Mutant: the readers are not waited for.
NoJoin ==
  /\ main = "join"
  /\ main' = "reply"
  /\ UNCHANGED <<kind, procVars, taken, readEnd, waitCode, cancelled, outputErr,
                 reader, hand, inputVars, client, got, answer>>

\* Mutant: a terminal waits for both readers.
JoinsBothReaders ==
  /\ main = "join"
  /\ \A s \in Streams : reader[s] = "done"
  /\ main' = "reply"
  /\ UNCHANGED <<kind, procVars, taken, readEnd, waitCode, cancelled, outputErr,
                 reader, hand, inputVars, client, got, answer>>

(* wg.Wait *)
Join ==
  /\ main = "join"
  /\ ReadersDone
  /\ main' = "reply"
  /\ UNCHANGED <<kind, procVars, taken, readEnd, waitCode, cancelled, outputErr,
                 reader, hand, inputVars, client, got, answer>>

(* The exit code is sent, and an error a reader left makes the stream end  *)
(* with it.  ExecStream cancels its context as it returns.                 *)
SendExit ==
  /\ main = "reply"
  /\ answer' = IF client = "up" THEN waitCode ELSE answer
  /\ main' = IF (IsStream /\ client = "gone") \/ outputErr THEN "failed"
                                                          ELSE "returned"
  /\ cancelled' = (cancelled \/ IsStream)
  /\ UNCHANGED <<kind, procVars, taken, readEnd, waitCode, outputErr,
                 reader, hand, inputVars, client, got>>

Handler ==
  \/ Call \/ StartCommand \/ StartFails \/ Refuse \/ Wait \/ ClosePty \/ Join
  \/ SendExit

-----------------------------------------------------------------------------
(* readOutput, and for Exec the copying goroutines.                        *)

CheckContext(s) ==
  /\ reader[s] = "loop"
  /\ reader' = [reader EXCEPT ![s] = IF cancelled THEN "done" ELSE "read"]
  /\ UNCHANGED <<kind, procVars, taken, main, readEnd, waitCode, cancelled,
                 outputErr, hand, inputVars, client, got, answer>>

(* A Read under way on a terminal may still return data after the close.   *)
Read(s) ==
  /\ reader[s] = "read"
  /\ readEnd \/ kind = "pty"
  /\ taken[Source(s)] < printed[Source(s)]
  /\ taken' = [taken EXCEPT ![Source(s)] = @ + 1]
  /\ hand' = [hand EXCEPT ![s] = taken[Source(s)] + 1]
  /\ reader' = [reader EXCEPT ![s] = "send"]
  /\ UNCHANGED <<kind, procVars, main, readEnd, waitCode, cancelled, outputErr,
                 inputVars, client, got, answer>>

(* End of file, EIO of a terminal nobody holds, or ErrClosed. *)
ReadEnds(s) ==
  /\ reader[s] = "read"
  /\ ~readEnd \/ (taken[Source(s)] = printed[Source(s)] /\ ~WritersOpen)
  /\ reader' = [reader EXCEPT ![s] = "done"]
  /\ UNCHANGED <<kind, procVars, taken, main, readEnd, waitCode, cancelled,
                 outputErr, hand, inputVars, client, got, answer>>

ReadFails(s) ==
  /\ reader[s] = "read"
  /\ IsStream
  /\ outputErr' = TRUE
  /\ reader' = [reader EXCEPT ![s] = "done"]
  /\ UNCHANGED <<kind, procVars, taken, main, readEnd, waitCode, cancelled,
                 hand, inputVars, client, got, answer>>

SendChunk(s) ==
  /\ reader[s] = "send"
  /\ ~IsStream \/ client = "up"
  /\ got' = [got EXCEPT ![s] = Append(@, hand[s])]
  /\ hand' = [hand EXCEPT ![s] = 0]
  /\ reader' = [reader EXCEPT ![s] = IF IsStream THEN "loop" ELSE "read"]
  /\ UNCHANGED <<kind, procVars, taken, main, readEnd, waitCode, cancelled,
                 outputErr, inputVars, client, answer>>

SendFails(s) ==
  /\ reader[s] = "send"
  /\ IsStream /\ client = "gone"
  /\ cancelled' = TRUE
  /\ outputErr' = TRUE
  /\ hand' = [hand EXCEPT ![s] = 0]
  /\ reader' = [reader EXCEPT ![s] = "done"]
  /\ UNCHANGED <<kind, procVars, taken, main, readEnd, waitCode, inputVars,
                 client, got, answer>>

ReadOutput(s) ==
  \/ CheckContext(s) \/ Read(s) \/ ReadEnds(s) \/ ReadFails(s)
  \/ SendChunk(s) \/ SendFails(s)

-----------------------------------------------------------------------------
(* The input goroutine.  It has no part in wg: the handler returns without *)
(* it, and its Receive then fails.  Clients send well-formed messages.     *)

Receive(ends) ==
  /\ input = "recv"
  /\ client = "up" /\ ~Finished
  /\ inputs < MaxInput
  /\ inputs' = inputs + 1
  /\ eof' = ends
  /\ input' = "write"
  /\ UNCHANGED <<kind, procVars, taken, main, readEnd, waitCode, cancelled,
                 outputErr, reader, hand, client, got, answer>>

(* stdin.Write, then sendEof.  Writing to a command or a terminal that has *)
(* gone fails, which is ignored.  On a terminal the end of input is a byte *)
(* that ends it only at the start of a line.  The end of the client's      *)
(* stream (io.EOF) is a message that only ends the input; a change of the  *)
(* window's size leaves this state alone.                                  *)
HandleInput ==
  /\ input = "write"
  /\ stdin' \in IF eof /\ proc = "running" /\ readEnd
               THEN (IF kind = "pty" THEN {stdin, "eof"} ELSE {"eof"})
               ELSE {stdin}
  /\ input' = IF eof THEN "done" ELSE "recv"
  /\ eof' = FALSE
  /\ UNCHANGED <<kind, proc, status, child, printed, taken, main, readEnd,
                 waitCode, cancelled, outputErr, reader, hand, inputs, client,
                 got, answer>>

ReceiveFails ==
  /\ input = "recv"
  /\ client = "gone" \/ Finished
  /\ cancelled' = TRUE
  /\ input' = "done"
  /\ UNCHANGED <<kind, procVars, taken, main, readEnd, waitCode, outputErr,
                 reader, hand, eof, inputs, client, got, answer>>

Input == (\E ends \in BOOLEAN : Receive(ends)) \/ HandleInput \/ ReceiveFails

-----------------------------------------------------------------------------
(* The command, and os/exec's watch on the context.                        *)

Prints(s) ==
  /\ WritersOpen
  /\ s \in Outputs
  /\ readEnd
  /\ printed[s] < MaxChunks
  /\ printed' = [printed EXCEPT ![s] = @ + 1]
  /\ UNCHANGED <<kind, proc, status, child, stdin, taken, main, readEnd,
                 waitCode, cancelled, outputErr, reader, hand, inputVars,
                 client, got, answer>>

LeaveChild ==
  /\ Survivors
  /\ proc = "running" /\ ~child
  /\ child' = TRUE
  /\ UNCHANGED <<kind, proc, status, printed, stdin, taken, main, readEnd,
                 waitCode, cancelled, outputErr, reader, hand, inputVars,
                 client, got, answer>>

ChildEnds ==
  /\ child
  /\ child' = FALSE
  /\ UNCHANGED <<kind, proc, status, printed, stdin, taken, main, readEnd,
                 waitCode, cancelled, outputErr, reader, hand, inputVars,
                 client, got, answer>>

Ends(code) ==
  /\ proc = "running"
  /\ proc' = "ended"
  /\ status' = code
  /\ UNCHANGED <<kind, child, printed, stdin, taken, main, readEnd,
                 waitCode, cancelled, outputErr, reader, hand, inputVars,
                 client, got, answer>>

ProcessEnds == \E code \in ExitCodes : Ends(code)

Kill == cancelled /\ Ends(Killed)

Process ==
  (\E s \in Streams : Prints(s)) \/ LeaveChild \/ ChildEnds \/ ProcessEnds \/ Kill

-----------------------------------------------------------------------------
(* The client leaves, and the server cancels the context of its call.      *)

ClientGoes ==
  /\ main # "idle" /\ client = "up" /\ ~Finished
  /\ client' = "gone"
  /\ UNCHANGED <<kind, procVars, taken, main, readEnd, waitCode, cancelled,
                 outputErr, reader, hand, inputVars, got, answer>>

ContextEnds ==
  /\ client = "gone" /\ ~cancelled
  /\ cancelled' = TRUE
  /\ UNCHANGED <<kind, procVars, taken, main, readEnd, waitCode, outputErr,
                 reader, hand, inputVars, client, got, answer>>

Next ==
  \/ Handler
  \/ \E s \in Streams : ReadOutput(s)
  \/ Input
  \/ Process
  \/ ClientGoes \/ ContextEnds

Spec == Init /\ [][Next]_vars

(* Fairness.  Every goroutine that can run is scheduled, os/exec kills a   *)
(* running command when its context ends, and a client reads what it is    *)
(* sent or leaves.  A command ends once it has met the end of its input.   *)
(* Nothing is assumed of a command whose input is open, of a surviving     *)
(* child, or of a Read of a closed terminal that a child still holds.      *)
HandlerStep ==
  StartCommand \/ StartFails \/ Refuse \/ Wait \/ ClosePty \/ Join \/ SendExit

ReaderStep(s) ==
  \/ CheckContext(s) \/ Read(s) \/ SendChunk(s) \/ SendFails(s)
  \/ ~(kind = "pty" /\ child) /\ ReadEnds(s)

Fairness ==
  /\ WF_vars(HandlerStep)
  /\ \A s \in Streams : WF_vars(ReaderStep(s))
  /\ WF_vars(HandleInput) /\ WF_vars(ReceiveFails)
  /\ WF_vars(Kill) /\ WF_vars(stdin = "eof" /\ ProcessEnds)
  /\ WF_vars(ContextEnds)

FairSpec == Spec /\ Fairness

-----------------------------------------------------------------------------
(* What the call promises its caller is what ExecBackend says.             *)
Phase ==
  CASE main = "idle" -> "idle"
    [] answer # NoResult -> "exited"
    [] Finished /\ answer = NoResult -> "failed"
    [] OTHER -> "running"

Backend == INSTANCE ExecBackend WITH
  Calls <- {"call"},
  Outputs <- Streams,
  status <- [c \in {"call"} |-> Phase],
  printed <- [c \in {"call"} |-> printed],
  received <- [c \in {"call"} |-> got],
  exit <- [c \in {"call"} |-> IF proc = "none" THEN waitCode ELSE status],
  result <- [c \in {"call"} |-> answer]

(* A call on the host backend is a call as ExecBackend specifies it:       *)
(* readers, Wait and the exit message interleave so that no chunk follows  *)
(* the exit code, and the code is the command's.                           *)
ImplementsBackend == Backend!Spec

(* Each output reaches the client without a gap: what was received is a    *)
(* prefix of what was printed, whatever reader fails or is cut off         *)
(* (readOutput stops at its first error).                                  *)
PrefixReceived ==
  \A s \in Streams : \A i \in 1 .. Len(got[s]) : got[s][i] = i

(* "exec returns buffered output": when Exec returns, it has all that the  *)
(* command and the children it left printed (cmd.Run with buffers).        *)
ExecComplete ==
  kind = "exec" /\ Finished => \A s \in Streams : Len(got[s]) = printed[s]

(* When a call returns its command has ended and no reader is left, so     *)
(* nothing is sent on a stream whose handler has returned.                 *)
NothingLeft ==
  Finished => /\ proc # "running"
              /\ \A s \in Streams : reader[s] \in {"none", "done"}

(* A call returns after its command, even if a child keeps the pipes of a  *)
(* stream open; Exec and terminals need the child to end too.  A client    *)
(* ends a command run on pipes: by ending its input (sendEof closes stdin) *)
(* or by leaving, which cancels the context and kills it.                  *)
CallReturns ==
  /\ proc = "ended" /\ (kind = "pipes" \/ ~child) ~> Finished
  /\ kind = "pipes" /\ (cancelled \/ (input = "write" /\ eof)) ~> Finished
=============================================================================
