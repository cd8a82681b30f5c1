----------------------------- MODULE VirtioClient -----------------------------
(***************************************************************************)
(* virtioClient (daemon/virtio.go) and its users, vmBackend.Exec and       *)
(* vmBackend.ExecStream (daemon/vm_backend.go).  The processes are the     *)
(* goroutines of the RPC calls, the input goroutine of each ExecStream,    *)
(* the client's readLoop, and StopVM, which closes the client.  They share *)
(* the table reqs under mu and the three channels of each request; the     *)
(* steps below are the critical sections and channel operations.           *)
(***************************************************************************)
EXTENDS VirtioPort

CONSTANTS
  Execs,      \* the calls of vmBackend.Exec
  Streams,    \* the calls of vmBackend.ExecStream
  Ptys,       \* the streams that ask for a terminal
  NoCall,     \* "no entry" in reqs
  OutputCap,  \* capacity of a request's output channel; 32 in the code
  MaxInput    \* bound: input frames one stream sends before its eof

Calls == Execs \cup Streams

ASSUME ClientAssumption ==
  /\ Execs \cap Streams = {} /\ Ptys \subseteq Streams
  /\ NoCall \notin Calls
  /\ OutputCap \in Nat \ {0}
  /\ MaxInput \in Nat

VARIABLES
  nextID,       \* virtioClient.nextID
  reqs,         \* virtioClient.reqs: request id -> the call waiting for it
  closer,       \* progress of virtioClient.Close
  readerUp,     \* readLoop has not returned
  dispatching,  \* <<>>, or the frame dispatch holds after releasing mu
  chan,         \* the channels of each call's virtioRequest
  idOf,         \* virtioRequest.id
  pc,           \* where each call is
  got,          \* the output each call has taken from its channel
  code,         \* the exit code each call has returned
  inputOpen,    \* a stream's input goroutine is running
  inputSent,    \* frames it has sent (bounded by MaxInput)
  panicked      \* "no", or the channel misuse that killed the daemon

clientVars == <<nextID, reqs, closer, readerUp, dispatching, chan, idOf, pc,
                got, code, inputOpen, inputSent, panicked>>

(* The three channels of a request are closed together, so one flag will   *)
(* do.  err holds at most one error, exit at most one code.                *)
NewChan == [output |-> <<>>, exit |-> <<>>, err |-> 0, closed |-> FALSE]
Chunk == [of : Ids, n : 1 .. MaxOut]
Chan == [output : Seq(Chunk), exit : Seq(Codes), err : {0, 1}, closed : BOOLEAN]

Final == {"exec_response", "error"}
Dispatch == [msg : GuestFrame, call : Calls, sent : BOOLEAN]
Returned == {"exited", "failed", "cancelled"}

ClientTypeOK ==
  /\ nextID \in Ids
  /\ reqs \in [Ids -> Calls \cup {NoCall}]
  /\ closer \in {"none", "conn", "done"}
  /\ readerUp \in BOOLEAN
  /\ dispatching = <<>> \/ \E d \in Dispatch : dispatching = <<d>>
  /\ chan \in [Calls -> Chan]
  /\ idOf \in [Calls -> Ids]
  /\ pc \in [Calls -> {"idle", "send", "collect"} \cup Returned]
  /\ got \in [Calls -> Seq(Chunk)]
  /\ code \in [Calls -> Codes]
  /\ inputOpen \in [Calls -> BOOLEAN]
  /\ inputSent \in [Calls -> 0 .. MaxInput]
  /\ panicked \in {"no", "send output", "send result", "close twice"}

ClientInit ==
  /\ nextID = 0
  /\ reqs = [i \in Ids |-> NoCall]
  /\ closer = "none"
  /\ readerUp = TRUE
  /\ dispatching = <<>>
  /\ chan = [c \in Calls |-> NewChan]
  /\ idOf = [c \in Calls |-> 0]
  /\ pc = [c \in Calls |-> "idle"]
  /\ got = [c \in Calls |-> <<>>]
  /\ code = [c \in Calls |-> CHOOSE k \in Codes : TRUE]
  /\ inputOpen = [c \in Calls |-> FALSE]
  /\ inputSent = [c \in Calls |-> 0]
  /\ panicked = "no"

DaemonUp == panicked = "no"
Registered(c) == \E i \in Ids : reqs[i] = c

-----------------------------------------------------------------------------

(* startExec, first half, under mu: a new id and an entry in reqs.  The    *)
(* client may be closed already; startExec does not look.                  *)
Register(c) ==
  /\ DaemonUp
  /\ pc[c] = "idle"
  /\ LET id == (nextID + 1) % IdSpace
     IN /\ nextID' = id
        /\ idOf' = [idOf EXCEPT ![c] = id]
        /\ reqs' = [reqs EXCEPT ![id] = c]
  /\ pc' = [pc EXCEPT ![c] = "send"]
  /\ UNCHANGED <<portVars, closer, readerUp, dispatching, chan, got, code,
                 inputOpen, inputSent, panicked>>

(* startExec, second half: the exec_request is written, and the caller     *)
(* goes on to its select loop; a stream starts its input goroutine.        *)
SendRequest(c) ==
  /\ DaemonUp
  /\ pc[c] = "send"
  /\ CanWrite
  /\ HostWrite(ExecRequest(idOf[c], c \in Streams, c \in Ptys))
  /\ pc' = [pc EXCEPT ![c] = "collect"]
  /\ inputOpen' = [inputOpen EXCEPT ![c] = c \in Streams]
  /\ UNCHANGED <<toHost, connOpen, guestUp, nextID, reqs, closer, readerUp,
                 dispatching, chan, idOf, got, code, inputSent, panicked>>

\* Mutant: the caller goes on to wait although its request was not sent.
SendErrorIgnored(c) ==
  /\ DaemonUp
  /\ pc[c] = "send"
  /\ ~CanWrite
  /\ pc' = [pc EXCEPT ![c] = "collect"]
  /\ UNCHANGED <<portVars, nextID, reqs, closer, readerUp, dispatching, chan,
                 idOf, got, code, inputOpen, inputSent, panicked>>

(* The write fails: the entry is deleted and the call returns the error    *)
(* (Exec) or prints it and exits with 127 (ExecStream).  Both are the      *)
(* result "failed": neither is the exit code of a command.                 *)
SendRequestFails(c) ==
  /\ DaemonUp
  /\ pc[c] = "send"
  /\ ~CanWrite
  /\ reqs' = [reqs EXCEPT ![idOf[c]] = NoCall]
  /\ pc' = [pc EXCEPT ![c] = "failed"]
  /\ UNCHANGED <<portVars, nextID, closer, readerUp, dispatching, chan, idOf,
                 got, code, inputOpen, inputSent, panicked>>

-----------------------------------------------------------------------------
(* The select of collectExecOutput and ExecStream takes any ready case.    *)
(* A receive from a closed, drained channel leaves the loop where it was:  *)
(* it is a stuttering step.                                                *)
TakeOutput(c) ==
  /\ DaemonUp
  /\ pc[c] = "collect"
  /\ chan[c].output # <<>>
  /\ got' = [got EXCEPT ![c] = Append(@, Head(chan[c].output))]
  /\ chan' = [chan EXCEPT ![c].output = Tail(@)]
  /\ UNCHANGED <<portVars, nextID, reqs, closer, readerUp, dispatching, idOf,
                 pc, code, inputOpen, inputSent, panicked>>

TakeExit(c) ==
  /\ DaemonUp
  /\ pc[c] = "collect"
  /\ chan[c].exit # <<>>
  /\ code' = [code EXCEPT ![c] = Head(chan[c].exit)]
  /\ chan' = [chan EXCEPT ![c].exit = Tail(@)]
  /\ pc' = [pc EXCEPT ![c] = "exited"]
  /\ UNCHANGED <<portVars, nextID, reqs, closer, readerUp, dispatching, idOf,
                 got, inputOpen, inputSent, panicked>>

TakeError(c) ==
  /\ DaemonUp
  /\ pc[c] = "collect"
  /\ chan[c].err = 1
  /\ chan' = [chan EXCEPT ![c].err = 0]
  /\ pc' = [pc EXCEPT ![c] = "failed"]
  /\ UNCHANGED <<portVars, nextID, reqs, closer, readerUp, dispatching, idOf,
                 got, code, inputOpen, inputSent, panicked>>

(* The stream's client goes away: ctx is done, Receive fails, or Send      *)
(* fails.  ExecStream returns.  The entry in reqs stays and the guest is   *)
(* not told.  Exec does not look at its ctx.                               *)
CancelStream(c) ==
  /\ DaemonUp
  /\ c \in Streams
  /\ pc[c] = "collect"
  /\ pc' = [pc EXCEPT ![c] = "cancelled"]
  /\ UNCHANGED <<portVars, nextID, reqs, closer, readerUp, dispatching, chan,
                 idOf, got, code, inputOpen, inputSent, panicked>>

-----------------------------------------------------------------------------
(* The input goroutine of a stream: data or a new terminal size, with the  *)
(* write error ignored.                                                    *)
SendInput(c) ==
  /\ DaemonUp
  /\ inputOpen[c]
  /\ inputSent[c] < MaxInput
  /\ \E frame \in {StdinData(idOf[c], FALSE), PtyResize(idOf[c])} :
       HostWrite(frame)
  /\ inputSent' = [inputSent EXCEPT ![c] = @ + 1]
  /\ UNCHANGED <<toHost, connOpen, guestUp, nextID, reqs, closer, readerUp,
                 dispatching, chan, idOf, pc, got, code, inputOpen, panicked>>

\* The client ends its input: eof is sent and the goroutine returns.
SendEof(c) ==
  /\ DaemonUp
  /\ inputOpen[c]
  /\ HostWrite(StdinData(idOf[c], TRUE))
  /\ inputOpen' = [inputOpen EXCEPT ![c] = FALSE]
  /\ UNCHANGED <<toHost, connOpen, guestUp, nextID, reqs, closer, readerUp,
                 dispatching, chan, idOf, pc, got, code, inputSent, panicked>>

\* Once ExecStream has returned, Receive fails and the goroutine returns.
InputEnds(c) ==
  /\ DaemonUp
  /\ inputOpen[c]
  /\ pc[c] \in Returned
  /\ inputOpen' = [inputOpen EXCEPT ![c] = FALSE]
  /\ UNCHANGED <<portVars, nextID, reqs, closer, readerUp, dispatching, chan,
                 idOf, pc, got, code, inputSent, panicked>>

-----------------------------------------------------------------------------
\* Mutant: a final frame leaves its request in the table.
LookupKeeps ==
  /\ DaemonUp
  /\ readerUp
  /\ dispatching = <<>>
  /\ toHost # <<>>
  /\ LET m == Head(toHost)
         c == reqs[m.id]
     IN /\ dispatching' = IF c = NoCall THEN <<>>
                          ELSE <<[msg |-> m, call |-> c, sent |-> FALSE]>>
        /\ reqs' = reqs
  /\ toHost' = Tail(toHost)
  /\ UNCHANGED <<toGuest, connOpen, guestUp, nextID, closer, readerUp, chan,
                 idOf, pc, got, code, inputOpen, inputSent, panicked>>

\* Mutant: every frame takes its request out of the table.
LookupDropsAll ==
  /\ DaemonUp
  /\ readerUp
  /\ dispatching = <<>>
  /\ toHost # <<>>
  /\ LET m == Head(toHost)
         c == reqs[m.id]
     IN /\ dispatching' = IF c = NoCall THEN <<>>
                          ELSE <<[msg |-> m, call |-> c, sent |-> FALSE]>>
        /\ reqs' = [reqs EXCEPT ![m.id] = NoCall]
  /\ toHost' = Tail(toHost)
  /\ UNCHANGED <<toGuest, connOpen, guestUp, nextID, closer, readerUp, chan,
                 idOf, pc, got, code, inputOpen, inputSent, panicked>>

\* Mutant: output goes to the newest request.
LookupNewest ==
  /\ DaemonUp
  /\ readerUp
  /\ dispatching = <<>>
  /\ toHost # <<>>
  /\ LET m == Head(toHost)
         c == reqs[IF m.t \in Final THEN m.id ELSE nextID]
     IN /\ dispatching' = IF c = NoCall THEN <<>>
                          ELSE <<[msg |-> m, call |-> c, sent |-> FALSE]>>
        /\ reqs' = IF m.t \in Final THEN [reqs EXCEPT ![m.id] = NoCall] ELSE reqs
  /\ toHost' = Tail(toHost)
  /\ UNCHANGED <<toGuest, connOpen, guestUp, nextID, closer, readerUp, chan,
                 idOf, pc, got, code, inputOpen, inputSent, panicked>>

(* readLoop and the part of dispatch under mu: the request is looked up,   *)
(* and a final frame takes it out of the table.                            *)
Lookup ==
  /\ DaemonUp
  /\ readerUp
  /\ dispatching = <<>>
  /\ toHost # <<>>
  /\ LET m == Head(toHost)
         c == reqs[m.id]
     IN /\ dispatching' = IF c = NoCall THEN <<>>
                          ELSE <<[msg |-> m, call |-> c, sent |-> FALSE]>>
        /\ reqs' = IF m.t \in Final THEN [reqs EXCEPT ![m.id] = NoCall] ELSE reqs
  /\ toHost' = Tail(toHost)
  /\ UNCHANGED <<toGuest, connOpen, guestUp, nextID, closer, readerUp, chan,
                 idOf, pc, got, code, inputOpen, inputSent, panicked>>

(* dispatch after releasing mu.  A send to a closed channel panics, in a   *)
(* select with a default too; otherwise output is dropped when the channel *)
(* is full.                                                                *)
DeliverOutput ==
  /\ DaemonUp
  /\ dispatching # <<>>
  /\ LET m == dispatching[1].msg
         c == dispatching[1].call
     IN /\ m.t = "exec_output"
        /\ panicked' = IF chan[c].closed THEN "send output" ELSE "no"
        /\ chan' = IF chan[c].closed \/ Len(chan[c].output) >= OutputCap
                   THEN chan
                   ELSE [chan EXCEPT ![c].output =
                           Append(@, [of |-> m.id, n |-> m.n])]
  /\ dispatching' = <<>>
  /\ UNCHANGED <<portVars, nextID, reqs, closer, readerUp, idOf, pc, got, code,
                 inputOpen, inputSent>>

\* The exit code or the error is sent; a full channel would block readLoop.
DeliverResult ==
  /\ DaemonUp
  /\ dispatching # <<>>
  /\ LET m == dispatching[1].msg
         c == dispatching[1].call
     IN /\ m.t \in Final
        /\ ~dispatching[1].sent
        /\ panicked' = IF chan[c].closed THEN "send result" ELSE "no"
        /\ IF m.t = "exec_response"
           THEN /\ chan[c].exit = <<>>
                /\ chan' = [chan EXCEPT ![c].exit = <<m.code>>]
           ELSE /\ chan[c].err = 0
                /\ chan' = [chan EXCEPT ![c].err = 1]
  /\ dispatching' = <<[dispatching[1] EXCEPT !.sent = TRUE]>>
  /\ UNCHANGED <<portVars, nextID, reqs, closer, readerUp, idOf, pc, got, code,
                 inputOpen, inputSent>>

\* Then the three channels are closed.
CloseChannels ==
  /\ DaemonUp
  /\ dispatching # <<>>
  /\ dispatching[1].sent
  /\ LET c == dispatching[1].call
     IN /\ panicked' = IF chan[c].closed THEN "close twice" ELSE "no"
        /\ chan' = [chan EXCEPT ![c].closed = TRUE]
  /\ dispatching' = <<>>
  /\ UNCHANGED <<portVars, nextID, reqs, closer, readerUp, idOf, pc, got, code,
                 inputOpen, inputSent>>

\* Mutant: readLoop returns without telling the requests.
BroadcastNothing ==
  /\ DaemonUp
  /\ readerUp
  /\ dispatching = <<>>
  /\ ~connOpen \/ (~guestUp /\ toHost = <<>>)
  /\ readerUp' = FALSE
  /\ UNCHANGED <<portVars, nextID, reqs, closer, dispatching, chan, idOf, pc,
                 got, code, inputOpen, inputSent, panicked>>

\* Mutant: readLoop goes on after an error.
BroadcastContinues ==
  /\ DaemonUp
  /\ readerUp
  /\ dispatching = <<>>
  /\ ~connOpen \/ (~guestUp /\ toHost = <<>>)
  /\ panicked' = IF \E c \in Calls : Registered(c) /\ chan[c].closed
                 THEN "send result" ELSE "no"
  /\ chan' = [c \in Calls |->
                IF Registered(c) THEN [chan[c] EXCEPT !.err = 1] ELSE chan[c]]
  /\ readerUp' = TRUE
  /\ UNCHANGED <<portVars, nextID, reqs, closer, dispatching, idOf, pc, got,
                 code, inputOpen, inputSent>>

(* The connection fails or ends: broadcastError offers the error to every  *)
(* request in the table, without blocking, and readLoop returns.  Frames   *)
(* still unread when the daemon itself closed the connection are lost.  A  *)
(* frame it could not decode would end readLoop too; sandboxd sends none.  *)
BroadcastError ==
  /\ DaemonUp
  /\ readerUp
  /\ dispatching = <<>>
  /\ ~connOpen \/ (~guestUp /\ toHost = <<>>)
  /\ panicked' = IF \E c \in Calls : Registered(c) /\ chan[c].closed
                 THEN "send result" ELSE "no"
  /\ chan' = [c \in Calls |->
                IF Registered(c) THEN [chan[c] EXCEPT !.err = 1] ELSE chan[c]]
  /\ readerUp' = FALSE
  /\ UNCHANGED <<portVars, nextID, reqs, closer, dispatching, idOf, pc, got,
                 code, inputOpen, inputSent>>

-----------------------------------------------------------------------------
(* virtioClient.Close, under mu: every request in the table has its        *)
(* channels closed, and the table is emptied.                              *)
CloseRequests ==
  /\ DaemonUp
  /\ closer = "none"
  /\ closer' = "conn"
  /\ panicked' = IF \E c \in Calls : Registered(c) /\ chan[c].closed
                 THEN "close twice" ELSE "no"
  /\ chan' = [c \in Calls |->
                IF Registered(c) THEN [chan[c] EXCEPT !.closed = TRUE] ELSE chan[c]]
  /\ reqs' = [i \in Ids |-> NoCall]
  /\ UNCHANGED <<portVars, nextID, readerUp, dispatching, idOf, pc, got, code,
                 inputOpen, inputSent>>

\* virtioClient.Close, after releasing mu.
CloseConn ==
  /\ DaemonUp
  /\ closer = "conn"
  /\ closer' = "done"
  /\ connOpen' = FALSE
  /\ UNCHANGED <<toGuest, toHost, guestUp, nextID, reqs, readerUp, dispatching,
                 chan, idOf, pc, got, code, inputOpen, inputSent, panicked>>
=============================================================================
