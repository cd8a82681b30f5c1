----------------------------- MODULE VmExecProofs -----------------------------
(***************************************************************************)
(* Proofs about VmExec, for every number of calls, every id space and      *)
(* every capacity: types, who owns a channel, the read loop's room, calls  *)
(* that wait, what alone can make the daemon panic; then, for as many      *)
(* calls as there are ids, whose a frame is, what an answer says, the      *)
(* order of output, that no request and no waiter is lost, and that VmExec *)
(* implements ExecBackend.                                                 *)
(***************************************************************************)
EXTENDS VmExec, Integers, FiniteSets, TLAPS

-----------------------------------------------------------------------------
(* Types.                                                                  *)
LEMMA IdsWrap == \A n \in Nat : n % IdSpace \in Ids
  BY PortAssumption DEF Ids

\* What each end sends is a frame of its direction.
LEMMA HostFrames ==
  ASSUME NEW i \in Ids, NEW a \in BOOLEAN, NEW b \in BOOLEAN
  PROVE  /\ ExecRequest(i, a, b) \in HostFrame
         /\ StdinData(i, a) \in HostFrame
         /\ PtyResize(i) \in HostFrame
  BY Zenon DEF HostFrame, ExecRequest, StdinData, PtyResize

LEMMA GuestFrames ==
  ASSUME NEW i \in Ids
  PROVE  /\ \A n \in 1 .. MaxOut : ExecOutput(i, n) \in GuestFrame
         /\ \A k \in Codes : ExecResponse(i, k) \in GuestFrame
         /\ ErrorFrame(i) \in GuestFrame
  BY Zenon DEF GuestFrame, ExecOutput, ExecResponse, ErrorFrame

\* Every frame has an id, and what its kind says it has.
LEMMA FrameFields ==
  /\ \A m \in HostFrame :
       /\ m.id \in Ids
       /\ m.t \in {"exec_request", "stdin_data", "pty_resize"}
       /\ m.t = "exec_request" => m.stdin \in BOOLEAN /\ m.pty \in BOOLEAN
       /\ m.t = "stdin_data" => m.eof \in BOOLEAN
  /\ \A m \in GuestFrame :
       /\ m.id \in Ids
       /\ m.t \in {"exec_output", "exec_response", "error"}
       /\ m.t = "exec_output" => m.n \in 1 .. MaxOut
       /\ m.t = "exec_response" => m.code \in Codes
  BY Zenon DEF HostFrame, GuestFrame

LEMMA HostWriteType ==
  ASSUME NEW f \in HostFrame, toGuest \in Seq(HostFrame), HostWrite(f)
  PROVE  toGuest' \in Seq(HostFrame)
  BY DEF HostWrite

LEMMA GuestWriteType ==
  ASSUME NEW f \in GuestFrame, toHost \in Seq(GuestFrame), GuestWrite(f)
  PROVE  toHost' \in Seq(GuestFrame)
  BY DEF GuestWrite

LEMMA HeadTail ==
  ASSUME NEW S, NEW s \in Seq(S), s # <<>>
  PROVE  Head(s) \in S /\ Tail(s) \in Seq(S)
  OBVIOUS

LEMMA AppendType ==
  ASSUME NEW S, NEW s \in Seq(S), NEW e \in S
  PROVE  Append(s, e) \in Seq(S) /\ <<e>> \in Seq(S)
  OBVIOUS

\* What the channels of a request may become.
LEMMA ChanFields ==
  ASSUME NEW ch \in Chan
  PROVE  /\ ch.output \in Seq(Chunk) /\ ch.exit \in Seq(Codes) /\ ch.err \in {0, 1}
         /\ ch.closed \in BOOLEAN
         /\ \A q \in Seq(Chunk) : [ch EXCEPT !.output = q] \in Chan
         /\ \A q \in Seq(Codes) : [ch EXCEPT !.exit = q] \in Chan
         /\ \A e \in {0, 1} : [ch EXCEPT !.err = e] \in Chan
         /\ [ch EXCEPT !.closed = TRUE] \in Chan
  BY Zenon DEF Chan

LEMMA InitType == Init => TypeOK
  <1> SUFFICES ASSUME Init PROVE TypeOK
    BY Zenon
  <1>1. PortTypeOK
    BY DEF Init, PortInit, PortTypeOK
  <1>2. 0 \in Ids /\ (CHOOSE k \in Codes : TRUE) \in Codes
    BY PortAssumption DEF Ids
  <1>3. ClientTypeOK
    BY <1>2, ClientAssumption DEF Init, ClientInit, ClientTypeOK, NewChan, Chan
  <1>4. SandboxdTypeOK
    BY <1>2, PortAssumption DEF Init, SandboxdInit, SandboxdTypeOK
  <1> QED BY <1>1, <1>3, <1>4, Zenon DEF TypeOK

\* A call's own steps, and those of its input goroutine.
LEMMA CallType ==
  ASSUME TypeOK, NEW c \in Calls, Call(c), UNCHANGED guestVars
  PROVE  TypeOK'
  <1> USE DEF portVars, guestVars
  <1>0. /\ toGuest \in Seq(HostFrame) /\ nextID \in Ids
        /\ chan \in [Calls -> Chan] /\ chan[c] \in Chan
        /\ idOf \in [Calls -> Ids] /\ idOf[c] \in Ids
        /\ got \in [Calls -> Seq(Chunk)] /\ got[c] \in Seq(Chunk)
        /\ inputSent \in [Calls -> 0 .. MaxInput]
    BY Zenon DEF TypeOK, PortTypeOK, ClientTypeOK
  <1>1. CASE Register(c)
    <2>1. nextID + 1 \in Nat
      BY <1>0, PortAssumption DEF Ids
    <2>2. (nextID + 1) % IdSpace \in Ids
      BY <2>1, IdsWrap, Zenon
    <2> QED
      BY <1>1, <2>2, Zenon DEF Register, TypeOK, PortTypeOK, ClientTypeOK, SandboxdTypeOK
  <1>2. CASE SendRequest(c)
    <2>1. (c \in Streams) \in BOOLEAN /\ (c \in Ptys) \in BOOLEAN
      OBVIOUS
    <2>2. ExecRequest(idOf[c], c \in Streams, c \in Ptys) \in HostFrame
      BY <1>0, <2>1, HostFrames, Zenon
    <2>3. toGuest' \in Seq(HostFrame)
      BY <1>0, <1>2, <2>2, HostWriteType, Zenon DEF SendRequest
    <2>4. inputOpen' \in [Calls -> BOOLEAN]
      BY <1>2, <2>1, Zenon DEF SendRequest, TypeOK, ClientTypeOK
    <2> QED
      BY <1>2, <2>3, <2>4, Zenon
      DEF SendRequest, TypeOK, PortTypeOK, ClientTypeOK, SandboxdTypeOK
  <1>3. CASE SendRequestFails(c)
    BY <1>3, Zenon
    DEF SendRequestFails, Returned, TypeOK, PortTypeOK, ClientTypeOK, SandboxdTypeOK
  <1>4. CASE TakeOutput(c)
    <2>1. chan[c].output \in Seq(Chunk) /\ chan[c].output # <<>>
      BY <1>0, <1>4, ChanFields, Zenon DEF TakeOutput
    <2>2. Head(chan[c].output) \in Chunk /\ Tail(chan[c].output) \in Seq(Chunk)
      BY <2>1, HeadTail, Zenon
    <2>3. [chan[c] EXCEPT !.output = Tail(@)] \in Chan
      BY <1>0, <2>2, ChanFields, Zenon
    <2>4. chan' \in [Calls -> Chan]
      BY <1>0, <1>4, <2>3, Zenon DEF TakeOutput
    <2>5. Append(got[c], Head(chan[c].output)) \in Seq(Chunk)
      BY <1>0, <2>2
    <2>6. got' \in [Calls -> Seq(Chunk)]
      BY <1>0, <1>4, <2>5, Zenon DEF TakeOutput
    <2> QED
      BY <1>4, <2>4, <2>6, Zenon
      DEF TakeOutput, TypeOK, PortTypeOK, ClientTypeOK, SandboxdTypeOK
  <1>5. CASE TakeExit(c)
    <2>1. chan[c].exit \in Seq(Codes) /\ chan[c].exit # <<>>
      BY <1>0, <1>5, ChanFields, Zenon DEF TakeExit
    <2>2. Head(chan[c].exit) \in Codes /\ Tail(chan[c].exit) \in Seq(Codes)
      BY <2>1, HeadTail, Zenon
    <2>3. [chan[c] EXCEPT !.exit = Tail(@)] \in Chan
      BY <1>0, <2>2, ChanFields, Zenon
    <2>4. chan' \in [Calls -> Chan]
      BY <1>0, <1>5, <2>3, Zenon DEF TakeExit
    <2> QED
      BY <1>5, <2>2, <2>4, Zenon
      DEF TakeExit, Returned, TypeOK, PortTypeOK, ClientTypeOK, SandboxdTypeOK
  <1>6. CASE TakeError(c)
    <2>1. [chan[c] EXCEPT !.err = 0] \in Chan
      BY <1>0, ChanFields, Zenon
    <2>2. chan' \in [Calls -> Chan]
      BY <1>0, <1>6, <2>1, Zenon DEF TakeError
    <2> QED
      BY <1>6, <2>2, Zenon
      DEF TakeError, Returned, TypeOK, PortTypeOK, ClientTypeOK, SandboxdTypeOK
  <1>7. CASE CancelStream(c)
    BY <1>7, Zenon
    DEF CancelStream, Returned, TypeOK, PortTypeOK, ClientTypeOK, SandboxdTypeOK
  <1>8. CASE SendInput(c)
    <2>1. StdinData(idOf[c], FALSE) \in HostFrame /\ PtyResize(idOf[c]) \in HostFrame
      BY <1>0, HostFrames, Zenon
    <2>2. toGuest' \in Seq(HostFrame)
      BY <1>0, <1>8, <2>1, HostWriteType, Zenon DEF SendInput
    <2>3. inputSent' \in [Calls -> 0 .. MaxInput]
      BY <1>0, <1>8, ClientAssumption DEF SendInput
    <2> QED
      BY <1>8, <2>2, <2>3, Zenon
      DEF SendInput, TypeOK, PortTypeOK, ClientTypeOK, SandboxdTypeOK
  <1>9. CASE SendEof(c)
    <2>1. toGuest' \in Seq(HostFrame)
      BY <1>0, <1>9, HostFrames, HostWriteType, Zenon DEF SendEof
    <2> QED
      BY <1>9, <2>1, Zenon DEF SendEof, TypeOK, PortTypeOK, ClientTypeOK, SandboxdTypeOK
  <1>10. CASE InputEnds(c)
    BY <1>10, Zenon DEF InputEnds, TypeOK, PortTypeOK, ClientTypeOK, SandboxdTypeOK
  <1> QED
    BY <1>1, <1>2, <1>3, <1>4, <1>5, <1>6, <1>7, <1>8, <1>9, <1>10, Zenon DEF Call

\* dispatch, broadcastError and Close.
LEMMA ReadLoopType ==
  ASSUME TypeOK, ReadLoop \/ CloseRequests \/ CloseConn, UNCHANGED guestVars
  PROVE  TypeOK'
  <1> USE DEF portVars, guestVars
  <1>0. /\ toHost \in Seq(GuestFrame) /\ reqs \in [Ids -> Calls \cup {NoCall}]
        /\ chan \in [Calls -> Chan]
        /\ dispatching # <<>> => \E d \in Dispatch : dispatching = <<d>>
    BY Zenon DEF TypeOK, PortTypeOK, ClientTypeOK
  <1>a. \A d \in Dispatch : d.msg \in GuestFrame /\ d.call \in Calls /\ d.sent \in BOOLEAN
    BY Zenon DEF Dispatch
  <1>1. CASE Lookup
    <2>1. Head(toHost) \in GuestFrame /\ Tail(toHost) \in Seq(GuestFrame)
      BY <1>0, <1>1, HeadTail, Zenon DEF Lookup
    <2>2. Head(toHost).id \in Ids
      BY <2>1, FrameFields, Zenon
    <2>3. dispatching' = <<>> \/ \E d \in Dispatch : dispatching' = <<d>>
      BY <1>0, <1>1, <2>1, <2>2, Zenon DEF Lookup, Dispatch
    <2> QED
      BY <1>1, <2>1, <2>2, <2>3, Zenon
      DEF Lookup, TypeOK, PortTypeOK, ClientTypeOK, SandboxdTypeOK
  <1>2. CASE DeliverOutput
    <2>1. PICK d \in Dispatch : dispatching = <<d>>
      BY <1>0, <1>2, Zenon DEF DeliverOutput
    <2>2. d.msg.t = "exec_output" /\ [of |-> d.msg.id, n |-> d.msg.n] \in Chunk
      BY <1>2, <1>a, <2>1, FrameFields, Zenon DEF DeliverOutput, Chunk
    <2>3. d.call \in Calls /\ chan[d.call] \in Chan
      BY <1>0, <1>a, Zenon
    <2>4. Append(chan[d.call].output, [of |-> d.msg.id, n |-> d.msg.n]) \in Seq(Chunk)
      <3>1. chan[d.call].output \in Seq(Chunk)
        BY <2>3, ChanFields, Zenon
      <3> QED BY <2>2, <3>1, AppendType, Zenon
    <2>5. [chan[d.call] EXCEPT !.output = Append(@, [of |-> d.msg.id, n |-> d.msg.n])]
            \in Chan
      BY <2>3, <2>4, ChanFields, Zenon
    <2>6. chan' \in [Calls -> Chan]
      BY <1>0, <1>2, <2>1, <2>3, <2>5, Zenon DEF DeliverOutput
    <2> QED
      BY <1>2, <2>6, Zenon
      DEF DeliverOutput, TypeOK, PortTypeOK, ClientTypeOK, SandboxdTypeOK
  <1>3. CASE DeliverResult
    <2>1. PICK d \in Dispatch : dispatching = <<d>>
      BY <1>0, <1>3, Zenon DEF DeliverResult
    <2>2. /\ d.call \in Calls /\ chan[d.call] \in Chan
          /\ d.msg.t = "exec_response" => d.msg.code \in Codes
      BY <1>0, <1>a, FrameFields, Zenon
    <2>3. /\ d.msg.t = "exec_response"
               => [chan[d.call] EXCEPT !.exit = <<d.msg.code>>] \in Chan
          /\ [chan[d.call] EXCEPT !.err = 1] \in Chan
      <3>1. d.msg.t = "exec_response" => <<d.msg.code>> \in Seq(Codes)
        BY <2>2, AppendType
      <3> QED BY <2>2, <3>1, ChanFields, Zenon
    <2>4. chan' \in [Calls -> Chan]
      BY <1>0, <1>3, <2>1, <2>2, <2>3, Zenon DEF DeliverResult
    <2>5. [d EXCEPT !.sent = TRUE] \in Dispatch
      BY Zenon DEF Dispatch
    <2> QED
      BY <1>3, <2>1, <2>4, <2>5, Zenon
      DEF DeliverResult, TypeOK, PortTypeOK, ClientTypeOK, SandboxdTypeOK
  <1>4. CASE CloseChannels
    <2>1. PICK d \in Dispatch : dispatching = <<d>>
      BY <1>0, <1>4, Zenon DEF CloseChannels
    <2>2. d.call \in Calls /\ [chan[d.call] EXCEPT !.closed = TRUE] \in Chan
      BY <1>0, <1>a, ChanFields, Zenon
    <2>3. chan' \in [Calls -> Chan]
      BY <1>0, <1>4, <2>1, <2>2, Zenon DEF CloseChannels
    <2> QED
      BY <1>4, <2>3, Zenon
      DEF CloseChannels, TypeOK, PortTypeOK, ClientTypeOK, SandboxdTypeOK
  <1>5. CASE BroadcastError
    <2>1. chan' \in [Calls -> Chan]
      BY <1>0, <1>5, ChanFields, Zenon DEF BroadcastError
    <2> QED
      BY <1>5, <2>1, Zenon
      DEF BroadcastError, TypeOK, PortTypeOK, ClientTypeOK, SandboxdTypeOK
  <1>6. CASE CloseRequests
    <2>1. chan' \in [Calls -> Chan]
      BY <1>0, <1>6, ChanFields, Zenon DEF CloseRequests
    <2> QED
      BY <1>6, <2>1, Zenon
      DEF CloseRequests, TypeOK, PortTypeOK, ClientTypeOK, SandboxdTypeOK
  <1>7. CASE CloseConn
    BY <1>7, Zenon DEF CloseConn, TypeOK, PortTypeOK, ClientTypeOK, SandboxdTypeOK
  <1> QED BY <1>1, <1>2, <1>3, <1>4, <1>5, <1>6, <1>7, Zenon DEF ReadLoop

\* Steps of sandboxd, and the death of the machine.
LEMMA GuestType ==
  ASSUME TypeOK, Guest, UNCHANGED clientVars
  PROVE  TypeOK'
  <1> USE DEF portVars, clientVars
  <1>0. /\ toGuest \in Seq(HostFrame) /\ toHost \in Seq(GuestFrame)
        /\ job # <<>> => Current \in Job
        /\ printed \in [Ids -> 0 .. MaxOut] /\ exitOf \in [Ids -> Codes]
    BY DEF TypeOK, PortTypeOK, SandboxdTypeOK, Current
  <1>a. \A j \in Job : /\ j.id \in Ids /\ j.pty \in BOOLEAN /\ j.stdinOpen \in BOOLEAN
                       /\ j.sawEof \in BOOLEAN /\ j.outOpen \in BOOLEAN /\ j.outReadable \in BOOLEAN
    BY Zenon DEF Job
  <1>b. toGuest # <<>> => Head(toGuest) \in HostFrame /\ Tail(toGuest) \in Seq(HostFrame)
    BY <1>0, HeadTail, Zenon
  <1>1. CASE StartExec
    <2>1. PICK req \in HostFrame : req = Head(toGuest)
      BY <1>1, <1>b, Zenon DEF StartExec
    <2>2. req.t = "exec_request"
      BY <1>1, <2>1, Zenon DEF StartExec
    <2>3. req.id \in Ids /\ req.stdin \in BOOLEAN /\ req.pty \in BOOLEAN
      BY <2>2, FrameFields, Zenon
    <2> DEFINE j == [id |-> req.id, pty |-> req.pty,
                     stdinOpen |-> req.stdin \/ req.pty, sawEof |-> ~(req.stdin \/ req.pty),
                     outOpen |-> TRUE, outReadable |-> TRUE, exited |-> FALSE]
    <2>4. j \in Job
      BY <2>3, Zenon DEF Job
    <2>5. job' = <<j>>
      BY <1>1, <2>1, Zenon DEF StartExec
    <2> QED
      BY <1>1, <1>b, <2>4, <2>5, Zenon
      DEF StartExec, TypeOK, PortTypeOK, ClientTypeOK, SandboxdTypeOK
  <1>2. CASE StartExecFails
    <2>1. toHost' \in Seq(GuestFrame)
      BY <1>0, <1>2, <1>b, FrameFields, GuestFrames, GuestWriteType, Zenon
      DEF StartExecFails
    <2> QED
      BY <1>2, <1>b, <2>1, Zenon
      DEF StartExecFails, TypeOK, PortTypeOK, ClientTypeOK, SandboxdTypeOK
  <1>3. CASE RejectFrame
    <2>1. 0 \in Ids
      BY PortAssumption DEF Ids
    <2>2. toHost' \in Seq(GuestFrame)
      BY <1>0, <1>3, <2>1, GuestFrames, GuestWriteType, Zenon DEF RejectFrame
    <2> QED
      BY <1>3, <1>b, <2>2, Zenon
      DEF RejectFrame, TypeOK, PortTypeOK, ClientTypeOK, SandboxdTypeOK
  <1>4. CASE RelayOutput
    <2>1. Current.id \in Ids
      BY <1>0, <1>4, <1>a, Zenon DEF RelayOutput, Running
    <2>2. printed[Current.id] + 1 \in 1 .. MaxOut
      BY <1>0, <1>4, <2>1, PortAssumption DEF RelayOutput
    <2>3. toHost' \in Seq(GuestFrame)
      BY <1>0, <1>4, <2>1, <2>2, GuestFrames, GuestWriteType, Zenon DEF RelayOutput
    <2>4. printed' \in [Ids -> 0 .. MaxOut]
      BY <1>0, <1>4, <2>1, <2>2, PortAssumption DEF RelayOutput
    <2> QED
      BY <1>4, <2>3, <2>4, Zenon
      DEF RelayOutput, TypeOK, PortTypeOK, ClientTypeOK, SandboxdTypeOK
  <1>5. CASE OutputEnds
    <2>1. \E j \in Job : job' = <<j>>
      BY <1>0, <1>5, Zenon DEF OutputEnds, Running, Job
    <2> QED
      BY <1>5, <2>1, Zenon DEF OutputEnds, TypeOK, PortTypeOK, ClientTypeOK, SandboxdTypeOK
  <1>6. CASE ProcessExits
    <2>1. \E j \in Job : job' = <<j>>
      BY <1>0, <1>6, Zenon DEF ProcessExits, Running, Job
    <2>2. exitOf' \in [Ids -> Codes]
      BY <1>0, <1>6, Zenon DEF ProcessExits
    <2> QED
      BY <1>6, <2>1, <2>2, Zenon
      DEF ProcessExits, TypeOK, PortTypeOK, ClientTypeOK, SandboxdTypeOK
  <1>7. CASE HandleStdin
    <2>1. \E j \in Job : job' = <<j>>
      BY <1>0, <1>7, <1>b, FrameFields, ZenonT(30) DEF HandleStdin, Running, Job
    <2> QED
      BY <1>7, <1>b, <2>1, Zenon
      DEF HandleStdin, TypeOK, PortTypeOK, ClientTypeOK, SandboxdTypeOK
  <1>8. CASE StdinHangsUp
    <2>1. \E j \in Job : job' = <<j>>
      BY <1>0, <1>8, Zenon DEF StdinHangsUp, Running, Job
    <2> QED
      BY <1>8, <2>1, Zenon
      DEF StdinHangsUp, TypeOK, PortTypeOK, ClientTypeOK, SandboxdTypeOK
  <1>9. CASE SendResponse
    <2>1. Current.id \in Ids /\ exitOf[Current.id] \in Codes
      BY <1>0, <1>9, <1>a, Zenon DEF SendResponse, Running
    <2>2. toHost' \in Seq(GuestFrame)
      BY <1>0, <1>9, <2>1, GuestFrames, GuestWriteType, Zenon DEF SendResponse
    <2> QED
      BY <1>9, <2>2, Zenon
      DEF SendResponse, TypeOK, PortTypeOK, ClientTypeOK, SandboxdTypeOK
  <1>10. CASE ExecAborts
    <2>1. Current.id \in Ids
      BY <1>0, <1>10, <1>a, Zenon DEF ExecAborts, Running
    <2>2. toHost' \in Seq(GuestFrame)
      BY <1>0, <1>10, <2>1, GuestFrames, GuestWriteType, Zenon DEF ExecAborts
    <2> QED
      BY <1>10, <2>2, Zenon DEF ExecAborts, TypeOK, PortTypeOK, ClientTypeOK, SandboxdTypeOK
  <1> QED
    BY <1>1, <1>2, <1>3, <1>4, <1>5, <1>6, <1>7, <1>8, <1>9, <1>10, Zenon DEF Guest

LEMMA NextType == TypeOK /\ [Next]_vars => TypeOK'
  <1> SUFFICES ASSUME TypeOK, [Next]_vars PROVE TypeOK'
    BY Zenon
  <1>1. ASSUME NEW c \in Calls, Call(c), UNCHANGED guestVars PROVE TypeOK'
    BY <1>1, CallType, Zenon
  <1>2. CASE (ReadLoop \/ Stop) /\ UNCHANGED guestVars
    BY <1>2, ReadLoopType, Zenon DEF Stop
  <1>3. CASE Guest /\ UNCHANGED clientVars
    BY <1>3, GuestType, Zenon
  <1>4. CASE QemuDies /\ UNCHANGED <<clientVars, guestVars>>
    <2>1. toHost' \in Seq(GuestFrame)
      BY <1>4 DEF QemuDies, GuestDies, TypeOK, PortTypeOK
    <2>2. PortTypeOK'
      <3>1. toGuest' = <<>> /\ guestUp' = FALSE /\ connOpen' = connOpen
        BY <1>4, Zenon DEF QemuDies, GuestDies
      <3>2. connOpen \in BOOLEAN /\ <<>> \in Seq(HostFrame)
        BY DEF TypeOK, PortTypeOK
      <3> QED BY <2>1, <3>1, <3>2, Zenon DEF PortTypeOK
    <2>3. ClientTypeOK' /\ SandboxdTypeOK'
      BY <1>4, Zenon DEF clientVars, guestVars, TypeOK, ClientTypeOK, SandboxdTypeOK
    <2> QED BY <2>2, <2>3, Zenon DEF TypeOK
  <1>5. CASE UNCHANGED vars
    BY <1>5, Zenon DEF vars, portVars, clientVars, guestVars, TypeOK, PortTypeOK,
                ClientTypeOK, SandboxdTypeOK
  <1> QED BY <1>1, <1>2, <1>3, <1>4, <1>5, Zenon DEF Next

(* The types of the exec path: in particular the ids of startExec stay     *)
(* within 32 bits and both queues hold frames of their own direction only. *)
THEOREM TypeCorrect == Spec => []TypeOK
  <1> QED BY InitType, NextType, PTL DEF Spec

-----------------------------------------------------------------------------
(* Channel ownership.  ChannelOwnership is not inductive: it needs to know *)
(* who may close the channels of a call.  Entries says that a call is in   *)
(* reqs under its own id only, and with open channels.  InHand says that a *)
(* call whose final frame dispatch holds is in reqs no longer and still    *)
(* has open channels, so that CloseRequests leaves them to dispatch.       *)
Entries ==
  \A c \in Calls :
    /\ \A i \in Ids : reqs[i] = c => idOf[c] = i /\ pc[c] # "idle" /\ ~chan[c].closed
    /\ pc[c] = "idle" => ~chan[c].closed

InHand ==
  dispatching # <<>> =>
    /\ dispatching[1].sent => dispatching[1].msg.t \in Final
    /\ dispatching[1].msg.t \in Final =>
         /\ ~Registered(dispatching[1].call)
         /\ pc[dispatching[1].call] # "idle"
         /\ ~chan[dispatching[1].call].closed

Ownership == TypeOK /\ Entries /\ InHand /\ ChannelOwnership

LEMMA InitOwnership == Init => Ownership
  <1> SUFFICES ASSUME Init PROVE Ownership
    BY Zenon
  <1>1. Entries
    BY ClientAssumption, Zenon DEF Init, ClientInit, Entries, NewChan
  <1>2. InHand /\ ChannelOwnership
    BY Zenon DEF Init, ClientInit, InHand, ChannelOwnership
  <1> QED BY <1>1, <1>2, InitType, Zenon DEF Ownership

\* What dispatch holds.
LEMMA DispatchFields ==
  ASSUME TypeOK, dispatching # <<>>
  PROVE  /\ dispatching[1] \in Dispatch
         /\ dispatching[1].call \in Calls /\ dispatching[1].msg \in GuestFrame
  <1>1. PICK d \in Dispatch : dispatching = <<d>>
    BY Zenon DEF TypeOK, ClientTypeOK
  <1>2. dispatching[1] = d
    BY <1>1, Zenon
  <1> QED BY <1>2, Zenon DEF Dispatch

\* Sending and receiving does not close a channel.
LEMMA ClosedKept ==
  ASSUME NEW c \in Calls, NEW v, chan \in [Calls -> Chan],
         \/ chan' = [chan EXCEPT ![c].output = v]
         \/ chan' = [chan EXCEPT ![c].exit = v]
         \/ chan' = [chan EXCEPT ![c].err = v]
  PROVE  \A d \in Calls : chan'[d].closed = chan[d].closed
  <1>0. chan[c] = [output |-> chan[c].output, exit |-> chan[c].exit,
                   err |-> chan[c].err, closed |-> chan[c].closed]
    BY Zenon DEF Chan
  <1>1. \A d \in Calls : d # c => chan'[d] = chan[d]
    BY Zenon
  <1>2. chan'[c].closed = chan[c].closed
    BY <1>0, Zenon
  <1> QED BY <1>1, <1>2, Zenon

\* Steps that leave the table, the channels' ends and dispatch alone.
LEMMA QuietStep ==
  ASSUME Ownership, TypeOK',
         UNCHANGED <<reqs, idOf, dispatching, panicked>>,
         \A c \in Calls : /\ pc'[c] = "idle" <=> pc[c] = "idle"
                          /\ chan'[c].closed = chan[c].closed
  PROVE  Ownership'
  <1>1. Entries'
    BY Zenon DEF Ownership, Entries
  <1>2. dispatching # <<>> => dispatching[1].call \in Calls
    BY DispatchFields, Zenon DEF Ownership
  <1>3. InHand'
    BY <1>2, Zenon DEF Ownership, InHand, Registered
  <1> QED BY <1>1, <1>3, Zenon DEF Ownership, ChannelOwnership

LEMMA CallOwnership ==
  ASSUME Ownership, TypeOK', NEW c \in Calls, Call(c)
  PROVE  Ownership'
  <1>0. /\ chan \in [Calls -> Chan] /\ pc \in [Calls -> {"idle", "send", "collect"} \cup Returned]
        /\ reqs \in [Ids -> Calls \cup {NoCall}] /\ idOf \in [Calls -> Ids]
        /\ dispatching # <<>> => dispatching[1].call \in Calls
        /\ nextID \in Ids
    BY DispatchFields, Zenon DEF Ownership, TypeOK, ClientTypeOK
  <1>1. CASE Register(c)
    <2> DEFINE id == (nextID + 1) % IdSpace
    <2>1. id \in Ids
      <3>1. nextID + 1 \in Nat
        BY <1>0, PortAssumption DEF Ids
      <3> QED BY <3>1, IdsWrap, Zenon
    <2> HIDE DEF id
    <2>2. /\ reqs' = [reqs EXCEPT ![id] = c] /\ idOf' = [idOf EXCEPT ![c] = id]
          /\ pc[c] = "idle" /\ pc' = [pc EXCEPT ![c] = "send"]
          /\ chan' = chan /\ dispatching' = dispatching /\ panicked' = panicked
      BY <1>1, Zenon DEF Register, id
    <2>3. Entries'
      BY <1>0, <2>1, <2>2 DEF Ownership, Entries
    <2>4. InHand'
      BY <1>0, <2>1, <2>2, Zenon DEF Ownership, InHand, Registered
    <2> QED BY <2>2, <2>3, <2>4, Zenon DEF Ownership, ChannelOwnership
  <1>2. CASE SendRequestFails(c)
    <2>1. /\ reqs' = [reqs EXCEPT ![idOf[c]] = NoCall] /\ idOf' = idOf
          /\ pc' = [pc EXCEPT ![c] = "failed"]
          /\ chan' = chan /\ dispatching' = dispatching /\ panicked' = panicked
      BY <1>2, Zenon DEF SendRequestFails
    <2>2. Entries'
      BY <1>0, <2>1, ClientAssumption DEF Ownership, Entries
    <2>3. InHand'
      BY <1>0, <2>1, ClientAssumption, Zenon DEF Ownership, InHand, Registered
    <2> QED BY <2>1, <2>2, <2>3, Zenon DEF Ownership, ChannelOwnership
  <1>3. CASE SendRequest(c)
    BY <1>0, <1>3, QuietStep, Zenon DEF SendRequest
  <1>4. CASE TakeOutput(c) \/ TakeExit(c) \/ TakeError(c)
    <2>1. \A d \in Calls : chan'[d].closed = chan[d].closed
      <3>1. \/ chan' = [chan EXCEPT ![c].output = Tail(chan[c].output)]
            \/ chan' = [chan EXCEPT ![c].exit = Tail(chan[c].exit)]
            \/ chan' = [chan EXCEPT ![c].err = 0]
        BY <1>4, Zenon DEF TakeOutput, TakeExit, TakeError
      <3> QED BY <1>0, <3>1, ClosedKept, Zenon
    <2>2. \A d \in Calls : pc'[d] = "idle" <=> pc[d] = "idle"
      BY <1>0, <1>4, Zenon DEF TakeOutput, TakeExit, TakeError
    <2> QED BY <1>4, <2>1, <2>2, QuietStep, Zenon DEF TakeOutput, TakeExit, TakeError
  <1>5. CASE CancelStream(c)
    BY <1>0, <1>5, QuietStep, Zenon DEF CancelStream
  <1>6. CASE SendInput(c) \/ SendEof(c) \/ InputEnds(c)
    BY <1>6, QuietStep, Zenon DEF SendInput, SendEof, InputEnds
  <1> QED BY <1>1, <1>2, <1>3, <1>4, <1>5, <1>6, Zenon DEF Call

LEMMA ReadLoopOwnership ==
  ASSUME Ownership, TypeOK', ReadLoop \/ CloseRequests \/ CloseConn
  PROVE  Ownership'
  <1>0. /\ chan \in [Calls -> Chan]
        /\ reqs \in [Ids -> Calls \cup {NoCall}] /\ idOf \in [Calls -> Ids]
        /\ dispatching # <<>> => \E d \in Dispatch : dispatching = <<d>>
        /\ toHost \in Seq(GuestFrame)
    BY Zenon DEF Ownership, TypeOK, PortTypeOK, ClientTypeOK
  <1>a. \A d \in Dispatch : d.msg \in GuestFrame /\ d.call \in Calls /\ d.sent \in BOOLEAN
    BY Zenon DEF Dispatch
  <1>1. CASE Lookup
    <2>1. PICK m \in GuestFrame : m = Head(toHost)
      BY <1>0, <1>1, HeadTail, Zenon DEF Lookup
    <2>2. m.id \in Ids
      BY FrameFields, Zenon
    <2>3. /\ dispatching' = IF reqs[m.id] = NoCall THEN <<>>
                            ELSE <<[msg |-> m, call |-> reqs[m.id], sent |-> FALSE]>>
          /\ reqs' = IF m.t \in Final THEN [reqs EXCEPT ![m.id] = NoCall] ELSE reqs
          /\ UNCHANGED <<chan, idOf, pc, panicked>>
      BY <1>1, <2>1, Zenon DEF Lookup
    <2>4. Entries'
      BY <1>0, <2>2, <2>3, ClientAssumption DEF Ownership, Entries
    <2>5. InHand'
      <3>1. CASE reqs[m.id] = NoCall
        BY <2>3, <3>1, Zenon DEF InHand
      <3>2. CASE reqs[m.id] # NoCall
        <4>1. reqs[m.id] \in Calls
          BY <1>0, <2>2, <3>2, Zenon
        <4>2. /\ pc[reqs[m.id]] # "idle" /\ ~chan[reqs[m.id]].closed
              /\ \A i \in Ids : reqs[i] = reqs[m.id] => i = m.id
          BY <2>2, <4>1, Zenon DEF Ownership, Entries
        <4>3. m.t \in Final => \A i \in Ids : reqs'[i] # reqs[m.id]
          BY <1>0, <2>2, <2>3, <3>2, <4>2, Zenon
        <4> QED BY <2>3, <3>2, <4>2, <4>3, Zenon DEF InHand, Registered
      <3> QED BY <3>1, <3>2, Zenon
    <2> QED BY <2>3, <2>4, <2>5, Zenon DEF Ownership, ChannelOwnership
  <1>2. CASE DeliverOutput
    <2>1. PICK d \in Dispatch : dispatching = <<d>>
      BY <1>0, <1>2, Zenon DEF DeliverOutput
    <2>2. \A c \in Calls : chan'[c].closed = chan[c].closed
      <3>1. \/ chan' = chan
            \/ chan' = [chan EXCEPT ![d.call].output =
                           Append(chan[d.call].output, [of |-> d.msg.id, n |-> d.msg.n])]
        BY <1>2, <2>1, Zenon DEF DeliverOutput
      <3> QED BY <1>0, <1>a, <3>1, ClosedKept, Zenon
    <2>3. Entries'
      BY <1>2, <2>2, Zenon DEF Ownership, Entries, DeliverOutput
    <2>4. InHand' /\ ChannelOwnership'
      BY <1>2, Zenon DEF DeliverOutput, InHand, ChannelOwnership
    <2> QED BY <2>3, <2>4, Zenon DEF Ownership
  <1>3. CASE DeliverResult
    <2>1. PICK d \in Dispatch : dispatching = <<d>>
      BY <1>0, <1>3, Zenon DEF DeliverResult
    <2>2. \A c \in Calls : chan'[c].closed = chan[c].closed
      <3>1. \/ chan' = [chan EXCEPT ![d.call].exit = <<d.msg.code>>]
            \/ chan' = [chan EXCEPT ![d.call].err = 1]
        BY <1>3, <2>1, Zenon DEF DeliverResult
      <3> QED BY <1>0, <1>a, <3>1, ClosedKept, Zenon
    <2>3. Entries'
      BY <1>3, <2>2, Zenon DEF Ownership, Entries, DeliverResult
    <2>4. /\ d.msg.t \in Final /\ d.call \in Calls
          /\ ~Registered(d.call) /\ pc[d.call] # "idle" /\ ~chan[d.call].closed
      BY <1>3, <1>a, <2>1, Zenon DEF DeliverResult, Ownership, InHand
    <2>5. dispatching' = <<[d EXCEPT !.sent = TRUE]>>
      BY <1>3, <2>1, Zenon DEF DeliverResult
    <2>6. /\ dispatching'[1].msg = d.msg /\ dispatching'[1].call = d.call
      BY <2>5, Zenon DEF Dispatch
    <2>7. InHand'
      BY <1>3, <2>2, <2>4, <2>6, Zenon DEF DeliverResult, InHand, Registered
    <2>8. ChannelOwnership'
      BY <1>3, <2>1, <2>4, Zenon DEF DeliverResult, ChannelOwnership
    <2> QED BY <2>3, <2>7, <2>8, Zenon DEF Ownership
  <1>4. CASE CloseChannels
    <2>1. PICK d \in Dispatch : dispatching = <<d>>
      BY <1>0, <1>4, Zenon DEF CloseChannels
    <2>2. /\ d.call \in Calls
          /\ ~Registered(d.call) /\ pc[d.call] # "idle" /\ ~chan[d.call].closed
      BY <1>4, <1>a, <2>1, Zenon DEF CloseChannels, Ownership, InHand
    <2>3. \A c \in Calls : c # d.call => chan'[c] = chan[c]
      BY <1>0, <1>4, <2>1, Zenon DEF CloseChannels
    <2>4. Entries'
      BY <1>4, <2>2, <2>3, ZenonT(30) DEF CloseChannels, Ownership, Entries, Registered
    <2>5. InHand' /\ ChannelOwnership'
      BY <1>4, <2>1, <2>2, Zenon DEF CloseChannels, InHand, ChannelOwnership
    <2> QED BY <2>4, <2>5, Zenon DEF Ownership
  <1>5. CASE BroadcastError
    <2>1. \A c \in Calls : chan'[c].closed = chan[c].closed
      BY <1>0, <1>5, Zenon DEF BroadcastError, Chan
    <2>2. Entries' /\ InHand'
      BY <1>5, <2>1, Zenon DEF BroadcastError, Ownership, Entries, InHand
    <2>3. \A c \in Calls : Registered(c) => ~chan[c].closed
      BY Zenon DEF Ownership, Entries, Registered
    <2>4. ChannelOwnership'
      BY <1>5, <2>3, Zenon DEF BroadcastError, ChannelOwnership
    <2> QED BY <2>2, <2>4, Zenon DEF Ownership
  <1>6. CASE CloseRequests
    <2>1. \A i \in Ids : reqs'[i] = NoCall
      BY <1>6, Zenon DEF CloseRequests
    <2>2. \A c \in Calls : ~Registered(c) => chan'[c] = chan[c]
      BY <1>6, Zenon DEF CloseRequests
    <2>3. \A c \in Calls : Registered(c) => pc[c] # "idle" /\ ~chan[c].closed
      BY Zenon DEF Ownership, Entries, Registered
    <2>4. Entries'
      BY <1>6, <2>1, <2>2, <2>3, ClientAssumption, Zenon
      DEF CloseRequests, Ownership, Entries
    <2>5. InHand'
      <3>1. dispatching # <<>> => dispatching[1].call \in Calls
        BY DispatchFields, Zenon DEF Ownership
      <3>2. \A c \in Calls : ~Registered(c)'
        BY <2>1, ClientAssumption, Zenon DEF Registered
      <3> QED BY <1>6, <2>2, <3>1, <3>2, Zenon DEF CloseRequests, Ownership, InHand
    <2>6. ChannelOwnership'
      BY <1>6, <2>3, Zenon DEF CloseRequests, ChannelOwnership
    <2> QED BY <2>4, <2>5, <2>6, Zenon DEF Ownership
  <1>7. CASE CloseConn
    BY <1>7, QuietStep, Zenon DEF CloseConn
  <1> QED BY <1>1, <1>2, <1>3, <1>4, <1>5, <1>6, <1>7, Zenon DEF ReadLoop

LEMMA NextOwnership == Ownership /\ [Next]_vars => Ownership'
  <1> SUFFICES ASSUME Ownership, [Next]_vars PROVE Ownership'
    BY Zenon
  <1>0. TypeOK'
    BY NextType, Zenon DEF Ownership
  <1>1. ASSUME NEW c \in Calls, Call(c) PROVE Ownership'
    BY <1>0, <1>1, CallOwnership, Zenon
  <1>2. CASE ReadLoop \/ Stop
    BY <1>0, <1>2, ReadLoopOwnership, Zenon DEF Stop
  <1>3. CASE UNCHANGED clientVars
    BY <1>0, <1>3, QuietStep, Zenon DEF clientVars
  <1> QED BY <1>1, <1>2, <1>3, Zenon DEF Next, vars

(* However StopVM, the read loop and the calls interleave, with any number *)
(* of calls and also after the ids have wrapped, no channel is closed      *)
(* twice and no result is sent to a closed channel: the entry in reqs      *)
(* decides who closes.                                                     *)
THEOREM ChannelsOwned == Spec => []ChannelOwnership
  <1>1. Spec => []Ownership
    BY InitOwnership, NextOwnership, PTL DEF Spec
  <1>2. Ownership => ChannelOwnership
    BY Zenon DEF Ownership
  <1> QED BY <1>1, <1>2, PTL

-----------------------------------------------------------------------------
(* Room in the result channels.  A call that has not been answered has     *)
(* nothing in them, and dispatch holds the answer of a call only once.     *)
Room ==
  /\ \A c \in Calls :
       Registered(c) \/ pc[c] = "idle" =>
         chan[c].exit = <<>> /\ (readerUp => chan[c].err = 0)
  /\ dispatching # <<>> => readerUp
  /\ ReaderNeverBlocks

\* Sending and receiving on one channel leaves the others alone.
LEMMA ChanUpdate ==
  ASSUME NEW c \in Calls, NEW v, chan \in [Calls -> Chan]
  PROVE  /\ \A d \in Calls \ {c} :
              /\ [chan EXCEPT ![c].output = v][d] = chan[d]
              /\ [chan EXCEPT ![c].exit = v][d] = chan[d]
              /\ [chan EXCEPT ![c].err = v][d] = chan[d]
              /\ [chan EXCEPT ![c].closed = v][d] = chan[d]
         /\ [chan EXCEPT ![c].output = v][c] = [chan[c] EXCEPT !.output = v]
         /\ [chan EXCEPT ![c].exit = v][c] = [chan[c] EXCEPT !.exit = v]
         /\ [chan EXCEPT ![c].err = v][c] = [chan[c] EXCEPT !.err = v]
         /\ [chan EXCEPT ![c].closed = v][c] = [chan[c] EXCEPT !.closed = v]
  BY Zenon

LEMMA ChanRecord ==
  ASSUME NEW r \in Chan, NEW v
  PROVE  /\ LET s == [r EXCEPT !.output = v]
            IN s.output = v /\ s.exit = r.exit /\ s.err = r.err /\ s.closed = r.closed
         /\ LET s == [r EXCEPT !.exit = v]
            IN s.output = r.output /\ s.exit = v /\ s.err = r.err /\ s.closed = r.closed
         /\ LET s == [r EXCEPT !.err = v]
            IN s.output = r.output /\ s.exit = r.exit /\ s.err = v /\ s.closed = r.closed
         /\ LET s == [r EXCEPT !.closed = v]
            IN s.output = r.output /\ s.exit = r.exit /\ s.err = r.err /\ s.closed = v
  BY Zenon DEF Chan

\* Steps that leave the results in the channels, and give dispatch nothing.
LEMMA ResultsKept ==
  ASSUME Ownership, Room, UNCHANGED readerUp,
         dispatching' = dispatching \/ dispatching' = <<>>,
         \A c \in Calls :
           /\ Registered(c)' \/ pc'[c] = "idle" => Registered(c) \/ pc[c] = "idle"
           /\ chan'[c].exit = chan[c].exit /\ chan'[c].err = chan[c].err
  PROVE  Room'
  <1>1. dispatching # <<>> => dispatching[1].call \in Calls
    BY DispatchFields, Zenon DEF Ownership
  <1>2. ReaderNeverBlocks' /\ (dispatching' # <<>> => readerUp')
    BY <1>1 DEF Room, ReaderNeverBlocks
  <1>3. ASSUME NEW c \in Calls, Registered(c)' \/ pc'[c] = "idle"
        PROVE  chan'[c].exit = <<>> /\ (readerUp' => chan'[c].err = 0)
    BY <1>3, Zenon DEF Room
  <1> QED BY <1>2, <1>3, Zenon DEF Room

LEMMA CallRoom ==
  ASSUME Ownership, Room, NEW c \in Calls, Call(c)
  PROVE  Room'
  <1>0. /\ chan \in [Calls -> Chan] /\ reqs \in [Ids -> Calls \cup {NoCall}]
        /\ pc \in [Calls -> {"idle", "send", "collect"} \cup Returned]
        /\ idOf \in [Calls -> Ids] /\ nextID \in Ids
    BY Zenon DEF Ownership, TypeOK, ClientTypeOK
  <1>a. dispatching # <<>> => dispatching[1].call \in Calls
    BY DispatchFields, Zenon DEF Ownership
  <1>1. CASE Register(c)
    <2>1. \A d \in Calls : Registered(d)' => Registered(d) \/ pc[d] = "idle"
      <3>1. PICK id : reqs' = [reqs EXCEPT ![id] = c] /\ pc[c] = "idle"
        BY <1>1, Zenon DEF Register
      <3> QED BY <1>0, <3>1, Zenon DEF Registered
    <2>2. \A d \in Calls : pc'[d] = "idle" => pc[d] = "idle"
      BY <1>0, <1>1, Zenon DEF Register
    <2> QED BY <1>1, <2>1, <2>2, ResultsKept, Zenon DEF Register
  <1>2. CASE SendRequestFails(c)
    <2>1. \A d \in Calls : Registered(d)' => Registered(d)
      <3>1. reqs' = [reqs EXCEPT ![idOf[c]] = NoCall]
        BY <1>2, Zenon DEF SendRequestFails
      <3> QED BY <1>0, <3>1, ClientAssumption, Zenon DEF Registered
    <2>2. \A d \in Calls : pc'[d] = "idle" => pc[d] = "idle"
      BY <1>0, <1>2, Zenon DEF SendRequestFails
    <2> QED BY <1>2, <2>1, <2>2, ResultsKept, Zenon DEF SendRequestFails
  <1>3. CASE SendRequest(c) \/ CancelStream(c)
    <2>1. \A d \in Calls : pc'[d] = "idle" => pc[d] = "idle"
      BY <1>0, <1>3, Zenon DEF SendRequest, CancelStream
    <2>2. UNCHANGED <<reqs, readerUp, dispatching, chan>>
      BY <1>3, Zenon DEF SendRequest, CancelStream
    <2> QED BY <2>1, <2>2, ResultsKept, Zenon DEF Registered
  <1>4. CASE SendInput(c) \/ SendEof(c) \/ InputEnds(c)
    <2>1. UNCHANGED <<reqs, readerUp, dispatching, chan, pc>>
      BY <1>4, Zenon DEF SendInput, SendEof, InputEnds
    <2> QED BY <2>1, ResultsKept, Zenon DEF Registered
  <1>5. CASE TakeOutput(c)
    <2>1. UNCHANGED <<reqs, readerUp, dispatching, pc>>
      BY <1>5, Zenon DEF TakeOutput
    <2>2. PICK v : chan' = [chan EXCEPT ![c].output = v]
      BY <1>5, Zenon DEF TakeOutput
    <2>3. \A d \in Calls : chan'[d].exit = chan[d].exit /\ chan'[d].err = chan[d].err
      <3>1. /\ chan'[c].exit = chan[c].exit /\ chan'[c].err = chan[c].err
        BY <1>0, <2>2, ChanUpdate, ChanRecord
      <3>2. \A d \in Calls \ {c} : chan'[d] = chan[d]
        BY <1>0, <2>2, ChanUpdate, Zenon
      <3> QED BY <3>1, <3>2, Zenon
    <2> QED BY <2>1, <2>3, ResultsKept, Zenon DEF Registered
  <1>6. CASE TakeExit(c)
    <2>1. /\ UNCHANGED <<reqs, readerUp, dispatching>>
          /\ pc[c] = "collect" /\ chan[c].exit # <<>>
          /\ \A d \in Calls : pc'[d] = "idle" => pc[d] = "idle"
      BY <1>0, <1>6, Zenon DEF TakeExit
    <2>2. PICK v : chan' = [chan EXCEPT ![c].exit = v]
      BY <1>6, Zenon DEF TakeExit
    <2>3. chan'[c].err = chan[c].err /\ \A d \in Calls \ {c} : chan'[d] = chan[d]
      BY <1>0, <2>2, ChanUpdate, ChanRecord
    <2>4. ~Registered(c) /\ pc'[c] # "idle"
      BY <1>0, <2>1, Zenon DEF Room
    <2>5. ReaderNeverBlocks'
      BY <1>a, <2>1, <2>3, Zenon DEF Room, ReaderNeverBlocks
    <2>6. ASSUME NEW d \in Calls, Registered(d)' \/ pc'[d] = "idle"
          PROVE  chan'[d].exit = <<>> /\ (readerUp' => chan'[d].err = 0)
      BY <2>1, <2>3, <2>4, <2>6, Zenon DEF Room, Registered
    <2> QED BY <2>1, <2>5, <2>6, Zenon DEF Room
  <1>7. CASE TakeError(c)
    <2>1. /\ UNCHANGED <<reqs, readerUp, dispatching>>
          /\ pc[c] = "collect"
          /\ \A d \in Calls : pc'[d] = "idle" => pc[d] = "idle"
          /\ chan' = [chan EXCEPT ![c].err = 0]
      BY <1>0, <1>7, Zenon DEF TakeError
    <2>2. /\ chan'[c].err = 0 /\ chan'[c].exit = chan[c].exit
          /\ \A d \in Calls \ {c} : chan'[d] = chan[d]
      BY <1>0, <2>1, ChanUpdate, ChanRecord
    <2>3. ReaderNeverBlocks'
      BY <1>a, <2>1, <2>2 DEF Room, ReaderNeverBlocks
    <2>4. ASSUME NEW d \in Calls, Registered(d)' \/ pc'[d] = "idle"
          PROVE  chan'[d].exit = <<>> /\ (readerUp' => chan'[d].err = 0)
      BY <2>1, <2>2, <2>4 DEF Room, Registered
    <2> QED BY <2>1, <2>3, <2>4, Zenon DEF Room
  <1> QED BY <1>1, <1>2, <1>3, <1>4, <1>5, <1>6, <1>7, Zenon DEF Call

LEMMA ReadLoopRoom ==
  ASSUME Ownership, Room, ReadLoop \/ CloseRequests \/ CloseConn
  PROVE  Room'
  <1>0. /\ chan \in [Calls -> Chan] /\ reqs \in [Ids -> Calls \cup {NoCall}]
        /\ dispatching # <<>> => \E d \in Dispatch : dispatching = <<d>>
        /\ toHost \in Seq(GuestFrame)
    BY Zenon DEF Ownership, TypeOK, PortTypeOK, ClientTypeOK
  <1>1. CASE Lookup
    <2>1. PICK m \in GuestFrame : m = Head(toHost)
      BY <1>0, <1>1, HeadTail, Zenon DEF Lookup
    <2>2. m.id \in Ids
      BY FrameFields, Zenon
    <2>3. /\ dispatching' = IF reqs[m.id] = NoCall THEN <<>>
                            ELSE <<[msg |-> m, call |-> reqs[m.id], sent |-> FALSE]>>
          /\ reqs' = IF m.t \in Final THEN [reqs EXCEPT ![m.id] = NoCall] ELSE reqs
          /\ UNCHANGED <<chan, pc, readerUp>> /\ readerUp
      BY <1>1, <2>1, Zenon DEF Lookup
    <2>4. \A d \in Calls : Registered(d)' => Registered(d)
      BY <1>0, <2>2, <2>3, ClientAssumption, Zenon DEF Registered
    <2>5. reqs[m.id] # NoCall =>
            chan[reqs[m.id]].exit = <<>> /\ chan[reqs[m.id]].err = 0
      BY <1>0, <2>2, <2>3, Zenon DEF Room, Registered
    <2>6. ReaderNeverBlocks'
      BY <2>3, <2>5, Zenon DEF ReaderNeverBlocks
    <2> QED BY <2>3, <2>4, <2>6, Zenon DEF Room
  <1>2. CASE DeliverOutput
    <2>1. PICK d \in Dispatch : dispatching = <<d>>
      BY <1>0, <1>2, Zenon DEF DeliverOutput
    <2>2. d.call \in Calls
      BY Zenon DEF Dispatch
    <2>3. \/ chan' = chan
          \/ \E v : chan' = [chan EXCEPT ![d.call].output = v]
      BY <1>2, <2>1, Zenon DEF DeliverOutput
    <2>4. \A c \in Calls : chan'[c].exit = chan[c].exit /\ chan'[c].err = chan[c].err
      <3>1. CASE chan' = chan
        BY <3>1, Zenon
      <3>2. ASSUME NEW v, chan' = [chan EXCEPT ![d.call].output = v]
            PROVE  \A c \in Calls : chan'[c].exit = chan[c].exit /\ chan'[c].err = chan[c].err
        <4>1. \A c \in Calls \ {d.call} : chan'[c] = chan[c]
          BY <1>0, <2>2, <3>2, ChanUpdate, Zenon
        <4>2. chan'[d.call].exit = chan[d.call].exit /\ chan'[d.call].err = chan[d.call].err
          BY <1>0, <2>2, <3>2, ChanUpdate, ChanRecord
        <4> QED BY <4>1, <4>2, Zenon
      <3> QED BY <2>3, <3>1, <3>2, Zenon
    <2>5. UNCHANGED <<reqs, readerUp, pc>> /\ dispatching' = <<>>
      BY <1>2, Zenon DEF DeliverOutput
    <2> QED BY <2>4, <2>5, ResultsKept, Zenon DEF Registered
  <1>3. CASE DeliverResult
    <2>1. PICK d \in Dispatch : dispatching = <<d>>
      BY <1>0, <1>3, Zenon DEF DeliverResult
    <2>2. d.call \in Calls
      BY Zenon DEF Dispatch
    <2>3. ~Registered(d.call) /\ pc[d.call] # "idle"
      BY <1>3, <2>1, Zenon DEF DeliverResult, Ownership, InHand
    <2>4. \A c \in Calls \ {d.call} : chan'[c] = chan[c]
      <3>1. \/ chan' = [chan EXCEPT ![d.call].exit = <<d.msg.code>>]
            \/ chan' = [chan EXCEPT ![d.call].err = 1]
        BY <1>3, <2>1, Zenon DEF DeliverResult
      <3> QED BY <1>0, <2>2, <3>1, ChanUpdate, Zenon
    <2>5. /\ UNCHANGED <<reqs, readerUp, pc>>
          /\ dispatching' = <<[d EXCEPT !.sent = TRUE]>>
      BY <1>3, <2>1, Zenon DEF DeliverResult
    <2>6. dispatching'[1].sent
      BY <2>5, Zenon DEF Dispatch
    <2>7. readerUp
      BY <2>1, Zenon DEF Room
    <2>8. \A c \in Calls : Registered(c)' \/ pc'[c] = "idle" =>
             chan'[c].exit = <<>> /\ (readerUp' => chan'[c].err = 0)
      BY <2>3, <2>4, <2>5, Zenon DEF Room, Registered
    <2> QED BY <2>5, <2>6, <2>7, <2>8, Zenon DEF Room, ReaderNeverBlocks
  <1>4. CASE CloseChannels
    <2>1. PICK d \in Dispatch : dispatching = <<d>>
      BY <1>0, <1>4, Zenon DEF CloseChannels
    <2>2. d.call \in Calls
      BY Zenon DEF Dispatch
    <2>3. /\ chan' = [chan EXCEPT ![d.call].closed = TRUE]
          /\ UNCHANGED <<reqs, readerUp, pc>> /\ dispatching' = <<>>
      BY <1>4, <2>1, Zenon DEF CloseChannels
    <2>4. /\ \A c \in Calls \ {d.call} : chan'[c] = chan[c]
          /\ chan'[d.call].exit = chan[d.call].exit
          /\ chan'[d.call].err = chan[d.call].err
      BY <1>0, <2>2, <2>3, ChanUpdate, ChanRecord
    <2>5. \A c \in Calls : chan'[c].exit = chan[c].exit /\ chan'[c].err = chan[c].err
      BY <2>4, Zenon
    <2> QED BY <2>3, <2>5, ResultsKept, Zenon DEF Registered
  <1>5. CASE BroadcastError
    <2>1. /\ UNCHANGED <<reqs, pc>> /\ dispatching' = <<>> /\ readerUp' = FALSE
          /\ chan' = [c \in Calls |->
                       IF Registered(c) THEN [chan[c] EXCEPT !.err = 1] ELSE chan[c]]
      BY <1>5, Zenon DEF BroadcastError
    <2>2. ASSUME NEW c \in Calls PROVE chan'[c].exit = chan[c].exit
      <3>1. [chan[c] EXCEPT !.err = 1].exit = chan[c].exit
        BY <1>0, ChanRecord
      <3> QED BY <2>1, <3>1, Zenon
    <2> QED BY <2>1, <2>2, Zenon DEF Room, Registered, ReaderNeverBlocks
  <1>6. CASE CloseRequests
    <2>1. /\ UNCHANGED <<readerUp, dispatching, pc>>
          /\ reqs' = [i \in Ids |-> NoCall]
          /\ chan' = [c \in Calls |->
                       IF Registered(c) THEN [chan[c] EXCEPT !.closed = TRUE] ELSE chan[c]]
      BY <1>6, Zenon DEF CloseRequests
    <2>2. ASSUME NEW c \in Calls
          PROVE  chan'[c].exit = chan[c].exit /\ chan'[c].err = chan[c].err
      <3>1. /\ [chan[c] EXCEPT !.closed = TRUE].exit = chan[c].exit
            /\ [chan[c] EXCEPT !.closed = TRUE].err = chan[c].err
        BY <1>0, ChanRecord
      <3> QED BY <2>1, <3>1, Zenon
    <2>3. \A c \in Calls : ~Registered(c)'
      BY <2>1, ClientAssumption, Zenon DEF Registered
    <2> QED BY <2>1, <2>2, <2>3, ResultsKept, Zenon
  <1>7. CASE CloseConn
    <2>1. UNCHANGED <<reqs, readerUp, dispatching, pc, chan>>
      BY <1>7, Zenon DEF CloseConn
    <2> QED BY <2>1, ResultsKept, Zenon DEF Registered
  <1> QED BY <1>1, <1>2, <1>3, <1>4, <1>5, <1>6, <1>7, Zenon DEF ReadLoop

(* The read loop never blocks on a result channel, with any number of      *)
(* calls and any width of the ids: a call cannot hold up the answers of    *)
(* the others by not taking its own.                                       *)
THEOREM ReaderGoesOn == Spec => []ReaderNeverBlocks
  <1>1. Init => Room
    BY ClientAssumption
    DEF Init, ClientInit, Room, ReaderNeverBlocks, NewChan
  <1>2. Ownership /\ Room /\ [Next]_vars => Room'
    <2> SUFFICES ASSUME Ownership, Room, [Next]_vars PROVE Room'
      BY Zenon
    <2>1. ASSUME NEW c \in Calls, Call(c) PROVE Room'
      BY <2>1, CallRoom, Zenon
    <2>2. CASE ReadLoop \/ Stop
      BY <2>2, ReadLoopRoom, Zenon DEF Stop
    <2>3. CASE UNCHANGED clientVars
      BY <2>3, ResultsKept, Zenon DEF clientVars, Registered
    <2> QED BY <2>1, <2>2, <2>3, Zenon DEF Next, vars
  <1>3. Room => ReaderNeverBlocks
    BY Zenon DEF Room
  <1> QED BY <1>1, <1>2, <1>3, InitOwnership, NextOwnership, PTL DEF Spec

-----------------------------------------------------------------------------
(* No call is forgotten.  startExec does not look whether the id it is     *)
(* about to give has an entry already, or belongs to a call that has yet   *)
(* to send its request.  FreshIds says that it does not, as long as calls  *)
(* are still to come: 2^32 of them would have to begin during one.         *)
FreshIds ==
  LET id == (nextID + 1) % IdSpace
  IN (\E c \in Calls : pc[c] = "idle") =>
       reqs[id] = NoCall /\ \A c \in Calls : pc[c] = "send" => idOf[c] # id

Unanswered(c) ==
  pc[c] \in {"send", "collect"} /\ ~chan[c].closed /\ chan[c].exit = <<>> /\ chan[c].err = 0
Held(c) == dispatching # <<>> /\ dispatching[1].call = c /\ dispatching[1].msg.t \in Final

Waiting ==
  /\ \A c \in Calls : Unanswered(c) => Registered(c) \/ Held(c)
  /\ \A c \in Calls : pc[c] = "send" => reqs[idOf[c]] \in {c, NoCall}

\* Steps that take no entry of a call that is still unanswered.
LEMMA WaitingKept ==
  ASSUME Waiting, idOf \in [Calls -> Ids], UNCHANGED idOf,
         \A i \in Ids : reqs'[i] \in {reqs[i], NoCall},
         \A c \in Calls :
           /\ pc'[c] = "send" => pc[c] = "send"
           /\ Unanswered(c)' => Unanswered(c)
           /\ Unanswered(c)' /\ (Registered(c) \/ Held(c)) => Registered(c)' \/ Held(c)'
  PROVE  Waiting'
  <1>1. ASSUME NEW c \in Calls, Unanswered(c)' PROVE Registered(c)' \/ Held(c)'
    BY <1>1, Zenon DEF Waiting
  <1>2. ASSUME NEW c \in Calls, pc'[c] = "send" PROVE reqs'[idOf'[c]] \in {c, NoCall}
    <2>1. idOf[c] \in Ids /\ reqs[idOf[c]] \in {c, NoCall}
      BY <1>2, Zenon DEF Waiting
    <2> QED BY <2>1, Zenon
  <1> QED BY <1>1, <1>2, Zenon DEF Waiting

\* The same for steps that leave the table and dispatch alone.
LEMMA WaitingQuiet ==
  ASSUME Waiting, idOf \in [Calls -> Ids], UNCHANGED <<reqs, dispatching, idOf>>,
         \A c \in Calls : /\ pc'[c] = "send" => pc[c] = "send"
                          /\ Unanswered(c)' => Unanswered(c)
  PROVE  Waiting'
  <1>1. \A c \in Calls : Registered(c)' = Registered(c) /\ Held(c)' = Held(c)
    BY Zenon DEF Registered, Held
  <1> QED BY <1>1, WaitingKept, Zenon

LEMMA CallWaiting ==
  ASSUME Ownership, Waiting, FreshIds, NEW c \in Calls, Call(c)
  PROVE  Waiting'
  <1>0. /\ chan \in [Calls -> Chan] /\ reqs \in [Ids -> Calls \cup {NoCall}]
        /\ pc \in [Calls -> {"idle", "send", "collect"} \cup Returned]
        /\ idOf \in [Calls -> Ids] /\ nextID \in Ids
    BY Zenon DEF Ownership, TypeOK, ClientTypeOK
  <1>1. CASE Register(c)
    <2> DEFINE id == (nextID + 1) % IdSpace
    <2>1. id \in Ids
      <3>1. nextID + 1 \in Nat
        BY <1>0, PortAssumption DEF Ids
      <3> QED BY <3>1, IdsWrap, Zenon
    <2>2. reqs[id] = NoCall /\ \A d \in Calls : pc[d] = "send" => idOf[d] # id
      <3>1. pc[c] = "idle"
        BY <1>1, Zenon DEF Register
      <3> QED BY <3>1, Zenon DEF FreshIds
    <2>3. /\ reqs' = [reqs EXCEPT ![id] = c] /\ idOf' = [idOf EXCEPT ![c] = id]
          /\ pc' = [pc EXCEPT ![c] = "send"] /\ UNCHANGED <<chan, dispatching>>
      BY <1>1, Zenon DEF Register
    <2> HIDE DEF id
    <2>4. Registered(c)'
      BY <1>0, <2>1, <2>3, Zenon DEF Registered
    <2>5. ASSUME NEW d \in Calls, d # c, Registered(d) PROVE Registered(d)'
      <3>1. PICK i \in Ids : reqs[i] = d
        BY <2>5, Zenon DEF Registered
      <3>2. reqs'[i] = d
        BY <1>0, <2>2, <2>3, <3>1, ClientAssumption, Zenon
      <3> QED BY <3>2, Zenon DEF Registered
    <2>6. ASSUME NEW d \in Calls, d # c, Unanswered(d)' PROVE Registered(d)' \/ Held(d)'
      <3>1. Unanswered(d)
        BY <1>0, <2>3, <2>6, Zenon DEF Unanswered
      <3>2. Held(d) => Held(d)'
        BY <2>3, Zenon DEF Held
      <3> QED BY <2>5, <2>6, <3>1, <3>2, Zenon DEF Waiting
    <2>7. ASSUME NEW d \in Calls, pc'[d] = "send" PROVE reqs'[idOf'[d]] \in {d, NoCall}
      <3>1. CASE d = c
        BY <1>0, <2>1, <2>3, <3>1, Zenon
      <3>2. CASE d # c
        <4>1. pc[d] = "send" /\ idOf'[d] = idOf[d] /\ idOf[d] # id
          BY <1>0, <2>2, <2>3, <2>7, <3>2, Zenon
        <4> QED BY <1>0, <2>3, <4>1, Zenon DEF Waiting
      <3> QED BY <3>1, <3>2, Zenon
    <2> QED BY <2>4, <2>6, <2>7, Zenon DEF Waiting
  <1>2. CASE SendRequestFails(c)
    <2>1. /\ reqs' = [reqs EXCEPT ![idOf[c]] = NoCall] /\ pc[c] = "send"
          /\ pc' = [pc EXCEPT ![c] = "failed"] /\ UNCHANGED <<chan, dispatching, idOf>>
      BY <1>2, Zenon DEF SendRequestFails
    <2>2. reqs[idOf[c]] \in {c, NoCall}
      BY <2>1, Zenon DEF Waiting
    <2>3. ASSUME NEW d \in Calls, Unanswered(d)'
          PROVE  d # c /\ Unanswered(d) /\ (Registered(d) => Registered(d)')
      <3>1. d # c /\ Unanswered(d)
        BY <1>0, <2>1, <2>3, Zenon DEF Unanswered, Returned
      <3>2. ASSUME NEW i \in Ids, reqs[i] = d PROVE reqs'[i] = d
        BY <1>0, <2>1, <2>2, <3>1, <3>2, ClientAssumption, Zenon
      <3> QED BY <3>1, <3>2, Zenon DEF Registered
    <2>4. \A d \in Calls : Held(d) => Held(d)'
      BY <2>1, Zenon DEF Held
    <2>5. \A d \in Calls : pc'[d] = "send" => pc[d] = "send"
      BY <1>0, <2>1, Zenon
    <2>6. \A i \in Ids : reqs'[i] \in {reqs[i], NoCall}
      BY <1>0, <2>1, Zenon
    <2> QED BY <1>0, <2>1, <2>3, <2>4, <2>5, <2>6, WaitingKept, Zenon
  <1>3. CASE SendRequest(c) \/ CancelStream(c)
    <2>1. UNCHANGED <<reqs, dispatching, idOf, chan>>
      BY <1>3, Zenon DEF SendRequest, CancelStream
    <2>2. ASSUME NEW d \in Calls
          PROVE  /\ pc'[d] = "send" => pc[d] = "send"
                 /\ pc'[d] \in {"send", "collect"} => pc[d] \in {"send", "collect"}
      BY <1>0, <1>3, Zenon DEF SendRequest, CancelStream
    <2> QED BY <1>0, <2>1, <2>2, WaitingQuiet, Zenon DEF Unanswered
  <1>4. CASE SendInput(c) \/ SendEof(c) \/ InputEnds(c)
    <2>1. UNCHANGED <<reqs, dispatching, idOf, chan, pc>>
      BY <1>4, Zenon DEF SendInput, SendEof, InputEnds
    <2> QED BY <1>0, <2>1, WaitingQuiet, Zenon DEF Unanswered
  <1>5. CASE TakeOutput(c)
    <2>1. UNCHANGED <<reqs, dispatching, idOf, pc>>
      BY <1>5, Zenon DEF TakeOutput
    <2>2. PICK v : chan' = [chan EXCEPT ![c].output = v]
      BY <1>5, Zenon DEF TakeOutput
    <2>3. /\ chan'[c].exit = chan[c].exit /\ chan'[c].err = chan[c].err
          /\ chan'[c].closed = chan[c].closed
          /\ \A d \in Calls \ {c} : chan'[d] = chan[d]
      BY <1>0, <2>2, ChanUpdate, ChanRecord
    <2>4. \A d \in Calls : Unanswered(d)' => Unanswered(d)
      BY <2>1, <2>3, Zenon DEF Unanswered
    <2> QED BY <1>0, <2>1, <2>4, WaitingQuiet, Zenon
  <1>6. CASE TakeExit(c) \/ TakeError(c)
    <2>1. UNCHANGED <<reqs, dispatching, idOf>>
      BY <1>6, Zenon DEF TakeExit, TakeError
    <2>2. /\ pc'[c] \in Returned
          /\ \A d \in Calls \ {c} : chan'[d] = chan[d] /\ pc'[d] = pc[d]
      <3>1. /\ \/ chan' = [chan EXCEPT ![c].exit = Tail(chan[c].exit)]
               \/ chan' = [chan EXCEPT ![c].err = 0]
            /\ \E r \in Returned : pc' = [pc EXCEPT ![c] = r]
        BY <1>6, Zenon DEF TakeExit, TakeError, Returned
      <3> QED BY <1>0, <3>1, ChanUpdate
    <2>3. \A d \in Calls : /\ pc'[d] = "send" => pc[d] = "send"
                           /\ Unanswered(d)' => Unanswered(d)
      BY <2>2, Zenon DEF Unanswered, Returned
    <2> QED BY <1>0, <2>1, <2>3, WaitingQuiet, Zenon
  <1> QED BY <1>1, <1>2, <1>3, <1>4, <1>5, <1>6, Zenon DEF Call

LEMMA ReadLoopWaiting ==
  ASSUME Ownership, Waiting, ReadLoop \/ CloseRequests \/ CloseConn
  PROVE  Waiting'
  <1>0. /\ chan \in [Calls -> Chan] /\ reqs \in [Ids -> Calls \cup {NoCall}]
        /\ dispatching # <<>> => \E d \in Dispatch : dispatching = <<d>>
        /\ toHost \in Seq(GuestFrame) /\ idOf \in [Calls -> Ids]
    BY Zenon DEF Ownership, TypeOK, PortTypeOK, ClientTypeOK
  <1>1. CASE Lookup
    <2>1. PICK m \in GuestFrame : m = Head(toHost)
      BY <1>0, <1>1, HeadTail, Zenon DEF Lookup
    <2>2. m.id \in Ids
      BY FrameFields, Zenon
    <2>3. /\ dispatching' = IF reqs[m.id] = NoCall THEN <<>>
                            ELSE <<[msg |-> m, call |-> reqs[m.id], sent |-> FALSE]>>
          /\ reqs' = IF m.t \in Final THEN [reqs EXCEPT ![m.id] = NoCall] ELSE reqs
          /\ UNCHANGED <<chan, pc, idOf>> /\ dispatching = <<>>
      BY <1>1, <2>1, Zenon DEF Lookup
    <2>4. ASSUME NEW c \in Calls, Registered(c) PROVE Registered(c)' \/ Held(c)'
      <3>1. PICK i \in Ids : reqs[i] = c
        BY <2>4, Zenon DEF Registered
      <3>2. CASE i = m.id /\ m.t \in Final
        BY <2>3, <3>1, <3>2, ClientAssumption, Zenon DEF Held
      <3>3. CASE ~(i = m.id /\ m.t \in Final)
        <4>1. reqs'[i] = c
          BY <1>0, <2>3, <3>1, <3>3, Zenon
        <4> QED BY <4>1, Zenon DEF Registered
      <3> QED BY <3>2, <3>3, Zenon
    <2>5. \A c \in Calls : ~Held(c) /\ (Unanswered(c)' => Unanswered(c))
      BY <2>3, Zenon DEF Held, Unanswered
    <2>6. \A i \in Ids : reqs'[i] \in {reqs[i], NoCall}
      BY <1>0, <2>3, Zenon
    <2> QED BY <1>0, <2>3, <2>4, <2>5, <2>6, WaitingKept, Zenon
  <1>2. CASE DeliverOutput
    <2>1. PICK d \in Dispatch : dispatching = <<d>>
      BY <1>0, <1>2, Zenon DEF DeliverOutput
    <2>2. /\ UNCHANGED <<reqs, pc, idOf>> /\ d.msg.t = "exec_output"
          /\ chan' = chan \/ \E v : chan' = [chan EXCEPT ![d.call].output = v]
      BY <1>2, <2>1, Zenon DEF DeliverOutput
    <2>3. d.call \in Calls
      BY Zenon DEF Dispatch
    <2>4. ASSUME NEW v, chan' = [chan EXCEPT ![d.call].output = v]
          PROVE  /\ chan'[d.call].exit = chan[d.call].exit
                 /\ chan'[d.call].err = chan[d.call].err
                 /\ chan'[d.call].closed = chan[d.call].closed
                 /\ \A c \in Calls \ {d.call} : chan'[c] = chan[c]
      BY <1>0, <2>3, <2>4, ChanUpdate, ChanRecord
    <2>5. \A c \in Calls : Unanswered(c)' => Unanswered(c)
      <3>1. CASE chan' = chan
        BY <2>2, <3>1, Zenon DEF Unanswered
      <3>2. CASE chan' # chan
        BY <2>2, <2>3, <2>4, <3>2, Zenon DEF Unanswered
      <3> QED BY <3>1, <3>2, Zenon
    <2>6. \A c \in Calls : ~Held(c)
      BY <2>1, <2>2, Zenon DEF Held, Final
    <2>7. \A c \in Calls : Registered(c)' = Registered(c)
      BY <2>2, Zenon DEF Registered
    <2> QED BY <1>0, <2>2, <2>5, <2>6, <2>7, WaitingKept, Zenon
  <1>3. CASE DeliverResult
    <2>1. PICK d \in Dispatch : dispatching = <<d>>
      BY <1>0, <1>3, Zenon DEF DeliverResult
    <2>2. d.call \in Calls
      BY Zenon DEF Dispatch
    <2>3. /\ UNCHANGED <<reqs, pc, idOf>> /\ dispatching' = <<[d EXCEPT !.sent = TRUE]>>
          /\ \/ chan' = [chan EXCEPT ![d.call].exit = <<d.msg.code>>]
             \/ chan' = [chan EXCEPT ![d.call].err = 1]
      BY <1>3, <2>1, Zenon DEF DeliverResult
    <2>4. /\ \A c \in Calls \ {d.call} : chan'[c] = chan[c]
          /\ chan'[d.call].exit # <<>> \/ chan'[d.call].err = 1
      <3>1. \A c \in Calls \ {d.call} : chan'[c] = chan[c]
        BY <1>0, <2>2, <2>3, ChanUpdate, Zenon
      <3>2. \/ chan'[d.call] = [chan[d.call] EXCEPT !.exit = <<d.msg.code>>]
            \/ chan'[d.call] = [chan[d.call] EXCEPT !.err = 1]
        BY <1>0, <2>2, <2>3, Zenon
      <3>3. /\ [chan[d.call] EXCEPT !.exit = <<d.msg.code>>].exit = <<d.msg.code>>
            /\ [chan[d.call] EXCEPT !.err = 1].err = 1
        BY <1>0, <2>2, Zenon DEF Chan
      <3>4. <<d.msg.code>> # <<>>
        BY Zenon
      <3> QED BY <3>1, <3>2, <3>3, <3>4, Zenon
    <2>5. \A c \in Calls : Unanswered(c)' => c # d.call /\ Unanswered(c)
      BY <2>3, <2>4 DEF Unanswered
    <2>6. \A c \in Calls : Held(c) => c = d.call
      BY <2>1, Zenon DEF Held
    <2>7. \A c \in Calls : Registered(c)' = Registered(c)
      BY <2>3, Zenon DEF Registered
    <2> QED BY <1>0, <2>3, <2>5, <2>6, <2>7, WaitingKept, Zenon
  <1>4. CASE CloseChannels
    <2>1. PICK d \in Dispatch : dispatching = <<d>>
      BY <1>0, <1>4, Zenon DEF CloseChannels
    <2>2. d.call \in Calls
      BY Zenon DEF Dispatch
    <2>3. /\ UNCHANGED <<reqs, pc, idOf>>
          /\ chan' = [chan EXCEPT ![d.call].closed = TRUE]
      BY <1>4, <2>1, Zenon DEF CloseChannels
    <2>4. chan'[d.call].closed /\ \A c \in Calls \ {d.call} : chan'[c] = chan[c]
      BY <1>0, <2>2, <2>3, ChanUpdate, ChanRecord
    <2>5. \A c \in Calls : Unanswered(c)' => c # d.call /\ Unanswered(c)
      BY <2>3, <2>4, Zenon DEF Unanswered
    <2>6. \A c \in Calls : Held(c) => c = d.call
      BY <2>1, Zenon DEF Held
    <2>7. \A c \in Calls : Registered(c)' = Registered(c)
      BY <2>3, Zenon DEF Registered
    <2> QED BY <1>0, <2>3, <2>5, <2>6, <2>7, WaitingKept, Zenon
  <1>5. CASE BroadcastError \/ CloseRequests
    <2>1. /\ UNCHANGED <<pc, idOf, dispatching>>
          /\ reqs' = reqs \/ reqs' = [i \in Ids |-> NoCall]
      BY <1>5, Zenon DEF BroadcastError, CloseRequests
    <2>2. ASSUME NEW c \in Calls
          PROVE  IF Registered(c) THEN chan'[c].err = 1 \/ chan'[c].closed
                                  ELSE chan'[c] = chan[c]
      <3>1. [chan[c] EXCEPT !.err = 1].err = 1 /\ [chan[c] EXCEPT !.closed = TRUE].closed
        BY <1>0, ChanRecord
      <3>2. chan'[c] \in IF Registered(c)
                         THEN {[chan[c] EXCEPT !.err = 1], [chan[c] EXCEPT !.closed = TRUE]}
                         ELSE {chan[c]}
        BY <1>5, Zenon DEF BroadcastError, CloseRequests
      <3> QED BY <3>1, <3>2, Zenon
    <2>3. \A c \in Calls : Unanswered(c)' => Unanswered(c) /\ ~Registered(c)
      BY <2>1, <2>2 DEF Unanswered
    <2>4. \A c \in Calls : Held(c)' = Held(c)
      BY <2>1, Zenon DEF Held
    <2>5. \A i \in Ids : reqs'[i] \in {reqs[i], NoCall}
      BY <2>1, Zenon
    <2> QED BY <1>0, <2>1, <2>3, <2>4, <2>5, WaitingKept, Zenon
  <1>6. CASE CloseConn
    <2>1. UNCHANGED <<reqs, dispatching, idOf, pc, chan>>
      BY <1>6, Zenon DEF CloseConn
    <2> QED BY <1>0, <2>1, WaitingQuiet, Zenon DEF Unanswered
  <1> QED BY <1>1, <1>2, <1>3, <1>4, <1>5, <1>6, Zenon DEF ReadLoop

(* A call that waits is in the table, so that its answer, the end of the   *)
(* connection or StopVM will reach it, for any number of calls and however *)
(* often the ids have wrapped, as long as the id given next is free.       *)
THEOREM NoneForgotten == Spec /\ []FreshIds => []WaitersReachable
  <1>1. Init => Waiting
    BY Zenon DEF Init, ClientInit, Waiting, Unanswered
  <1>2. Ownership /\ FreshIds /\ Waiting /\ [Next]_vars => Waiting'
    <2> SUFFICES ASSUME Ownership, FreshIds, Waiting, [Next]_vars PROVE Waiting'
      BY Zenon
    <2>1. ASSUME NEW c \in Calls, Call(c) PROVE Waiting'
      BY <2>1, CallWaiting, Zenon
    <2>2. CASE ReadLoop \/ Stop
      BY <2>2, ReadLoopWaiting, Zenon DEF Stop
    <2>3. CASE UNCHANGED clientVars
      <3>1. idOf \in [Calls -> Ids]
        BY Zenon DEF Ownership, TypeOK, ClientTypeOK
      <3> QED BY <2>3, <3>1, WaitingQuiet, Zenon DEF clientVars, Unanswered
    <2> QED BY <2>1, <2>2, <2>3, Zenon DEF Next, vars
  <1>3. Waiting => WaitersReachable
    BY Zenon DEF Waiting, WaitersReachable, Unanswered, Held
  <1> QED BY <1>1, <1>2, <1>3, InitOwnership, NextOwnership, PTL DEF Spec

-----------------------------------------------------------------------------
(* What can stop the daemon.  Until StopVM's Close begins, only dispatch   *)
(* closes channels, and it has nothing in hand of a call it has closed.    *)
Intact ==
  closer = "none" =>
    /\ panicked = "no"
    /\ dispatching # <<>> => ~chan[dispatching[1].call].closed

(* The only channel misuse there is: output, for a call whose channels     *)
(* Close has closed between dispatch's look into reqs and its send.        *)
OnlyCloseMisused ==
  panicked # "no" => panicked = "send output" /\ closer # "none"

\* A call's own steps close no channel and do not touch what dispatch holds.
LEMMA CallCloses ==
  ASSUME TypeOK, NEW c \in Calls, Call(c)
  PROVE  /\ UNCHANGED <<dispatching, panicked, closer, readerUp>>
         /\ \A d \in Calls : chan'[d].closed = chan[d].closed
  <1>0. chan \in [Calls -> Chan]
    BY Zenon DEF TypeOK, ClientTypeOK
  <1>1. UNCHANGED <<dispatching, panicked, closer, readerUp>>
    BY Zenon DEF Call, Register, SendRequest, SendRequestFails, TakeOutput, TakeExit,
                 TakeError, CancelStream, SendInput, SendEof, InputEnds
  <1>2. \/ chan' = chan
        \/ chan' = [chan EXCEPT ![c].output = Tail(chan[c].output)]
        \/ chan' = [chan EXCEPT ![c].exit = Tail(chan[c].exit)]
        \/ chan' = [chan EXCEPT ![c].err = 0]
    BY Zenon DEF Call, Register, SendRequest, SendRequestFails, TakeOutput, TakeExit,
                 TakeError, CancelStream, SendInput, SendEof, InputEnds
  <1>3. \A d \in Calls : chan'[d].closed = chan[d].closed
    BY <1>0, <1>2, ClosedKept, Zenon
  <1> QED BY <1>1, <1>3, Zenon

LEMMA ReadLoopIntact ==
  ASSUME Ownership, Intact, ReadLoop, closer = "none"
  PROVE  Intact'
  <1>0. /\ chan \in [Calls -> Chan] /\ reqs \in [Ids -> Calls \cup {NoCall}]
        /\ toHost \in Seq(GuestFrame)
        /\ dispatching # <<>> => /\ dispatching[1].call \in Calls
                                 /\ dispatching[1].msg \in GuestFrame
    BY DispatchFields, Zenon DEF Ownership, TypeOK, PortTypeOK, ClientTypeOK
  <1>1. CASE Lookup
    <2>1. PICK m \in GuestFrame : m = Head(toHost)
      BY <1>0, <1>1, HeadTail, Zenon DEF Lookup
    <2>2. m.id \in Ids
      BY FrameFields, Zenon
    <2>3. /\ dispatching' = IF reqs[m.id] = NoCall THEN <<>>
                            ELSE <<[msg |-> m, call |-> reqs[m.id], sent |-> FALSE]>>
          /\ UNCHANGED <<chan, panicked>>
      BY <1>1, <2>1, Zenon DEF Lookup
    <2>4. reqs[m.id] # NoCall => reqs[m.id] \in Calls /\ ~chan[reqs[m.id]].closed
      BY <1>0, <2>2, Zenon DEF Ownership, Entries
    <2> QED BY <2>3, <2>4, Zenon DEF Intact
  <1>2. CASE DeliverOutput
    BY <1>2, Zenon DEF DeliverOutput, Intact
  <1>3. CASE DeliverResult
    <2>1. ~chan[dispatching[1].call].closed
      BY <1>3, Zenon DEF DeliverResult, Intact
    <2>2. panicked' = "no"
      BY <1>3, <2>1, Zenon DEF DeliverResult
    <2>3. dispatching'[1].call = dispatching[1].call
      <3>1. dispatching[1] \in Dispatch
        BY <1>3, DispatchFields, Zenon DEF DeliverResult, Ownership
      <3> QED BY <1>3, <3>1, Zenon DEF DeliverResult, Dispatch
    <2>4. chan'[dispatching[1].call].closed = chan[dispatching[1].call].closed
      <3>1. \/ chan' = [chan EXCEPT ![dispatching[1].call].exit = <<dispatching[1].msg.code>>]
            \/ chan' = [chan EXCEPT ![dispatching[1].call].err = 1]
        BY <1>3, Zenon DEF DeliverResult
      <3>2. dispatching[1].call \in Calls
        BY <1>0, <1>3, Zenon DEF DeliverResult
      <3> QED BY <1>0, <3>1, <3>2, ClosedKept, Zenon
    <2> QED BY <2>1, <2>2, <2>3, <2>4, Zenon DEF Intact
  <1>4. CASE CloseChannels
    BY <1>4, Zenon DEF CloseChannels, Intact
  <1>5. CASE BroadcastError
    <2>1. \A c \in Calls : Registered(c) => ~chan[c].closed
      BY Zenon DEF Ownership, Entries, Registered
    <2> QED BY <1>5, <2>1, Zenon DEF BroadcastError, Intact
  <1> QED BY <1>1, <1>2, <1>3, <1>4, <1>5, Zenon DEF ReadLoop

LEMMA NextIntact == Ownership /\ Intact /\ [Next]_vars => Intact'
  <1> SUFFICES ASSUME Ownership, Intact, [Next]_vars PROVE Intact'
    BY Zenon
  <1>1. ASSUME NEW c \in Calls, Call(c) PROVE Intact'
    <2>1. /\ UNCHANGED <<dispatching, panicked, closer>>
          /\ \A d \in Calls : chan'[d].closed = chan[d].closed
      BY <1>1, CallCloses, Zenon DEF Ownership
    <2>2. dispatching # <<>> => dispatching[1].call \in Calls
      BY DispatchFields, Zenon DEF Ownership
    <2> QED BY <2>1, <2>2, Zenon DEF Intact
  <1>2. CASE ReadLoop
    <2>1. UNCHANGED closer
      BY <1>2, Zenon DEF ReadLoop, Lookup, DeliverOutput, DeliverResult, CloseChannels,
                         BroadcastError
    <2> QED BY <1>2, <2>1, ReadLoopIntact, Zenon DEF Intact
  <1>3. CASE Stop
    BY <1>3, Zenon DEF Stop, CloseRequests, CloseConn, Intact
  <1>4. CASE UNCHANGED clientVars
    BY <1>4, Zenon DEF clientVars, Intact
  <1> QED BY <1>1, <1>2, <1>3, <1>4, Zenon DEF Next, vars

LEMMA AlwaysIntact == Spec => [](Ownership /\ Intact)
  <1>1. Init => Intact
    BY Zenon DEF Init, ClientInit, Intact
  <1> QED BY <1>1, InitOwnership, NextOwnership, NextIntact, PTL DEF Spec

(* The one way the exec path can kill the daemon, for any number of calls  *)
(* and any interleaving: dispatch sends output to a call whose channels    *)
(* Close has closed.  Results and closes never meet a closed channel, and  *)
(* before Close has begun nothing does.                                    *)
THEOREM OnlyStopPanics == Spec => []OnlyCloseMisused
  <1>1. Ownership /\ Intact => OnlyCloseMisused
    <2>1. Ownership => panicked \in {"no", "send output", "send result", "close twice"}
      BY Zenon DEF Ownership, TypeOK, ClientTypeOK
    <2> QED BY <2>1 DEF Ownership, ChannelOwnership, Intact, OnlyCloseMisused
  <1> QED BY <1>1, AlwaysIntact, PTL

(* As long as no StopVM closes a machine's client, its calls leave the     *)
(* daemon up, whatever they, the guest and the read loop do: the panic of  *)
(* MCStopPanic is StopVM's alone.                                          *)
THEOREM UpWithoutStop ==
  ASSUME "stop" \notin Events PROVE Spec => []StopLeavesDaemonUp
  <1>1. Init => closer = "none"
    BY Zenon DEF Init, ClientInit
  <1>2. closer = "none" /\ [Next]_vars => (closer = "none")'
    BY Zenon DEF Next, vars, Call, Register, SendRequest, SendRequestFails, TakeOutput,
                 TakeExit, TakeError, CancelStream, SendInput, SendEof, InputEnds,
                 ReadLoop, Lookup, DeliverOutput, DeliverResult, CloseChannels,
                 BroadcastError, Stop, clientVars
  <1>3. Intact /\ closer = "none" => StopLeavesDaemonUp
    BY Zenon DEF Intact, StopLeavesDaemonUp, DaemonUp
  <1> QED BY <1>1, <1>2, <1>3, AlwaysIntact, PTL DEF Spec

-----------------------------------------------------------------------------
(* What the end of the read loop leaves.  A call is told when its exit     *)
(* code or an error is in its channels.  Informed says that dispatch       *)
(* closes the channels of a call only when it has told it.  Farewell says  *)
(* that, once readLoop has returned, dispatch has nothing in hand, no      *)
(* request can be written, and a call that waits is told or closed.        *)
Told(c) == chan[c].exit # <<>> \/ chan[c].err = 1

Informed ==
  closer = "none" =>
    \A c \in Calls : pc[c] \notin Returned =>
      /\ chan[c].closed => Told(c)
      /\ dispatching # <<>> /\ dispatching[1].sent /\ dispatching[1].call = c => Told(c)

Farewell ==
  /\ dispatching # <<>> => readerUp
  /\ ~readerUp =>
       ~CanWrite /\ \A c \in Calls : pc[c] = "collect" => chan[c].closed \/ Told(c)

\* The steps of a call take nothing it was told, except to return.
LEMMA CallTells ==
  ASSUME TypeOK, NEW c \in Calls, Call(c)
  PROVE  \A d \in Calls :
           /\ pc'[d] \notin Returned =>
                pc[d] \notin Returned /\ Told(d)' = Told(d)
           /\ pc'[d] = "collect" => pc[d] = "collect" \/ SendRequest(c)
  <1>0. /\ chan \in [Calls -> Chan]
        /\ pc \in [Calls -> {"idle", "send", "collect"} \cup Returned]
    BY Zenon DEF TypeOK, ClientTypeOK
  <1> SUFFICES ASSUME NEW d \in Calls
               PROVE  /\ pc'[d] \notin Returned =>
                           pc[d] \notin Returned /\ Told(d)' = Told(d)
                      /\ pc'[d] = "collect" => pc[d] = "collect" \/ SendRequest(c)
    BY Zenon
  <1>1. CASE Register(c) \/ SendRequest(c) \/ SendRequestFails(c) \/ CancelStream(c)
    <2>1. /\ chan' = chan /\ pc[c] \in {"idle", "send", "collect"}
          /\ \E p : pc' = [pc EXCEPT ![c] = p] /\ (p = "collect" => SendRequest(c))
      BY <1>1, Zenon DEF Register, SendRequest, SendRequestFails, CancelStream
    <2>2. pc[c] \notin Returned
      BY <2>1 DEF Returned
    <2> QED BY <1>0, <2>1, <2>2, Zenon DEF Told
  <1>2. CASE SendInput(c) \/ SendEof(c) \/ InputEnds(c)
    BY <1>2, Zenon DEF SendInput, SendEof, InputEnds, Told
  <1>3. CASE TakeOutput(c)
    <2>1. PICK v : chan' = [chan EXCEPT ![c].output = v]
      BY <1>3, Zenon DEF TakeOutput
    <2>2. chan'[d].exit = chan[d].exit /\ chan'[d].err = chan[d].err
      <3>1. CASE d = c
        BY <1>0, <2>1, <3>1, ChanUpdate, ChanRecord
      <3>2. CASE d # c
        BY <1>0, <2>1, <3>2, Zenon
      <3> QED BY <3>1, <3>2, Zenon
    <2> QED BY <1>3, <2>2, Zenon DEF TakeOutput, Told
  <1>4. CASE TakeExit(c) \/ TakeError(c)
    <2>1. /\ \/ chan' = [chan EXCEPT ![c].exit = Tail(chan[c].exit)]
             \/ chan' = [chan EXCEPT ![c].err = 0]
          /\ \E r \in Returned : pc' = [pc EXCEPT ![c] = r]
      BY <1>4, Zenon DEF TakeExit, TakeError, Returned
    <2>2. CASE d = c
      <3>1. pc'[c] \in Returned
        BY <1>0, <2>1, Zenon
      <3> QED BY <2>2, <3>1, Zenon DEF Returned
    <2>3. CASE d # c
      <3>1. chan'[d] = chan[d] /\ pc'[d] = pc[d]
        BY <1>0, <2>1, <2>3, Zenon
      <3> QED BY <3>1, Zenon DEF Told
    <2> QED BY <2>2, <2>3, Zenon
  <1> QED BY <1>1, <1>2, <1>3, <1>4, Zenon DEF Call

\* Only a receive takes from a channel, and no step opens it again.
LEMMA StillTold ==
  ASSUME NEW c \in Calls, chan[c] \in Chan,
         \/ chan'[c] = chan[c]
         \/ \E v : chan'[c] = [chan[c] EXCEPT !.output = v]
         \/ \E v : chan'[c] = [chan[c] EXCEPT !.exit = <<v>>]
         \/ chan'[c] = [chan[c] EXCEPT !.err = 1]
         \/ chan'[c] = [chan[c] EXCEPT !.closed = TRUE]
  PROVE  (Told(c) => Told(c)') /\ (chan[c].closed => chan'[c].closed)
  <1>1. CASE chan'[c] = chan[c]
    BY <1>1, Zenon DEF Told
  <1>2. ASSUME NEW v, chan'[c] = [chan[c] EXCEPT !.output = v]
        PROVE  /\ chan'[c].exit = chan[c].exit /\ chan'[c].err = chan[c].err
               /\ chan'[c].closed = chan[c].closed
    BY <1>2, ChanRecord
  <1>3. ASSUME NEW v, chan'[c] = [chan[c] EXCEPT !.exit = <<v>>]
        PROVE  chan'[c].exit # <<>> /\ chan'[c].closed = chan[c].closed
    BY <1>3, ChanRecord
  <1>4. ASSUME chan'[c] = [chan[c] EXCEPT !.err = 1]
        PROVE  chan'[c].err = 1 /\ chan'[c].closed = chan[c].closed
    BY <1>4, ChanRecord
  <1>5. ASSUME chan'[c] = [chan[c] EXCEPT !.closed = TRUE]
        PROVE  /\ chan'[c].exit = chan[c].exit /\ chan'[c].err = chan[c].err
               /\ chan'[c].closed
    BY <1>5, ChanRecord
  <1> QED BY <1>1, <1>2, <1>3, <1>4, <1>5, Zenon DEF Told

\* What the steps of the read loop and of Close do to what calls are told.
LEMMA LoopTells ==
  ASSUME TypeOK, ReadLoop \/ CloseRequests \/ CloseConn
  PROVE  \A c \in Calls : (Told(c) => Told(c)') /\ (chan[c].closed => chan'[c].closed)
  <1>0. /\ chan \in [Calls -> Chan]
        /\ dispatching # <<>> => dispatching[1].call \in Calls
    BY DispatchFields, Zenon DEF TypeOK, ClientTypeOK
  <1> SUFFICES ASSUME NEW c \in Calls
               PROVE  (Told(c) => Told(c)') /\ (chan[c].closed => chan'[c].closed)
    BY Zenon
  <1>2. CASE Lookup \/ CloseConn
    BY <1>2, Zenon DEF Lookup, CloseConn, Told
  <1>3. CASE DeliverOutput \/ DeliverResult \/ CloseChannels
    <2> DEFINE e == dispatching[1].call
    <2>1. e \in Calls
      BY <1>0, <1>3, Zenon DEF DeliverOutput, DeliverResult, CloseChannels
    <2>2. \/ chan' = chan
          \/ \E v : chan' = [chan EXCEPT ![e].output = v]
          \/ \E v : chan' = [chan EXCEPT ![e].exit = <<v>>]
          \/ chan' = [chan EXCEPT ![e].err = 1]
          \/ chan' = [chan EXCEPT ![e].closed = TRUE]
      BY <1>3, Zenon DEF DeliverOutput, DeliverResult, CloseChannels
    <2> HIDE DEF e
    <2>3. CASE c # e
      <3>1. chan'[c] = chan[c]
        BY <1>0, <2>1, <2>2, <2>3, Zenon
      <3> QED BY <3>1, Zenon DEF Told
    <2>4. CASE c = e
      <3>1. \/ chan'[c] = chan[c]
            \/ \E v : chan'[c] = [chan[c] EXCEPT !.output = v]
            \/ \E v : chan'[c] = [chan[c] EXCEPT !.exit = <<v>>]
            \/ chan'[c] = [chan[c] EXCEPT !.err = 1]
            \/ chan'[c] = [chan[c] EXCEPT !.closed = TRUE]
        BY <1>0, <2>1, <2>2, <2>4, Zenon
      <3>2. chan[c] \in Chan
        BY <1>0, Zenon
      <3> QED BY <3>1, <3>2, StillTold, Zenon
    <2> QED BY <2>3, <2>4, Zenon
  <1>4. CASE BroadcastError \/ CloseRequests
    <2>1. \/ chan'[c] = chan[c]
          \/ chan'[c] = [chan[c] EXCEPT !.err = 1]
          \/ chan'[c] = [chan[c] EXCEPT !.closed = TRUE]
      BY <1>4, Zenon DEF BroadcastError, CloseRequests
    <2>2. chan[c] \in Chan
      BY <1>0, Zenon
    <2> QED BY <2>1, <2>2, StillTold, Zenon
  <1> QED BY <1>2, <1>3, <1>4, Zenon DEF ReadLoop

LEMMA CallInformed ==
  ASSUME TypeOK, Informed, NEW c \in Calls, Call(c)
  PROVE  Informed'
  <1>1. /\ UNCHANGED <<dispatching, closer>>
        /\ \A d \in Calls : chan'[d].closed = chan[d].closed
    BY CallCloses, Zenon
  <1>2. \A d \in Calls : pc'[d] \notin Returned => pc[d] \notin Returned /\ Told(d)' = Told(d)
    BY CallTells, Zenon
  <1> QED BY <1>1, <1>2, Zenon DEF Informed

LEMMA ReadLoopInformed ==
  ASSUME Ownership, Informed, ReadLoop, closer = "none"
  PROVE  Informed'
  <1>0. /\ chan \in [Calls -> Chan]
        /\ dispatching # <<>> => /\ dispatching[1] \in Dispatch
                                 /\ dispatching[1].call \in Calls
    BY DispatchFields, Zenon DEF Ownership, TypeOK, ClientTypeOK
  <1>a. UNCHANGED pc
    BY Zenon DEF ReadLoop, Lookup, DeliverOutput, DeliverResult, CloseChannels, BroadcastError
  <1>b. \A c \in Calls : Told(c) => Told(c)'
    BY LoopTells, Zenon DEF Ownership
  <1>1. ASSUME \A c \in Calls : chan'[c].closed = chan[c].closed,
               dispatching' # <<>> => ~dispatching'[1].sent
        PROVE  Informed'
    BY <1>1, <1>a, <1>b, Zenon DEF Informed
  <1>2. CASE Lookup
    <2>1. chan' = chan
      BY <1>2, Zenon DEF Lookup
    <2>2. dispatching' # <<>> => dispatching'[1].sent = FALSE
      BY <1>2, Zenon DEF Lookup
    <2> QED BY <1>1, <2>1, <2>2, Zenon
  <1>3. CASE DeliverOutput
    <2>1. dispatching' = <<>> /\ dispatching[1].call \in Calls
      BY <1>0, <1>3, Zenon DEF DeliverOutput
    <2>2. \/ chan' = chan
          \/ \E v : chan' = [chan EXCEPT ![dispatching[1].call].output = v]
      BY <1>3, Zenon DEF DeliverOutput
    <2>3. \A c \in Calls : chan'[c].closed = chan[c].closed
      BY <1>0, <2>1, <2>2, ClosedKept, Zenon
    <2> QED BY <1>1, <2>1, <2>3, Zenon
  <1>4. CASE DeliverResult
    <2>0. PICK e \in Calls : e = dispatching[1].call
      BY <1>0, <1>4, Zenon DEF DeliverResult
    <2>1. dispatching[1] \in Dispatch
      BY <1>0, <1>4, Zenon DEF DeliverResult
    <2>2. \/ \E v : chan' = [chan EXCEPT ![e].exit = <<v>>]
          \/ chan' = [chan EXCEPT ![e].err = 1]
      BY <1>4, <2>0, Zenon DEF DeliverResult
    <2>3. dispatching' # <<>> /\ dispatching'[1].call = e
      BY <1>4, <2>0, <2>1, Zenon DEF DeliverResult, Dispatch
    <2>4. \A c \in Calls : chan'[c].closed = chan[c].closed
      BY <1>0, <2>2, ClosedKept, Zenon
    <2>5. Told(e)'
      <3>1. chan[e] \in Chan
        BY <1>0, Zenon
      <3>2. \/ \E v : chan'[e] = [chan[e] EXCEPT !.exit = <<v>>]
            \/ chan'[e] = [chan[e] EXCEPT !.err = 1]
        BY <1>0, <2>2, Zenon
      <3>3. ASSUME NEW v PROVE [chan[e] EXCEPT !.exit = <<v>>].exit # <<>>
        BY <3>1, ChanRecord
      <3>4. [chan[e] EXCEPT !.err = 1].err = 1
        BY <3>1, ChanRecord
      <3> QED BY <3>2, <3>3, <3>4, Zenon DEF Told
    <2> QED BY <1>a, <1>b, <2>3, <2>4, <2>5, Zenon DEF Informed
  <1>5. CASE CloseChannels
    <2> DEFINE e == dispatching[1].call
    <2>1. /\ e \in Calls /\ dispatching' = <<>>
          /\ chan' = [chan EXCEPT ![e].closed = TRUE]
          /\ dispatching # <<>> /\ dispatching[1].sent
      BY <1>0, <1>5, Zenon DEF CloseChannels
    <2>2. pc[e] \notin Returned => Told(e)
      BY <2>1, Zenon DEF Informed
    <2> HIDE DEF e
    <2>3. \A c \in Calls : c # e => chan'[c] = chan[c]
      BY <1>0, <2>1, Zenon
    <2> QED BY <1>a, <1>b, <2>1, <2>2, <2>3, Zenon DEF Informed
  <1>6. CASE BroadcastError
    <2>1. dispatching' = <<>>
      BY <1>6, Zenon DEF BroadcastError
    <2>2. \A c \in Calls : chan'[c].closed = chan[c].closed
      BY <1>0, <1>6, Zenon DEF BroadcastError, Chan
    <2> QED BY <1>1, <2>1, <2>2, Zenon
  <1> QED BY <1>2, <1>3, <1>4, <1>5, <1>6, Zenon DEF ReadLoop

LEMMA NextInformed == Ownership /\ Informed /\ [Next]_vars => Informed'
  <1> SUFFICES ASSUME Ownership, Informed, [Next]_vars PROVE Informed'
    BY Zenon
  <1>1. ASSUME NEW c \in Calls, Call(c) PROVE Informed'
    BY <1>1, CallInformed, Zenon DEF Ownership
  <1>2. CASE ReadLoop
    <2>1. UNCHANGED closer
      BY <1>2, Zenon DEF ReadLoop, Lookup, DeliverOutput, DeliverResult, CloseChannels,
                         BroadcastError
    <2> QED BY <1>2, <2>1, ReadLoopInformed, Zenon DEF Informed
  <1>3. CASE Stop
    BY <1>3, Zenon DEF Stop, CloseRequests, CloseConn, Informed
  <1>4. CASE UNCHANGED clientVars
    BY <1>4, Zenon DEF clientVars, Informed, Told
  <1> QED BY <1>1, <1>2, <1>3, <1>4, Zenon DEF Next, vars

\* Neither end of the port comes back.
LEMMA PortEnds ==
  ASSUME [Next]_vars PROVE (connOpen' => connOpen) /\ (guestUp' => guestUp)
  <1> DEFINE Kept == connOpen' = connOpen /\ guestUp' = guestUp
  <1>1. ASSUME NEW c \in Calls, Call(c) PROVE Kept
    BY <1>1, Zenon DEF Call, Register, SendRequest, SendRequestFails, TakeOutput, TakeExit,
             TakeError, CancelStream, SendInput, SendEof, InputEnds, portVars
  <1>2. ReadLoop => Kept
    BY Zenon DEF ReadLoop, Lookup, DeliverOutput, DeliverResult, CloseChannels,
                 BroadcastError, portVars
  <1>3. Stop => Kept \/ (connOpen' = FALSE /\ guestUp' = guestUp)
    BY Zenon DEF Stop, CloseRequests, CloseConn, portVars
  <1>4. Guest => Kept
    BY Zenon DEF Guest, StartExec, RejectFrame, StartExecFails, ExecAborts, RelayOutput,
             OutputEnds, ProcessExits, HandleStdin, StdinHangsUp, SendResponse, portVars
  <1>5. QemuDies => guestUp' = FALSE /\ connOpen' = connOpen
    BY Zenon DEF QemuDies, GuestDies
  <1>6. UNCHANGED vars => Kept
    BY Zenon DEF vars, portVars
  <1>7. \/ Kept
        \/ connOpen' = FALSE /\ guestUp' = guestUp
        \/ guestUp' = FALSE /\ connOpen' = connOpen
    <2> HIDE DEF Kept
    <2> QED BY <1>1, <1>2, <1>3, <1>4, <1>5, <1>6, Zenon DEF Next
  <1> QED BY <1>7

LEMMA NextFarewell ==
  Ownership /\ WaitersReachable /\ Farewell /\ [Next]_vars => Farewell'
  <1> SUFFICES ASSUME Ownership, WaitersReachable, Farewell, [Next]_vars PROVE Farewell'
    BY Zenon
  <1>0. CanWrite' => CanWrite
    BY PortEnds, Zenon DEF CanWrite
  <1>1. ASSUME NEW c \in Calls, Call(c) PROVE Farewell'
    <2>1. /\ UNCHANGED <<dispatching, readerUp>>
          /\ \A d \in Calls : chan'[d].closed = chan[d].closed
      BY <1>1, CallCloses, Zenon DEF Ownership
    <2>3. SendRequest(c) => readerUp
      BY Zenon DEF SendRequest, Farewell
    <2>4. ASSUME NEW d \in Calls, ~readerUp, pc'[d] = "collect"
          PROVE  chan'[d].closed \/ Told(d)'
      <3>1. pc'[d] \notin Returned
        BY <2>4, Zenon DEF Returned
      <3>2. pc[d] = "collect" /\ Told(d)' = Told(d)
        BY <1>1, <2>3, <2>4, <3>1, CallTells, Zenon DEF Ownership
      <3> QED BY <2>1, <2>4, <3>2, Zenon DEF Farewell
    <2> QED BY <1>0, <2>1, <2>4, Zenon DEF Farewell
  <1>2. CASE (ReadLoop /\ ~BroadcastError) \/ Stop
    <2>1. UNCHANGED <<readerUp, pc>> /\ (dispatching' # <<>> => readerUp)
      BY <1>2, Zenon DEF Farewell, ReadLoop, Lookup, DeliverOutput, DeliverResult,
             CloseChannels, Stop, CloseRequests, CloseConn
    <2>2. \A c \in Calls : (Told(c) => Told(c)') /\ (chan[c].closed => chan'[c].closed)
      BY <1>2, LoopTells, Zenon DEF Ownership, Stop
    <2> QED BY <1>0, <2>1, <2>2, Zenon DEF Farewell
  <1>3. CASE BroadcastError
    <2>1. /\ dispatching' = <<>> /\ dispatching = <<>> /\ UNCHANGED <<pc, portVars>>
          /\ ~connOpen \/ ~guestUp
      BY <1>3, Zenon DEF BroadcastError
    <2>2. ~CanWrite'
      BY <2>1, Zenon DEF CanWrite, portVars
    <2>3. ASSUME NEW c \in Calls, pc[c] = "collect" PROVE chan'[c].closed \/ Told(c)'
      <3>0. chan[c] \in Chan
        BY Zenon DEF Ownership, TypeOK, ClientTypeOK
      <3>1. CASE Registered(c)
        <4>1. chan'[c] = [chan[c] EXCEPT !.err = 1]
          BY <1>3, <3>1, Zenon DEF BroadcastError
        <4> QED BY <3>0, <4>1, ChanRecord DEF Told
      <3>2. CASE ~Registered(c)
        <4>1. chan[c].closed \/ chan[c].exit # <<>> \/ chan[c].err # 0
          BY <2>1, <2>3, <3>2, Zenon DEF WaitersReachable
        <4>2. chan[c].err # 0 => chan[c].err = 1
          BY <3>0 DEF Chan
        <4>3. chan'[c] = chan[c]
          BY <1>3, <3>2, Zenon DEF BroadcastError
        <4> QED BY <4>1, <4>2, <4>3, Zenon DEF Told
      <3> QED BY <3>1, <3>2, Zenon
    <2> QED BY <2>1, <2>2, <2>3, Zenon DEF Farewell
  <1>4. CASE UNCHANGED clientVars
    BY <1>0, <1>4, Zenon DEF clientVars, Farewell, Told
  <1> QED BY <1>1, <1>2, <1>3, <1>4, Zenon DEF Next, vars

-----------------------------------------------------------------------------
(* Whose a frame is.  As long as no id is given twice during the life of   *)
(* a machine, an id stands for one call and for one process.               *)
UnusedIds ==
  (\E c \in Calls : pc[c] = "idle") =>
    \A c \in Calls : pc[c] # "idle" => idOf[c] # (nextID + 1) % IdSpace

\* The id of a call whose exec_request has been written.
Used(i) == \E c \in Calls : pc[c] \notin {"idle", "send"} /\ idOf[c] = i

\* The command of that id is over: it is neither asked for nor running.
Over(i) ==
  /\ Used(i)
  /\ \A k \in 1 .. Len(toGuest) : toGuest[k].t = "exec_request" => toGuest[k].id # i
  /\ job # <<>> => Current.id # i

(* An id has one call, and is in one place at a time on its way to sandboxd *)
(* and back.                                                               *)
Identified ==
  /\ \A c, d \in Calls : /\ pc[c] # "idle" /\ pc[d] # "idle" /\ c # d
                         => idOf[c] # idOf[d]
  /\ \A c \in Calls : inputOpen[c] => pc[c] \notin {"idle", "send"}
  /\ \A k \in 1 .. Len(toGuest) : Used(toGuest[k].id)
  /\ \A k, l \in 1 .. Len(toGuest) :
       /\ toGuest[k].t = "exec_request" /\ toGuest[l].t = "exec_request" /\ k # l
       => toGuest[k].id # toGuest[l].id
  /\ job # <<>> =>
       /\ Used(Current.id)
       /\ \A k \in 1 .. Len(toGuest) :
            toGuest[k].t = "exec_request" => toGuest[k].id # Current.id

\* An answer says how the command of its id ended, once it is over.
Truthful(m) ==
  /\ m.t \in Final /\ m.id # 0 => Over(m.id)
  /\ m.t = "exec_response" => Over(m.id) /\ m.code = exitOf[m.id]

Answered ==
  /\ \A k \in 1 .. Len(toHost) : Truthful(toHost[k])
  /\ AnswerIsLast

(* What dispatch and the channels hold for a call is about its own id, and *)
(* so is the code it returns.                                              *)
Routed ==
  /\ dispatching # <<>> =>
       LET d == dispatching[1] IN
       idOf[d.call] = d.msg.id /\ pc[d.call] # "idle" /\ Truthful(d.msg)
  /\ \A c \in Calls :
       /\ pc[c] = "idle" => got[c] = <<>> /\ chan[c].output = <<>> /\ chan[c].exit = <<>>
       /\ \A k \in 1 .. Len(chan[c].exit) :
            Over(idOf[c]) /\ chan[c].exit[k] = exitOf[idOf[c]]
       /\ pc[c] = "exited" => Over(idOf[c]) /\ code[c] = exitOf[idOf[c]]

(* Chunk n of id i comes before those of that id on the wire w and in the  *)
(* hand d of dispatch, and is one of the p printed.                        *)
Output(m, i) == m.t = "exec_output" /\ m.id = i
BeforeWire(w, i, n) == \A k \in 1 .. Len(w) : Output(w[k], i) => n < w[k].n
BeforeDispatch(d, i, n) == d # <<>> /\ Output(d[1].msg, i) => n < d[1].msg.n
Ahead(w, d, p, i, n) == n <= p[i] /\ BeforeWire(w, i, n) /\ BeforeDispatch(d, i, n)

(* Chunks come in the order they were printed, from the wire through       *)
(* dispatch and the channel to the call, though some may be dropped.       *)
WireOrdered(w, p) ==
  /\ \A k \in 1 .. Len(w) : w[k].t = "exec_output" => w[k].n <= p[w[k].id]
  /\ \A k, l \in 1 .. Len(w) :
       k < l /\ w[k].t = "exec_output" /\ Output(w[l], w[k].id) => w[k].n < w[l].n
DispatchOrdered(w, d, p) ==
  d # <<>> /\ d[1].msg.t = "exec_output" =>
    /\ d[1].msg.n <= p[d[1].msg.id]
    /\ BeforeWire(w, d[1].msg.id, d[1].msg.n)
CallOrdered(w, d, p, i, g, q) ==
  /\ \A k \in 1 .. Len(q) :
       /\ q[k].of = i /\ Ahead(w, d, p, i, q[k].n)
       /\ \A l \in 1 .. Len(q) : k < l => q[k].n < q[l].n
  /\ \A k \in 1 .. Len(g) :
       /\ g[k].of = i /\ Ahead(w, d, p, i, g[k].n)
       /\ \A l \in 1 .. Len(g) : k < l => g[k].n < g[l].n
       /\ \A l \in 1 .. Len(q) : g[k].n < q[l].n

Ordered ==
  /\ WireOrdered(toHost, printed)
  /\ DispatchOrdered(toHost, dispatching, printed)
  /\ \A c \in Calls :
       CallOrdered(toHost, dispatching, printed, idOf[c], got[c], chan[c].output)

-----------------------------------------------------------------------------
(* A queue that has lost frames at its ends only.                          *)
Part(t, s) ==
  \E d \in Nat : \A k \in 1 .. Len(t) : k + d \in 1 .. Len(s) /\ t[k] = s[k + d]

LEMMA PartTail ==
  ASSUME NEW S, NEW s \in Seq(S), s # <<>>
  PROVE  Part(Tail(s), s) /\ Head(s) = s[1] /\ 1 \in 1 .. Len(s)
  <1>1. \A k \in 1 .. Len(Tail(s)) : k + 1 \in 1 .. Len(s) /\ Tail(s)[k] = s[k + 1]
    OBVIOUS
  <1>2. Head(s) = s[1] /\ 1 \in 1 .. Len(s) /\ 1 \in Nat
    OBVIOUS
  <1> QED BY <1>1, <1>2, Zenon DEF Part

LEMMA PartSame ==
  ASSUME NEW S, NEW s \in Seq(S)
  PROVE  Part(s, s) /\ Part(<<>>, s)
  <1>1. \A k \in 1 .. Len(s) : k + 0 \in 1 .. Len(s) /\ s[k] = s[k + 0]
    OBVIOUS
  <1>2. 0 \in Nat /\ \A k \in 1 .. Len(<<>>) : FALSE
    OBVIOUS
  <1> QED BY <1>1, <1>2, Zenon DEF Part

LEMMA PartSub ==
  ASSUME NEW S, NEW s \in Seq(S), NEW n \in 0 .. Len(s)
  PROVE  Part(SubSeq(s, 1, n), s)
  <1>1. \A k \in 1 .. Len(SubSeq(s, 1, n)) :
          k + 0 \in 1 .. Len(s) /\ SubSeq(s, 1, n)[k] = s[k + 0]
    OBVIOUS
  <1> QED BY <1>1, Zenon DEF Part

\* Where two frames of such a queue were.
LEMMA PartPair ==
  ASSUME NEW t, NEW s, Part(t, s)
  PROVE  \A k, l \in 1 .. Len(t) :
           \E a, b \in 1 .. Len(s) :
             t[k] = s[a] /\ t[l] = s[b] /\ (k < l => a < b) /\ (k # l => a # b)
  <1>1. PICK d \in Nat : \A j \in 1 .. Len(t) : j + d \in 1 .. Len(s) /\ t[j] = s[j + d]
    BY Zenon DEF Part
  <1>2. \A k, l \in 1 .. Len(t) : (k < l => k + d < l + d) /\ (k # l => k + d # l + d)
    <2>1. \A x, y, z \in Int : (x < y => x + z < y + z) /\ (x # y => x + z # y + z)
      OBVIOUS
    <2>2. d \in Int /\ \A k \in 1 .. Len(t) : k \in Int
      OBVIOUS
    <2> QED BY <2>1, <2>2, Zenon
  <1> TAKE k, l \in 1 .. Len(t)
  <1> QED BY <1>1, <1>2, ZenonT(30)

\* A queue with one more frame.
LEMMA AppendAt ==
  ASSUME NEW S, NEW s \in Seq(S), NEW e \in S
  PROVE  \A k \in 1 .. Len(Append(s, e)) :
           \/ k \in 1 .. Len(s) /\ Append(s, e)[k] = s[k]
           \/ k = Len(s) + 1 /\ Append(s, e)[k] = e
  OBVIOUS

-----------------------------------------------------------------------------
(* No request is lost.  While a machine is up and in use, and nobody has   *)
(* opened a session on it, the request of a call in reqs is on its way to  *)
(* sandboxd, the one being run, or answered on the port.  A session could  *)
(* swallow it: handleStdin takes any frame.  NoInput says that without one *)
(* no command has its stdin open, and Linked that only Close takes the     *)
(* connection down.                                                        *)
Carries(q, kinds, i) == \E k \in 1 .. Len(q) : q[k].t \in kinds /\ q[k].id = i

Asking == {"exec_request"}
Underway(c) ==
  \/ Carries(toGuest, Asking, idOf[c])
  \/ job # <<>> /\ Current.id = idOf[c]
  \/ Carries(toHost, Final, idOf[c])

InUse == closer = "none" /\ guestUp /\ NoSessions

Tracked ==
  InUse => \A c \in Calls : pc[c] = "collect" /\ Registered(c) => Underway(c)

NoInput ==
  NoSessions =>
    /\ job # <<>> => ~Current.stdinOpen
    /\ \A k \in 1 .. Len(toGuest) :
         toGuest[k].t = "exec_request" => ~toGuest[k].stdin /\ ~toGuest[k].pty

Linked == closer = "none" => connOpen

LEMMA CarriesMore ==
  ASSUME NEW S, NEW s \in Seq(S), NEW e \in S, NEW kinds, NEW i
  PROVE  /\ Carries(s, kinds, i) => Carries(Append(s, e), kinds, i)
         /\ e.t \in kinds /\ e.id = i => Carries(Append(s, e), kinds, i)
  <1>1. /\ \A k \in 1 .. Len(s) : k \in 1 .. Len(Append(s, e)) /\ Append(s, e)[k] = s[k]
        /\ Len(s) + 1 \in 1 .. Len(Append(s, e)) /\ Append(s, e)[Len(s) + 1] = e
    OBVIOUS
  <1> QED BY <1>1, Zenon DEF Carries

LEMMA CarriesRest ==
  ASSUME NEW S, NEW s \in Seq(S), s # <<>>, NEW kinds, NEW i, Carries(s, kinds, i)
  PROVE  Carries(Tail(s), kinds, i) \/ (Head(s).t \in kinds /\ Head(s).id = i)
  <1>1. PICK k \in 1 .. Len(s) : s[k].t \in kinds /\ s[k].id = i
    BY Zenon DEF Carries
  <1>2. CASE k = 1
    <2>1. Head(s) = s[1]
      OBVIOUS
    <2> QED BY <1>1, <1>2, <2>1, Zenon
  <1>3. CASE k # 1
    <2>1. k - 1 \in 1 .. Len(Tail(s)) /\ Tail(s)[k - 1] = s[k]
      BY <1>3
    <2> QED BY <1>1, <2>1, Zenon DEF Carries
  <1> QED BY <1>2, <1>3, Zenon

\* What a step of a call does to the table, the ids and the queue to the guest.
LEMMA CallSends ==
  ASSUME TypeOK, NEW c \in Calls, Call(c)
  PROVE  /\ UNCHANGED <<toHost, connOpen, guestUp, closer>>
         /\ \A d \in Calls :
              /\ pc'[d] = "idle" => pc[d] = "idle"
              /\ pc'[d] = "collect" => /\ idOf'[d] = idOf[d]
                                       /\ Registered(d)' => Registered(d)
         /\ \/ toGuest' = toGuest
            \/ /\ SendRequest(c)
               /\ toGuest' = Append(toGuest, ExecRequest(idOf[c], c \in Streams, c \in Ptys))
            \/ \E f \in HostFrame : /\ f.t # "exec_request"
                                    /\ toGuest' = Append(toGuest, f)
  <1>0. /\ reqs \in [Ids -> Calls \cup {NoCall}] /\ idOf \in [Calls -> Ids]
        /\ pc \in [Calls -> {"idle", "send", "collect"} \cup Returned]
    BY Zenon DEF TypeOK, ClientTypeOK
  <1>1. UNCHANGED <<toHost, connOpen, guestUp, closer>>
    BY Zenon DEF Call, Register, SendRequest, SendRequestFails, TakeOutput, TakeExit,
             TakeError, CancelStream, SendInput, SendEof, InputEnds, portVars
  <1>2. ASSUME NEW d \in Calls
        PROVE  /\ pc'[d] = "idle" => pc[d] = "idle"
               /\ pc'[d] = "collect" => /\ idOf'[d] = idOf[d]
                                        /\ Registered(d)' => Registered(d)
    <2>1. CASE Register(c)
      <3>1. PICK i : /\ reqs' = [reqs EXCEPT ![i] = c] /\ idOf' = [idOf EXCEPT ![c] = i]
                     /\ pc' = [pc EXCEPT ![c] = "send"]
        BY <2>1, Zenon DEF Register
      <3> QED BY <1>0, <3>1, Zenon DEF Registered
    <2>2. CASE SendRequestFails(c)
      <3>1. /\ reqs' = [reqs EXCEPT ![idOf[c]] = NoCall] /\ idOf' = idOf
            /\ pc' = [pc EXCEPT ![c] = "failed"]
        BY <2>2, Zenon DEF SendRequestFails
      <3> QED BY <1>0, <3>1, ClientAssumption, Zenon DEF Registered
    <2>3. CASE ~Register(c) /\ ~SendRequestFails(c)
      <3>1. UNCHANGED <<reqs, idOf>>
        BY <2>3, Zenon DEF Call, SendRequest, TakeOutput, TakeExit, TakeError, CancelStream,
                 SendInput, SendEof, InputEnds
      <3>2. pc' = pc \/ \E p \in {"collect"} \cup Returned : pc' = [pc EXCEPT ![c] = p]
        BY <2>3, Zenon DEF Call, SendRequest, TakeOutput, TakeExit, TakeError, CancelStream,
                 SendInput, SendEof, InputEnds, Returned
      <3>3. pc'[d] = "idle" => pc[d] = "idle"
        BY <1>0, <3>2 DEF Returned
      <3> QED BY <3>1, <3>3, Zenon DEF Registered
    <2> QED BY <2>1, <2>2, <2>3, Zenon
  <1>3. \/ toGuest' = toGuest
        \/ /\ SendRequest(c)
           /\ toGuest' = Append(toGuest, ExecRequest(idOf[c], c \in Streams, c \in Ptys))
        \/ \E f \in HostFrame : f.t # "exec_request" /\ toGuest' = Append(toGuest, f)
    <2>1. CASE SendRequest(c)
      BY <2>1, Zenon DEF SendRequest, HostWrite
    <2>2. CASE SendInput(c) \/ SendEof(c)
      <3>1. idOf[c] \in Ids
        BY <1>0, Zenon
      <3>2. \E f \in {StdinData(idOf[c], FALSE), StdinData(idOf[c], TRUE), PtyResize(idOf[c])} :
              HostWrite(f)
        BY <2>2, Zenon DEF SendInput, SendEof
      <3>3. /\ StdinData(idOf[c], FALSE) \in HostFrame /\ StdinData(idOf[c], TRUE) \in HostFrame
            /\ PtyResize(idOf[c]) \in HostFrame
        BY <3>1, HostFrames, Zenon
      <3>4. /\ StdinData(idOf[c], FALSE).t # "exec_request"
            /\ StdinData(idOf[c], TRUE).t # "exec_request"
            /\ PtyResize(idOf[c]).t # "exec_request"
        BY DEF StdinData, PtyResize
      <3> QED BY <3>2, <3>3, <3>4, Zenon DEF HostWrite
    <2>3. CASE ~SendRequest(c) /\ ~SendInput(c) /\ ~SendEof(c)
      BY <2>3, Zenon DEF Call, Register, SendRequestFails, TakeOutput, TakeExit,
             TakeError, CancelStream, InputEnds, portVars
    <2> QED BY <2>1, <2>2, <2>3, Zenon
  <1> QED BY <1>1, <1>2, <1>3, Zenon

LEMMA CallTracked ==
  ASSUME TypeOK, Tracked, NoInput, Linked, NEW c \in Calls, Call(c), UNCHANGED guestVars
  PROVE  Tracked' /\ NoInput' /\ Linked'
  <1>0. /\ toGuest \in Seq(HostFrame) /\ idOf \in [Calls -> Ids]
        /\ pc \in [Calls -> {"idle", "send", "collect"} \cup Returned]
    BY Zenon DEF TypeOK, PortTypeOK, ClientTypeOK
  <1>1. /\ UNCHANGED <<toHost, connOpen, guestUp, closer, job>>
        /\ \A d \in Calls :
             /\ pc'[d] = "idle" => pc[d] = "idle"
             /\ pc'[d] = "collect" => /\ idOf'[d] = idOf[d]
                                      /\ Registered(d)' => Registered(d)
    BY CallSends, Zenon DEF guestVars
  <1>2. NoSessions' => NoSessions
    BY <1>1, ClientAssumption, Zenon DEF NoSessions, Calls
  <1>3. Linked'
    BY <1>1, Zenon DEF Linked
  <1> DEFINE r == ExecRequest(idOf[c], c \in Streams, c \in Ptys)
  <1>4. r \in HostFrame /\ r.t = "exec_request" /\ r.id = idOf[c]
        /\ r.stdin = (c \in Streams) /\ r.pty = (c \in Ptys)
    <2>1. idOf[c] \in Ids /\ (c \in Streams) \in BOOLEAN /\ (c \in Ptys) \in BOOLEAN
      BY <1>0
    <2>2. r \in HostFrame
      BY <2>1, HostFrames, Zenon
    <2> QED BY <2>2, Zenon DEF ExecRequest
  <1>5. \/ toGuest' = toGuest
        \/ SendRequest(c) /\ toGuest' = Append(toGuest, r)
        \/ \E f \in HostFrame : f.t # "exec_request" /\ toGuest' = Append(toGuest, f)
    BY CallSends, Zenon
  <1>6. SendRequest(c) => /\ NoSessions => c \notin Streams /\ c \notin Ptys
                          /\ pc' = [pc EXCEPT ![c] = "collect"]
                          /\ toGuest' = Append(toGuest, r)
    BY ClientAssumption, Zenon DEF SendRequest, NoSessions, HostWrite
  <1> HIDE DEF r
  <1>7. NoInput'
    <2> SUFFICES ASSUME NoSessions, NEW k \in 1 .. Len(toGuest'), toGuest'[k].t = "exec_request"
                 PROVE  ~toGuest'[k].stdin /\ ~toGuest'[k].pty
      BY <1>1, <1>2, Zenon DEF NoInput, Current
    <2>1. CASE k \in 1 .. Len(toGuest) /\ toGuest'[k] = toGuest[k]
      BY <2>1, Zenon DEF NoInput
    <2>2. CASE toGuest' = toGuest
      BY <2>1, <2>2, Zenon
    <2>3. ASSUME NEW f \in HostFrame, toGuest' = Append(toGuest, f),
                 f.t = "exec_request" => ~f.stdin /\ ~f.pty
          PROVE  ~toGuest'[k].stdin /\ ~toGuest'[k].pty
      <3>1. k \in 1 .. Len(Append(toGuest, f))
        BY <2>3, Zenon
      <3>2. \/ k \in 1 .. Len(toGuest) /\ toGuest'[k] = toGuest[k]
            \/ toGuest'[k] = f
        BY <1>0, <2>3, <3>1, AppendAt, Zenon
      <3> QED BY <2>1, <2>3, <3>2, Zenon
    <2>4. SendRequest(c) => ~r.stdin /\ ~r.pty
      BY <1>4, <1>6, Zenon
    <2> QED BY <1>4, <1>5, <2>2, <2>3, <2>4, Zenon
  <1>8. ASSUME NEW d \in Calls, Carries(toGuest, Asking, idOf[d])
        PROVE  Carries(toGuest', Asking, idOf[d])
    BY <1>0, <1>4, <1>5, <1>8, CarriesMore, Zenon
  <1>9. ASSUME InUse', NEW d \in Calls, pc'[d] = "collect", Registered(d)'
        PROVE  Underway(d)'
    <2>1. idOf'[d] = idOf[d] /\ Registered(d) /\ InUse
      BY <1>1, <1>2, <1>9, Zenon DEF InUse
    <2>2. CASE pc[d] = "collect"
      <3>1. Underway(d)
        BY <2>1, <2>2, Zenon DEF Tracked
      <3> QED BY <1>1, <1>8, <2>1, <3>1, Zenon DEF Underway, Current
    <2>3. CASE pc[d] # "collect"
      <3>1. SendRequest(c)
        BY <1>9, <2>3, CallTells, Zenon
      <3>2. d = c
        BY <1>0, <1>6, <1>9, <2>3, <3>1, Zenon
      <3>3. r.t \in Asking /\ r.id = idOf[c] /\ r \in HostFrame
        BY <1>4, Zenon DEF Asking
      <3>4. Carries(toGuest', Asking, idOf[c])
        <4>1. toGuest \in Seq(HostFrame)
          BY <1>0, Zenon
        <4>2. Carries(Append(toGuest, r), Asking, idOf[c])
          BY <3>3, <4>1, CarriesMore
        <4> QED BY <1>6, <3>1, <4>2, Zenon
      <3> QED BY <2>1, <3>2, <3>4, Zenon DEF Underway
    <2> QED BY <2>2, <2>3, Zenon
  <1> QED BY <1>3, <1>7, <1>9, Zenon DEF Tracked

LEMMA ReadLoopTracked ==
  ASSUME TypeOK, Entries, Tracked, NoInput, Linked, ReadLoop, UNCHANGED guestVars
  PROVE  Tracked' /\ NoInput' /\ Linked'
  <1>0. toHost \in Seq(GuestFrame) /\ reqs \in [Ids -> Calls \cup {NoCall}]
    BY Zenon DEF TypeOK, PortTypeOK, ClientTypeOK
  <1>1. UNCHANGED <<toGuest, connOpen, guestUp, closer, pc, idOf, job>>
    BY Zenon DEF ReadLoop, Lookup, DeliverOutput, DeliverResult, CloseChannels,
                 BroadcastError, portVars, guestVars
  <1>2. NoInput' /\ Linked' /\ InUse' = InUse
    BY <1>1, Zenon DEF NoInput, Linked, InUse, NoSessions, Current
  <1>3. CASE Lookup
    <2>1. PICK m \in GuestFrame : m = Head(toHost)
      BY <1>0, <1>3, HeadTail, Zenon DEF Lookup
    <2>2. m.id \in Ids
      BY FrameFields, Zenon
    <2>3. /\ reqs' = IF m.t \in Final THEN [reqs EXCEPT ![m.id] = NoCall] ELSE reqs
          /\ toHost' = Tail(toHost) /\ toHost # <<>>
      BY <1>3, <2>1, Zenon DEF Lookup
    <2>4. ASSUME InUse, NEW c \in Calls, pc[c] = "collect", Registered(c)'
          PROVE  Underway(c)'
      <3>1. PICK i \in Ids : reqs'[i] = c
        BY <2>4, Zenon DEF Registered
      <3>2. reqs[i] = c /\ ~(m.t \in Final /\ m.id = i)
        BY <1>0, <2>3, <3>1, ClientAssumption, Zenon
      <3>3. idOf[c] = i /\ Registered(c)
        BY <3>2, Zenon DEF Entries, Registered
      <3>4. Underway(c)
        BY <2>4, <3>3, Zenon DEF Tracked
      <3>5. Carries(toHost, Final, i) => Carries(toHost', Final, i)
        BY <1>0, <2>1, <2>3, <3>2, CarriesRest, Zenon
      <3> QED BY <1>1, <3>3, <3>4, <3>5, Zenon DEF Underway, Current
    <2> QED BY <1>1, <1>2, <2>4, Zenon DEF Tracked
  <1>4. CASE ~Lookup
    <2>1. UNCHANGED <<reqs, toHost>>
      BY <1>4, Zenon DEF ReadLoop, DeliverOutput, DeliverResult, CloseChannels,
                         BroadcastError, portVars
    <2> QED BY <1>1, <1>2, <2>1, Zenon DEF Tracked, Underway, Registered, Current
  <1> QED BY <1>3, <1>4, Zenon

LEMMA GuestTracked ==
  ASSUME TypeOK, Tracked, NoInput, Linked, Guest, UNCHANGED clientVars
  PROVE  Tracked' /\ NoInput' /\ Linked'
  <1>0. /\ toHost \in Seq(GuestFrame) /\ toGuest \in Seq(HostFrame)
        /\ idOf \in [Calls -> Ids]
        /\ job # <<>> => Current \in Job
        /\ exitOf \in [Ids -> Codes] /\ printed \in [Ids -> 0 .. MaxOut]
    <2>1. job # <<>> => Current \in Job
      BY DEF TypeOK, SandboxdTypeOK, Current
    <2> QED BY <2>1, Zenon DEF TypeOK, PortTypeOK, ClientTypeOK, SandboxdTypeOK
  <1>1. UNCHANGED <<connOpen, guestUp, closer, pc, idOf, reqs>>
    BY Zenon DEF Guest, StartExec, RejectFrame, StartExecFails, ExecAborts, RelayOutput,
             OutputEnds, ProcessExits, HandleStdin, StdinHangsUp, SendResponse, portVars, clientVars
  <1>2. Linked' /\ InUse' = InUse /\ NoSessions' = NoSessions
    BY <1>1, Zenon DEF Linked, InUse, NoSessions
  <1>3. \A c \in Calls : Registered(c)' = Registered(c)
    BY <1>1, Zenon DEF Registered
  <1>4. InUse => connOpen
    BY Zenon DEF InUse, Linked
  <1>5. ASSUME InUse => \A c \in Calls : Underway(c) => Underway(c)' PROVE Tracked'
    BY <1>1, <1>2, <1>3, <1>5, Zenon DEF Tracked
  <1> USE DEF Idle, Running
  <1>6. CASE StartExec \/ StartExecFails \/ RejectFrame
    <2>1. /\ toGuest # <<>> /\ toGuest' = Tail(toGuest) /\ job = <<>>
      BY <1>6, Zenon DEF StartExec, StartExecFails, RejectFrame
    <2>2. PICK q \in HostFrame : q = Head(toGuest)
      BY <1>0, <2>1, HeadTail, Zenon
    <2>3. \A k \in 1 .. Len(toGuest') : k + 1 \in 1 .. Len(toGuest) /\ toGuest'[k] = toGuest[k + 1]
      BY <1>0, <2>1
    <2>4. 1 \in 1 .. Len(toGuest) /\ q = toGuest[1]
      BY <1>0, <2>1, <2>2
    <2>5. NoInput'
      <3>1. NoSessions /\ StartExec => job'[1].stdinOpen = FALSE
        <4> SUFFICES ASSUME NoSessions, StartExec PROVE job'[1].stdinOpen = FALSE
          BY Zenon
        <4>1. q.t = "exec_request" /\ job'[1].stdinOpen = (q.stdin \/ q.pty)
          BY <2>2, Zenon DEF StartExec
        <4>2. ~q.stdin /\ ~q.pty
          BY <2>4, <4>1, Zenon DEF NoInput
        <4> QED BY <4>1, <4>2, Zenon
      <3>2. ~StartExec => job' = <<>>
        BY <1>6, <2>1, Zenon DEF StartExecFails, RejectFrame
      <3> QED BY <1>2, <2>3, <3>1, <3>2, Zenon DEF NoInput, Current
    <2>6. ASSUME InUse, NEW c \in Calls, Underway(c) PROVE Underway(c)'
      <3>1. CASE q.t = "exec_request" /\ q.id = idOf[c]
        <4>1. CASE StartExec
          <5>1. job' # <<>> /\ job'[1].id = q.id
            BY <2>2, <4>1, Zenon DEF StartExec
          <5> QED BY <1>1, <3>1, <5>1, Zenon DEF Underway, Current
        <4>2. CASE StartExecFails
          <5>1. ErrorFrame(q.id) \in GuestFrame
            BY FrameFields, GuestFrames, Zenon
          <5>2. ErrorFrame(q.id).t \in Final /\ ErrorFrame(q.id).id = q.id
            BY Zenon DEF ErrorFrame, Final
          <5>3. toHost' = Append(toHost, ErrorFrame(q.id))
            BY <1>4, <2>2, <2>6, <4>2, Zenon DEF StartExecFails, GuestWrite
          <5>4. Carries(toHost', Final, q.id)
            BY <1>0, <5>1, <5>2, <5>3, CarriesMore, Zenon
          <5> QED BY <1>1, <3>1, <5>4, Zenon DEF Underway
        <4>3. CASE RejectFrame
          BY <2>2, <3>1, <4>3, Zenon DEF RejectFrame
        <4> QED BY <1>6, <4>1, <4>2, <4>3, Zenon
      <3>2. CASE ~(q.t = "exec_request" /\ q.id = idOf[c])
        <4>1. Carries(toGuest, Asking, idOf[c])
                 => Carries(toGuest', Asking, idOf[c])
          <5>1. ~(Head(toGuest).t \in Asking /\ Head(toGuest).id = idOf[c])
            BY <2>2, <3>2, Zenon DEF Asking
          <5>2. toGuest \in Seq(HostFrame) /\ toGuest # <<>>
            BY <1>0, <2>1, Zenon
          <5>3. Carries(toGuest, Asking, idOf[c]) => Carries(Tail(toGuest), Asking, idOf[c])
            BY <5>1, <5>2, CarriesRest
          <5> QED BY <2>1, <5>3, Zenon
        <4>2. Carries(toHost, Final, idOf[c]) => Carries(toHost', Final, idOf[c])
          <5>1. \A i \in Ids : ErrorFrame(i) \in GuestFrame
            BY GuestFrames, Zenon
          <5>2. 0 \in Ids /\ q.id \in Ids
            BY PortAssumption, FrameFields DEF Ids
          <5>3. toHost' = toHost \/ \E i \in Ids : toHost' = Append(toHost, ErrorFrame(i))
            BY <1>6, <2>2, <5>2, Zenon DEF StartExec, StartExecFails, RejectFrame, GuestWrite
          <5> QED BY <1>0, <5>1, <5>3, CarriesMore, Zenon
        <4> QED BY <1>1, <2>1, <2>6, <4>1, <4>2, Zenon DEF Underway
      <3> QED BY <3>1, <3>2, Zenon
    <2> QED BY <1>2, <1>5, <2>5, <2>6, Zenon
  <1>7. CASE OutputEnds \/ ProcessExits \/ StdinHangsUp
    <2>1. /\ UNCHANGED <<toGuest, toHost>> /\ job # <<>> /\ Current \in Job
      BY <1>0, <1>7, Zenon DEF OutputEnds, ProcessExits, StdinHangsUp, portVars
    <2>2. job' # <<>> /\ job'[1].id = Current.id
      <3>1. CASE OutputEnds
        BY <2>1, <3>1, Zenon DEF OutputEnds, Job
      <3>2. CASE ProcessExits
        BY <2>1, <3>2, Zenon DEF ProcessExits, Job
      <3>3. CASE StdinHangsUp
        BY <2>1, <3>3, Zenon DEF StdinHangsUp, Job
      <3> QED BY <1>7, <3>1, <3>2, <3>3, Zenon
    <2>3. job'[1].stdinOpen => Current.stdinOpen
      <3>1. CASE OutputEnds
        <4>1. job'[1].stdinOpen = (Current.stdinOpen /\ ~Current.pty)
          BY <2>1, <3>1, Zenon DEF OutputEnds, Job
        <4> QED BY <4>1, Zenon
      <3>2. CASE ProcessExits
        BY <2>1, <3>2, Zenon DEF ProcessExits, Job
      <3>3. CASE StdinHangsUp
        BY <3>3, Zenon DEF StdinHangsUp
      <3> QED BY <1>7, <3>1, <3>2, <3>3, Zenon
    <2>4. NoInput'
      BY <1>2, <2>1, <2>2, <2>3, Zenon DEF NoInput, Current
    <2>5. \A c \in Calls : Underway(c) => Underway(c)'
      BY <1>1, <2>1, <2>2, <2>3, Zenon DEF Underway, Current
    <2> QED BY <1>2, <1>5, <2>4, <2>5, Zenon
  <1>8. CASE RelayOutput
    <2>1. Current.id \in Ids /\ UNCHANGED <<toGuest, job>>
      BY <1>0, <1>8, Zenon DEF RelayOutput, Job
    <2>2. printed[Current.id] + 1 \in 1 .. MaxOut
      BY <1>0, <1>8, <2>1, PortAssumption DEF RelayOutput
    <2>3. PICK f \in GuestFrame : toHost' = Append(toHost, f) \/ toHost' = toHost
      <3>1. ExecOutput(Current.id, printed[Current.id] + 1) \in GuestFrame
        BY <2>1, <2>2, GuestFrames, Zenon
      <3> QED BY <1>8, <3>1, Zenon DEF RelayOutput, GuestWrite
    <2>4. NoInput'
      BY <1>2, <2>1, Zenon DEF NoInput, Current
    <2>5. \A i : Carries(toHost, Final, i) => Carries(toHost', Final, i)
      BY <1>0, <2>3, CarriesMore, Zenon
    <2>6. \A c \in Calls : Underway(c) => Underway(c)'
      BY <1>1, <2>1, <2>5, Zenon DEF Underway, Current
    <2> QED BY <1>2, <1>5, <2>4, <2>6, Zenon
  <1>9. CASE SendResponse \/ ExecAborts
    <2>1. job # <<>> /\ Current.id \in Ids /\ job' = <<>> /\ UNCHANGED toGuest
      BY <1>0, <1>9, Zenon DEF SendResponse, ExecAborts, Job
    <2>2. PICK f \in GuestFrame : GuestWrite(f) /\ f.t \in Final /\ f.id = Current.id
      <3>1. exitOf[Current.id] \in Codes
        BY <1>0, <2>1, Zenon
      <3>2. /\ ExecResponse(Current.id, exitOf[Current.id]) \in GuestFrame
            /\ ErrorFrame(Current.id) \in GuestFrame
        BY <2>1, <3>1, GuestFrames, Zenon
      <3>3. /\ ExecResponse(Current.id, exitOf[Current.id]).t \in Final
            /\ ExecResponse(Current.id, exitOf[Current.id]).id = Current.id
            /\ ErrorFrame(Current.id).t \in Final /\ ErrorFrame(Current.id).id = Current.id
        BY Zenon DEF ExecResponse, ErrorFrame, Final
      <3> QED BY <1>9, <3>2, <3>3, Zenon DEF SendResponse, ExecAborts
    <2>3. NoInput'
      BY <1>2, <2>1, Zenon DEF NoInput
    <2>4. ASSUME InUse, NEW c \in Calls, Underway(c) PROVE Underway(c)'
      <3>1. toHost' = Append(toHost, f)
        BY <1>4, <2>2, <2>4, Zenon DEF GuestWrite
      <3>2. Carries(toHost, Final, idOf[c]) => Carries(toHost', Final, idOf[c])
        BY <1>0, <3>1, CarriesMore, Zenon
      <3>3. Current.id = idOf[c] => Carries(toHost', Final, idOf[c])
        BY <1>0, <2>2, <3>1, CarriesMore, Zenon
      <3> QED BY <1>1, <2>1, <2>4, <3>2, <3>3, Zenon DEF Underway
    <2> QED BY <1>2, <1>5, <2>3, <2>4, Zenon
  <1>10. CASE HandleStdin
    <2>1. /\ toGuest # <<>> /\ toGuest' = Tail(toGuest) /\ job # <<>> /\ Current.stdinOpen
          /\ job' # <<>>
      <3>1. \E j : job' = <<j>>
        BY <1>10, Zenon DEF HandleStdin
      <3>2. /\ toGuest # <<>> /\ toGuest' = Tail(toGuest) /\ job # <<>>
            /\ Current.stdinOpen
        BY <1>10, Zenon DEF HandleStdin
      <3> QED BY <3>1, <3>2
    <2>2. ~NoSessions
      BY <2>1, Zenon DEF NoInput
    <2> QED BY <1>2, <2>2, Zenon DEF NoInput, Tracked, InUse
  <1> QED BY <1>6, <1>7, <1>8, <1>9, <1>10, Zenon DEF Guest

LEMMA NextTracked ==
  ASSUME Ownership, Tracked, NoInput, Linked, [Next]_vars
  PROVE  Tracked' /\ NoInput' /\ Linked'
  <1>0. TypeOK /\ Entries
    BY Zenon DEF Ownership
  <1>1. ASSUME NEW c \in Calls, Call(c), UNCHANGED guestVars
        PROVE  Tracked' /\ NoInput' /\ Linked'
    BY <1>0, <1>1, CallTracked, Zenon
  <1>2. CASE ReadLoop /\ UNCHANGED guestVars
    BY <1>0, <1>2, ReadLoopTracked, Zenon
  <1>3. CASE Stop /\ UNCHANGED guestVars
    <2>1. closer' # "none" /\ UNCHANGED <<toGuest, job, pc>>
      BY <1>3, Zenon DEF Stop, CloseRequests, CloseConn, portVars, guestVars
    <2> QED BY <2>1, Zenon DEF Tracked, InUse, NoInput, NoSessions, Linked, Current
  <1>4. CASE Guest /\ UNCHANGED clientVars
    BY <1>0, <1>4, GuestTracked, Zenon
  <1>5. CASE QemuDies /\ UNCHANGED <<clientVars, guestVars>>
    <2>1. /\ guestUp' = FALSE /\ toGuest' = <<>> /\ connOpen' = connOpen
          /\ UNCHANGED <<job, pc, closer>>
      BY <1>5, Zenon DEF QemuDies, GuestDies, clientVars, guestVars
    <2>2. \A k \in 1 .. Len(toGuest') : FALSE
      BY <2>1
    <2> QED BY <2>1, <2>2, Zenon DEF Tracked, InUse, NoInput, NoSessions, Linked, Current
  <1>6. CASE UNCHANGED vars
    BY <1>6, Zenon DEF vars, portVars, clientVars, guestVars, Tracked, InUse, NoInput,
                       NoSessions, Linked, Current, Underway, Registered
  <1> QED BY <1>1, <1>2, <1>3, <1>4, <1>5, <1>6, Zenon DEF Next

(* What is left when readLoop has returned, of a machine nobody stopped:   *)
(* later requests cannot be sent, and whoever waits has something to take. *)
NoneStranded ==
  closer = "none" /\ ~readerUp =>
    ~CanWrite /\ \A c \in Calls : pc[c] = "collect" => Told(c)

(* A call that waits on a machine in use has its request with sandboxd or  *)
(* on its way there, or its answer on its way back or in its channels.     *)
NothingLost ==
  InUse => \A c \in Calls : pc[c] = "collect" => Underway(c) \/ Held(c) \/ Told(c)

LEMMA FreshTracked ==
  Spec /\ []FreshIds => [](NoneStranded /\ NothingLost)
  <1> DEFINE Inv == Informed /\ Farewell /\ Tracked /\ NoInput /\ Linked
  <1>1. Init => Inv
    <2> SUFFICES ASSUME Init PROVE Inv
      BY Zenon
    <2>1. Informed /\ Farewell
      BY Zenon DEF Init, ClientInit, Informed, Farewell, NewChan
    <2>2. /\ \A c \in Calls : pc[c] # "collect"
          /\ toGuest = <<>> /\ job = <<>> /\ connOpen
      BY Zenon DEF Init, PortInit, ClientInit, SandboxdInit
    <2>3. \A k \in 1 .. Len(toGuest) : FALSE
      BY <2>2
    <2> QED BY <2>1, <2>2, <2>3, Zenon DEF Tracked, NoInput, Linked
  <1>2. ASSUME Ownership, WaitersReachable, Inv, [Next]_vars PROVE Inv'
    BY <1>2, NextInformed, NextFarewell, NextTracked, Zenon
  <1>3. ASSUME Ownership, WaitersReachable, Inv PROVE NoneStranded /\ NothingLost
    <2>1. ASSUME NEW c \in Calls, pc[c] = "collect", closer = "none", ~Told(c)
          PROVE  ~chan[c].closed /\ chan[c].exit = <<>> /\ chan[c].err = 0
      <3>1. pc[c] \notin Returned
        BY <2>1, Zenon DEF Returned
      <3>2. chan[c] \in Chan
        BY <1>3, Zenon DEF Ownership, TypeOK, ClientTypeOK
      <3>3. chan[c].err \in {0, 1}
        BY <3>2, Zenon DEF Chan
      <3> QED BY <1>3, <2>1, <3>1, <3>3, Zenon DEF Informed, Told
    <2>2. NoneStranded
      BY <1>3, <2>1, Zenon DEF NoneStranded, Farewell
    <2>3. NothingLost
      BY <1>3, <2>1, Zenon DEF NothingLost, InUse, WaitersReachable, Tracked, Held
    <2> QED BY <2>2, <2>3, Zenon
  <1>4. Ownership /\ WaitersReachable /\ Inv /\ [Next]_vars => Inv'
    BY <1>2, Zenon
  <1>5. Ownership /\ WaitersReachable /\ Inv => NoneStranded /\ NothingLost
    BY <1>3, Zenon
  <1> QED BY <1>1, <1>4, <1>5, InitOwnership, NextOwnership, NoneForgotten, PTL DEF Spec

-----------------------------------------------------------------------------
(* A step that gives no id, sends no exec_request and starts no command.   *)
Calm ==
  /\ idOf' = idOf
  /\ \A c \in Calls :
       /\ pc'[c] = "idle" <=> pc[c] = "idle"
       /\ pc[c] \notin {"idle", "send"} => pc'[c] \notin {"idle", "send"}
       /\ inputOpen'[c] => inputOpen[c]
  /\ job' # <<>> => job # <<>> /\ job'[1].id = job[1].id
  /\ \/ Part(toGuest', toGuest)
     \/ \E f \in HostFrame : /\ f.t # "exec_request" /\ Used(f.id)
                             /\ toGuest' = Append(toGuest, f)

LEMMA CalmClient ==
  ASSUME TypeOK, UNCHANGED <<idOf, job, inputOpen, toGuest>>,
         \A c \in Calls :
           /\ pc'[c] = "idle" <=> pc[c] = "idle"
           /\ pc[c] \notin {"idle", "send"} => pc'[c] \notin {"idle", "send"}
  PROVE  Calm
  <1>1. Part(toGuest, toGuest)
    BY PartSame, Zenon DEF TypeOK, PortTypeOK
  <1> QED BY <1>1, Zenon DEF Calm

LEMMA CalmCall ==
  ASSUME TypeOK, Identified, NEW c \in Calls, Call(c), UNCHANGED guestVars,
         ~Register(c), ~SendRequest(c)
  PROVE  Calm
  <1> USE DEF portVars, guestVars
  <1>0. /\ toGuest \in Seq(HostFrame) /\ idOf[c] \in Ids
        /\ pc \in [Calls -> {"idle", "send", "collect"} \cup Returned]
        /\ inputOpen \in [Calls -> BOOLEAN]
    BY Zenon DEF TypeOK, PortTypeOK, ClientTypeOK
  <1>1. CASE SendRequestFails(c)
    <2>1. UNCHANGED <<idOf, job, inputOpen, toGuest>>
      BY <1>1, Zenon DEF SendRequestFails
    <2>2. pc[c] = "send" /\ pc' = [pc EXCEPT ![c] = "failed"]
      BY <1>1, Zenon DEF SendRequestFails
    <2> QED BY <1>0, <2>1, <2>2, CalmClient, Zenon
  <1>2. CASE TakeOutput(c)
    <2>1. UNCHANGED <<idOf, job, inputOpen, toGuest, pc>>
      BY <1>2, Zenon DEF TakeOutput
    <2> QED BY <2>1, CalmClient, Zenon
  <1>3. CASE TakeExit(c) \/ TakeError(c) \/ CancelStream(c)
    <2>1. UNCHANGED <<idOf, job, inputOpen, toGuest>>
      BY <1>3, Zenon DEF TakeExit, TakeError, CancelStream
    <2>2. PICK v \in Returned : pc[c] = "collect" /\ pc' = [pc EXCEPT ![c] = v]
      BY <1>3, Zenon DEF TakeExit, TakeError, CancelStream, Returned
    <2>3. v \notin {"idle", "send"}
      BY Zenon DEF Returned
    <2> QED BY <1>0, <2>1, <2>2, <2>3, CalmClient, Zenon
  <1>4. CASE SendInput(c) \/ SendEof(c)
    <2>1. UNCHANGED <<idOf, job, pc>> /\ \A d \in Calls : inputOpen'[d] => inputOpen[d]
      BY <1>0, <1>4, Zenon DEF SendInput, SendEof
    <2>2. PICK f \in HostFrame : f.t # "exec_request" /\ f.id = idOf[c] /\ HostWrite(f)
      <3>1. /\ StdinData(idOf[c], FALSE) \in HostFrame /\ StdinData(idOf[c], TRUE) \in HostFrame
            /\ PtyResize(idOf[c]) \in HostFrame
        BY <1>0, HostFrames, Zenon
      <3>2. /\ \A b : /\ StdinData(idOf[c], b).t # "exec_request"
                      /\ StdinData(idOf[c], b).id = idOf[c]
            /\ PtyResize(idOf[c]).t # "exec_request" /\ PtyResize(idOf[c]).id = idOf[c]
        BY Zenon DEF StdinData, PtyResize
      <3> QED BY <1>4, <3>1, <3>2, Zenon DEF SendInput, SendEof
    <2>3. Used(f.id)
      <3>1. inputOpen[c]
        BY <1>4, Zenon DEF SendInput, SendEof
      <3> QED BY <2>2, <3>1, Zenon DEF Identified, Used
    <2>4. toGuest' = toGuest \/ toGuest' = Append(toGuest, f)
      BY <2>2, Zenon DEF HostWrite
    <2>5. Part(toGuest, toGuest)
      BY <1>0, PartSame, Zenon
    <2> QED BY <2>1, <2>2, <2>3, <2>4, <2>5, Zenon DEF Calm
  <1>5. CASE InputEnds(c)
    <2>1. /\ UNCHANGED <<idOf, job, pc, toGuest>>
          /\ \A d \in Calls : inputOpen'[d] => inputOpen[d]
      BY <1>0, <1>5, Zenon DEF InputEnds
    <2>2. Part(toGuest, toGuest)
      BY <1>0, PartSame, Zenon
    <2> QED BY <2>1, <2>2, Zenon DEF Calm
  <1> QED BY <1>1, <1>2, <1>3, <1>4, <1>5, Zenon DEF Call

LEMMA CalmReadLoop ==
  ASSUME TypeOK, ReadLoop \/ Stop, UNCHANGED guestVars PROVE Calm
  <1>1. UNCHANGED <<idOf, job, inputOpen, toGuest, pc>>
    <2> USE DEF portVars, guestVars
    <2>1. CASE Lookup \/ DeliverOutput \/ DeliverResult
      BY <2>1, Zenon DEF Lookup, DeliverOutput, DeliverResult
    <2>2. CASE CloseChannels \/ BroadcastError \/ CloseRequests \/ CloseConn
      BY <2>2, Zenon DEF CloseChannels, BroadcastError, CloseRequests, CloseConn
    <2> QED BY <2>1, <2>2, Zenon DEF ReadLoop, Stop
  <1> QED BY <1>1, CalmClient, Zenon

LEMMA CalmGuest ==
  ASSUME TypeOK, Guest, ~StartExec, UNCHANGED clientVars PROVE Calm
  <1> USE DEF portVars, clientVars
  <1>0. /\ toGuest \in Seq(HostFrame)
        /\ job # <<>> => Current \in Job
    BY DEF TypeOK, PortTypeOK, SandboxdTypeOK, Current
  <1>1. Part(toGuest, toGuest) /\ (toGuest # <<>> => Part(Tail(toGuest), toGuest))
    BY <1>0, PartSame, PartTail, Zenon
  <1>2. toGuest' \in {toGuest, Tail(toGuest)} /\ (toGuest = <<>> => toGuest' = toGuest)
    <2>1. CASE StartExecFails \/ RejectFrame \/ HandleStdin
      BY <2>1, Zenon DEF StartExecFails, RejectFrame, HandleStdin
    <2>2. CASE RelayOutput \/ OutputEnds \/ ProcessExits \/ StdinHangsUp \/ SendResponse
                 \/ ExecAborts
      BY <2>2, Zenon DEF RelayOutput, OutputEnds, ProcessExits, StdinHangsUp,
                         SendResponse, ExecAborts
    <2> QED BY <2>1, <2>2, Zenon DEF Guest
  <1>3. job' # <<>> => job # <<>> /\ job'[1].id = job[1].id
    <2>1. CASE StartExecFails \/ RejectFrame \/ RelayOutput \/ SendResponse \/ ExecAborts
      BY <2>1, Zenon DEF StartExecFails, RejectFrame, RelayOutput, SendResponse, ExecAborts
    <2>2. CASE OutputEnds
      BY <1>0, <2>2, Zenon DEF OutputEnds, Running, Current, Job
    <2>3. CASE ProcessExits
      BY <1>0, <2>3, Zenon DEF ProcessExits, Running, Current, Job
    <2>4. CASE HandleStdin
      <3>1. PICK open, eof :
              job' = <<[Current EXCEPT !.stdinOpen = open, !.sawEof = eof]>>
        BY <2>4, Zenon DEF HandleStdin
      <3>2. job # <<>> /\ Current \in Job
        BY <1>0, <2>4, Zenon DEF HandleStdin, Running
      <3>3. job'[1].id = Current.id
        BY <3>1, <3>2, Zenon DEF Job
      <3> QED BY <3>2, <3>3, Zenon DEF Current
    <2>5. CASE StdinHangsUp
      BY <1>0, <2>5, Zenon DEF StdinHangsUp, Running, Current, Job
    <2> QED BY <2>1, <2>2, <2>3, <2>4, <2>5, Zenon DEF Guest
  <1> QED BY <1>1, <1>2, <1>3, Zenon DEF Calm

\* The steps that are not calm.
LEMMA Kinds ==
  ASSUME TypeOK, Identified, [Next]_vars
  PROVE  \/ \E c \in Calls : (Register(c) \/ SendRequest(c)) /\ UNCHANGED guestVars
         \/ StartExec /\ UNCHANGED clientVars
         \/ Calm
  <1>1. ASSUME NEW c \in Calls, Call(c), UNCHANGED guestVars
        PROVE  Register(c) \/ SendRequest(c) \/ Calm
    BY <1>1, CalmCall, Zenon
  <1>2. CASE (ReadLoop \/ Stop) /\ UNCHANGED guestVars
    BY <1>2, CalmReadLoop, Zenon
  <1>3. CASE Guest /\ UNCHANGED clientVars
    BY <1>3, CalmGuest, Zenon
  <1>4. CASE QemuDies /\ UNCHANGED <<clientVars, guestVars>>
    <2>1. toGuest' = <<>> /\ UNCHANGED <<idOf, job, inputOpen, pc>>
      BY <1>4, Zenon DEF QemuDies, GuestDies, clientVars, guestVars
    <2>2. Part(<<>>, toGuest)
      BY PartSame, Zenon DEF TypeOK, PortTypeOK
    <2> QED BY <2>1, <2>2, Zenon DEF Calm
  <1>5. CASE UNCHANGED vars
    BY <1>5, CalmClient, Zenon DEF vars, portVars, clientVars, guestVars
  <1> QED BY <1>1, <1>2, <1>3, <1>4, <1>5, Zenon DEF Next

\* What Register and SendRequest do, as far as ids are concerned.
LEMMA RegisterIds ==
  ASSUME TypeOK, UnusedIds, NEW c \in Calls, Register(c), UNCHANGED guestVars
  PROVE  /\ UNCHANGED <<toGuest, toHost, job, printed, exitOf, dispatching, chan, got, code>>
         /\ UNCHANGED inputOpen
         /\ pc[c] = "idle" /\ pc' = [pc EXCEPT ![c] = "send"]
         /\ \A d \in Calls : d # c => pc'[d] = pc[d] /\ idOf'[d] = idOf[d]
         /\ \A d \in Calls : pc[d] # "idle" => idOf[d] # idOf'[c]
         /\ idOf'[c] = (nextID + 1) % IdSpace
  BY Zenon DEF Register, UnusedIds, TypeOK, ClientTypeOK, portVars, guestVars

LEMMA SendIds ==
  ASSUME TypeOK, NEW c \in Calls, SendRequest(c), UNCHANGED guestVars
  PROVE  /\ UNCHANGED <<idOf, toHost, job, printed, exitOf, dispatching, chan, got, code>>
         /\ pc[c] = "send" /\ pc'[c] = "collect"
         /\ \A d \in Calls : d # c => pc'[d] = pc[d] /\ inputOpen'[d] = inputOpen[d]
         /\ \E f \in HostFrame : f.id = idOf[c] /\ toGuest' = Append(toGuest, f)
  <1>0. (c \in Streams) \in BOOLEAN /\ (c \in Ptys) \in BOOLEAN
    OBVIOUS
  <1>1. idOf[c] \in Ids
    BY Zenon DEF TypeOK, ClientTypeOK
  <1> DEFINE f == ExecRequest(idOf[c], c \in Streams, c \in Ptys)
  <1>2. f \in HostFrame
    BY <1>0, <1>1, HostFrames, Zenon
  <1>3. f.id = idOf[c]
    BY Zenon DEF ExecRequest
  <1>4. toGuest' = Append(toGuest, f)
    BY Zenon DEF SendRequest, HostWrite
  <1> HIDE DEF f
  <1>5. \E g \in HostFrame : g.id = idOf[c] /\ toGuest' = Append(toGuest, g)
    BY <1>2, <1>3, <1>4, Zenon
  <1> QED BY <1>5, Zenon DEF SendRequest, TypeOK, ClientTypeOK, guestVars

\* An id once used stays so.
LEMMA UsedKept ==
  ASSUME TypeOK, Identified, UnusedIds, [Next]_vars, NEW i, Used(i) PROVE Used(i)'
  <1>1. ASSUME NEW c \in Calls, Register(c), UNCHANGED guestVars PROVE Used(i)'
    BY <1>1, RegisterIds, Zenon DEF Used
  <1>2. ASSUME NEW c \in Calls, SendRequest(c), UNCHANGED guestVars PROVE Used(i)'
    BY <1>2, SendIds, Zenon DEF Used
  <1>3. CASE StartExec /\ UNCHANGED clientVars
    BY <1>3, Zenon DEF Used, clientVars
  <1>4. CASE Calm
    BY <1>4, Zenon DEF Calm, Used
  <1> QED BY <1>1, <1>2, <1>3, <1>4, Kinds, Zenon

\* No call that is about to send its request has a used id.
LEMMA SendUnused ==
  ASSUME Identified, NEW c \in Calls, pc[c] = "send" PROVE ~Used(idOf[c])
  BY Zenon DEF Identified, Used

\* A command that is over stays over, and its exit code the same.
LEMMA OverKept ==
  ASSUME TypeOK, Identified, UnusedIds, [Next]_vars, NEW i, Over(i) PROVE Over(i)'
  <1>0. toGuest \in Seq(HostFrame) /\ Used(i)'
    BY UsedKept, Zenon DEF TypeOK, PortTypeOK, Over
  <1>1. ASSUME NEW c \in Calls, Register(c), UNCHANGED guestVars PROVE Over(i)'
    BY <1>0, <1>1, RegisterIds, Zenon DEF Over, Current
  <1>2. ASSUME NEW c \in Calls, SendRequest(c), UNCHANGED guestVars PROVE Over(i)'
    <2>1. PICK f \in HostFrame : f.id = idOf[c] /\ toGuest' = Append(toGuest, f)
      BY <1>2, SendIds, Zenon
    <2>2. f.id # i /\ UNCHANGED job
      BY <1>2, <2>1, SendIds, SendUnused, Zenon DEF Over
    <2> QED BY <1>0, <2>1, <2>2, AppendAt, Zenon DEF Over, Current
  <1>3. CASE StartExec /\ UNCHANGED clientVars
    <2>1. /\ toGuest # <<>> /\ toGuest' = Tail(toGuest) /\ Head(toGuest).t = "exec_request"
          /\ job' # <<>> /\ job'[1].id = Head(toGuest).id
      BY <1>3, Zenon DEF StartExec
    <2>2. Head(toGuest).id # i
      BY <1>0, <2>1, PartTail, Zenon DEF Over
    <2>3. \A k \in 1 .. Len(toGuest') : \E a \in 1 .. Len(toGuest) : toGuest'[k] = toGuest[a]
      BY <1>0, <2>1, PartTail, Zenon DEF Part
    <2> QED BY <1>0, <2>1, <2>2, <2>3, Zenon DEF Over, Current
  <1>4. CASE Calm
    <2>1. job' # <<>> => job'[1].id # i
      BY <1>4, Zenon DEF Calm, Over, Current
    <2>2. CASE Part(toGuest', toGuest)
      <3>1. \A k \in 1 .. Len(toGuest') :
              \E a \in 1 .. Len(toGuest) : toGuest'[k] = toGuest[a]
        BY <2>2, Zenon DEF Part
      <3> QED BY <1>0, <2>1, <3>1, Zenon DEF Over, Current
    <2>3. ASSUME NEW f \in HostFrame, f.t # "exec_request", toGuest' = Append(toGuest, f)
          PROVE  Over(i)'
      BY <1>0, <2>1, <2>3, AppendAt, Zenon DEF Over, Current
    <2> QED BY <1>4, <2>2, <2>3, Zenon DEF Calm
  <1> QED BY <1>1, <1>2, <1>3, <1>4, Kinds, Zenon

LEMMA ExitKept ==
  ASSUME TypeOK, [Next]_vars, NEW i \in Ids, Over(i) PROVE exitOf'[i] = exitOf[i]
  <1>1. CASE ProcessExits
    BY <1>1, Zenon DEF ProcessExits, Running, Over, TypeOK, SandboxdTypeOK
  <1>2. CASE Guest /\ ~ProcessExits
    BY <1>2, Zenon DEF Guest, StartExec, StartExecFails, RejectFrame, RelayOutput,
                       OutputEnds, HandleStdin, StdinHangsUp, SendResponse, ExecAborts
  <1> QED BY <1>1, <1>2, Zenon DEF Next, vars, guestVars

-----------------------------------------------------------------------------
\* Used after the step.
UsedNow(i) == \E c \in Calls : pc'[c] \notin {"idle", "send"} /\ idOf'[c] = i

\* A step keeps ids apart.
LEMMA IdentifiedStep ==
  ASSUME TypeOK, Identified, UnusedIds, [Next]_vars PROVE Identified'
  <1>0. toGuest \in Seq(HostFrame)
    BY Zenon DEF TypeOK, PortTypeOK
  <1>1. \A i : Used(i) => UsedNow(i)
    BY UsedKept, Zenon DEF Used, UsedNow
  <1>2. ASSUME NEW c \in Calls, Register(c), UNCHANGED guestVars PROVE Identified'
    <2>1. /\ UNCHANGED <<toGuest, job, inputOpen>> /\ pc[c] = "idle" /\ pc'[c] = "send"
          /\ \A d \in Calls : d # c => pc'[d] = pc[d] /\ idOf'[d] = idOf[d]
          /\ \A d \in Calls : pc[d] # "idle" => idOf[d] # idOf'[c]
      BY <1>2, RegisterIds, Zenon DEF TypeOK, ClientTypeOK
    <2>2. ASSUME NEW x \in Calls, NEW y \in Calls, pc'[x] # "idle", pc'[y] # "idle", x # y
          PROVE  idOf'[x] # idOf'[y]
      BY <2>1, <2>2, ZenonT(30) DEF Identified
    <2>3. \A x \in Calls : inputOpen'[x] => pc'[x] \notin {"idle", "send"}
      BY <2>1, Zenon DEF Identified
    <2>4. \A k \in 1 .. Len(toGuest') : UsedNow(toGuest'[k].id)
      BY <1>1, <2>1, Zenon DEF Identified
    <2>5. job' # <<>> =>
            /\ UsedNow(job'[1].id)
            /\ \A k \in 1 .. Len(toGuest') :
                 toGuest'[k].t = "exec_request" => toGuest'[k].id # job'[1].id
      BY <1>1, <2>1, Zenon DEF Identified, Current
    <2>6. ASSUME NEW k \in 1 .. Len(toGuest'), NEW l \in 1 .. Len(toGuest'), k # l,
                 toGuest'[k].t = "exec_request", toGuest'[l].t = "exec_request"
          PROVE  toGuest'[k].id # toGuest'[l].id
      BY <2>1, <2>6, Zenon DEF Identified
    <2> QED BY <2>6, <2>2, <2>3, <2>4, <2>5, Zenon DEF Identified, Current, Used, UsedNow
  <1>3. ASSUME NEW c \in Calls, SendRequest(c), UNCHANGED guestVars PROVE Identified'
    <2>1. PICK f \in HostFrame : f.id = idOf[c] /\ toGuest' = Append(toGuest, f)
      BY <1>3, SendIds, Zenon
    <2>2. /\ UNCHANGED <<idOf, job>> /\ pc[c] = "send" /\ pc'[c] = "collect"
          /\ \A d \in Calls : d # c => pc'[d] = pc[d] /\ inputOpen'[d] = inputOpen[d]
      BY <1>3, SendIds, Zenon
    <2>3. UsedNow(f.id)
      BY <2>1, <2>2, Zenon DEF UsedNow
    <2>4. ~Used(f.id)
      BY <2>1, <2>2, SendUnused, Zenon
    <2>5. \A k \in 1 .. Len(toGuest') : \/ k \in 1 .. Len(toGuest) /\ toGuest'[k] = toGuest[k]
                                        \/ k = Len(toGuest) + 1 /\ toGuest'[k] = f
      BY <1>0, <2>1, AppendAt, Zenon
    <2>6. \A k \in 1 .. Len(toGuest') : UsedNow(toGuest'[k].id)
      BY <1>1, <2>3, <2>5, Zenon DEF Identified
    <2>7. ASSUME NEW k \in 1 .. Len(toGuest'), NEW l \in 1 .. Len(toGuest'), k # l,
                 toGuest'[k].t = "exec_request", toGuest'[l].t = "exec_request"
          PROVE  toGuest'[k].id # toGuest'[l].id
      BY <2>4, <2>5, <2>7, Zenon DEF Identified
    <2>8. job' # <<>> =>
            /\ UsedNow(job'[1].id)
            /\ \A k \in 1 .. Len(toGuest') :
                 toGuest'[k].t = "exec_request" => toGuest'[k].id # job'[1].id
      BY <1>1, <2>2, <2>4, <2>5, Zenon DEF Identified, Current
    <2>9. /\ \A x, y \in Calls : pc'[x] # "idle" /\ pc'[y] # "idle" /\ x # y
                                   => idOf'[x] # idOf'[y]
          /\ \A x \in Calls : inputOpen'[x] => pc'[x] \notin {"idle", "send"}
      BY <2>2, Zenon DEF Identified
    <2> QED BY <2>6, <2>7, <2>8, <2>9, Zenon DEF Identified, Current, Used, UsedNow
  <1>4. CASE StartExec /\ UNCHANGED clientVars
    <2>1. /\ toGuest # <<>> /\ toGuest' = Tail(toGuest) /\ Head(toGuest).t = "exec_request"
          /\ job' # <<>> /\ job'[1].id = Head(toGuest).id
          /\ UNCHANGED <<pc, idOf, inputOpen>>
      BY <1>4, Zenon DEF StartExec, clientVars
    <2>2. Head(toGuest) = toGuest[1] /\ 1 \in 1 .. Len(toGuest)
      BY <1>0, <2>1, PartTail, Zenon
    <2>3. Part(toGuest', toGuest)
      BY <1>0, <2>1, PartTail, Zenon
    <2>4. \A k \in 1 .. Len(toGuest') :
            \E a \in 1 .. Len(toGuest) : a # 1 /\ toGuest'[k] = toGuest[a]
      <3>1. \A k \in 1 .. Len(Tail(toGuest)) : /\ k + 1 \in 1 .. Len(toGuest) /\ k + 1 # 1
                                               /\ Tail(toGuest)[k] = toGuest[k + 1]
        BY <1>0, <2>1
      <3> QED BY <2>1, <3>1, Zenon
    <2>5. UsedNow(job'[1].id) /\ \A k \in 1 .. Len(toGuest') : UsedNow(toGuest'[k].id)
      BY <1>1, <2>1, <2>2, <2>4, Zenon DEF Identified
    <2>6. ASSUME NEW k \in 1 .. Len(toGuest'), toGuest'[k].t = "exec_request"
          PROVE  toGuest'[k].id # job'[1].id
      <3>1. PICK a \in 1 .. Len(toGuest) : a # 1 /\ toGuest'[k] = toGuest[a]
        BY <2>4, Zenon
      <3>2. toGuest[a].id # toGuest[1].id
        BY <2>1, <2>2, <2>6, <3>1, Zenon DEF Identified
      <3> QED BY <2>1, <2>2, <3>1, <3>2, Zenon
    <2>7. ASSUME NEW k \in 1 .. Len(toGuest'), NEW l \in 1 .. Len(toGuest'), k # l,
                 toGuest'[k].t = "exec_request", toGuest'[l].t = "exec_request"
          PROVE  toGuest'[k].id # toGuest'[l].id
      <3>1. PICK a, b \in 1 .. Len(toGuest) :
              toGuest'[k] = toGuest[a] /\ toGuest'[l] = toGuest[b] /\ a # b
        BY <2>3, <2>7, PartPair
      <3> QED BY <2>7, <3>1, Zenon DEF Identified
    <2>8. /\ \A x, y \in Calls : pc'[x] # "idle" /\ pc'[y] # "idle" /\ x # y
                                   => idOf'[x] # idOf'[y]
          /\ \A x \in Calls : inputOpen'[x] => pc'[x] \notin {"idle", "send"}
      BY <2>1, Zenon DEF Identified
    <2> QED BY <2>5, <2>6, <2>7, <2>8, Zenon DEF Identified, Current, Used, UsedNow
  <1>5. CASE Calm
    <2>1. /\ \A x, y \in Calls : pc'[x] # "idle" /\ pc'[y] # "idle" /\ x # y
                                   => idOf'[x] # idOf'[y]
          /\ \A x \in Calls : inputOpen'[x] => pc'[x] \notin {"idle", "send"}
      BY <1>5, Zenon DEF Calm, Identified
    <2>2. job' # <<>> => job # <<>> /\ job'[1].id = job[1].id
      BY <1>5, Zenon DEF Calm
    <2>3. CASE Part(toGuest', toGuest)
      <3>0. \A k \in 1 .. Len(toGuest') :
              \E a \in 1 .. Len(toGuest) : toGuest'[k] = toGuest[a]
        BY <2>3, Zenon DEF Part
      <3>1. \A k \in 1 .. Len(toGuest') : UsedNow(toGuest'[k].id)
        BY <1>1, <3>0, Zenon DEF Identified
      <3>2. ASSUME NEW k \in 1 .. Len(toGuest'), NEW l \in 1 .. Len(toGuest'), k # l,
                   toGuest'[k].t = "exec_request", toGuest'[l].t = "exec_request"
            PROVE  toGuest'[k].id # toGuest'[l].id
        <4>1. PICK a, b \in 1 .. Len(toGuest) :
                toGuest'[k] = toGuest[a] /\ toGuest'[l] = toGuest[b] /\ a # b
          BY <2>3, <3>2, PartPair
        <4> QED BY <3>2, <4>1, Zenon DEF Identified
      <3>3. job' # <<>> =>
              /\ UsedNow(job'[1].id)
              /\ \A k \in 1 .. Len(toGuest') :
                   toGuest'[k].t = "exec_request" => toGuest'[k].id # job'[1].id
        BY <1>1, <2>2, <3>0, ZenonT(30) DEF Identified, Current
      <3> QED BY <2>1, <3>1, <3>2, <3>3, Zenon DEF Identified, Current, Used, UsedNow
    <2>4. ASSUME NEW f \in HostFrame, f.t # "exec_request", Used(f.id),
                 toGuest' = Append(toGuest, f)
          PROVE  Identified'
      <3>1. \A k \in 1 .. Len(toGuest') :
              \/ k \in 1 .. Len(toGuest) /\ toGuest'[k] = toGuest[k]
              \/ k = Len(toGuest) + 1 /\ toGuest'[k] = f
        BY <1>0, <2>4, AppendAt, Zenon
      <3>2. \A k \in 1 .. Len(toGuest') : UsedNow(toGuest'[k].id)
        BY <1>1, <2>4, <3>1, Zenon DEF Identified
      <3>3. ASSUME NEW k \in 1 .. Len(toGuest'), NEW l \in 1 .. Len(toGuest'), k # l,
                   toGuest'[k].t = "exec_request", toGuest'[l].t = "exec_request"
            PROVE  toGuest'[k].id # toGuest'[l].id
        BY <2>4, <3>1, <3>3, Zenon DEF Identified
      <3>4. job' # <<>> =>
              /\ UsedNow(job'[1].id)
              /\ \A k \in 1 .. Len(toGuest') :
                   toGuest'[k].t = "exec_request" => toGuest'[k].id # job'[1].id
        BY <1>1, <2>2, <2>4, <3>1, Zenon DEF Identified, Current
      <3> QED BY <2>1, <3>2, <3>3, <3>4, Zenon DEF Identified, Current, Used, UsedNow
    <2> QED BY <1>5, <2>3, <2>4, Zenon DEF Calm
  <1> QED BY <1>2, <1>3, <1>4, <1>5, Kinds, Zenon

-----------------------------------------------------------------------------
\* Over and Truthful after the step.
OverNow(i) ==
  /\ UsedNow(i)
  /\ \A k \in 1 .. Len(toGuest') : toGuest'[k].t = "exec_request" => toGuest'[k].id # i
  /\ job' # <<>> => job'[1].id # i
TruthfulNow(m) ==
  /\ m.t \in Final /\ m.id # 0 => OverNow(m.id)
  /\ m.t = "exec_response" => OverNow(m.id) /\ m.code = exitOf'[m.id]

LEMMA StillTrue ==
  ASSUME TypeOK, Identified, UnusedIds, [Next]_vars
  PROVE  /\ \A i : Over(i) => OverNow(i)
         /\ \A m \in GuestFrame : Truthful(m) => TruthfulNow(m)
  <1>1. ASSUME NEW i, Over(i) PROVE OverNow(i)
    BY <1>1, OverKept, Zenon DEF Over, OverNow, Used, UsedNow, Current
  <1>2. ASSUME NEW m \in GuestFrame, Truthful(m) PROVE TruthfulNow(m)
    <2>1. m.id \in Ids
      BY FrameFields, Zenon
    <2> QED BY <1>1, <1>2, <2>1, ExitKept, Zenon DEF Truthful, TruthfulNow
  <1> QED BY <1>1, <1>2, Zenon

\* What sandboxd says is about no command that is over.
LEMMA GuestSays ==
  ASSUME TypeOK, Identified, Guest, UNCHANGED clientVars
  PROVE  \/ UNCHANGED toHost
         \/ \E f \in GuestFrame : /\ toHost' = Append(toHost, f) /\ TruthfulNow(f)
                                  /\ \A i : Over(i) /\ i # 0 => f.id # i
  <1> DEFINE Says(f) == /\ f \in GuestFrame /\ TruthfulNow(f)
                        /\ \A i : Over(i) /\ i # 0 => f.id # i
  <1>0. /\ toGuest \in Seq(HostFrame)
        /\ job # <<>> => Current \in Job /\ Current.id \in Ids
        /\ exitOf \in [Ids -> Codes]
    BY DEF TypeOK, PortTypeOK, SandboxdTypeOK, Current, Job
  <1>a. UNCHANGED <<pc, idOf>>
    BY Zenon DEF clientVars
  <1>b. ASSUME NEW f, Says(f), GuestWrite(f)
        PROVE  \/ UNCHANGED toHost
               \/ \E g \in GuestFrame : /\ toHost' = Append(toHost, g) /\ TruthfulNow(g)
                                        /\ \A i : Over(i) /\ i # 0 => g.id # i
    BY <1>b, Zenon DEF GuestWrite
  <1>1. CASE StartExecFails
    <2>1. /\ toGuest # <<>> /\ toGuest' = Tail(toGuest) /\ Head(toGuest).t = "exec_request"
          /\ GuestWrite(ErrorFrame(Head(toGuest).id)) /\ job' = <<>>
      BY <1>1, Zenon DEF StartExecFails, Idle
    <2>2. Head(toGuest) = toGuest[1] /\ 1 \in 1 .. Len(toGuest) /\ Head(toGuest) \in HostFrame
      BY <1>0, <2>1, PartTail, HeadTail, Zenon
    <2>3. \A k \in 1 .. Len(Tail(toGuest)) : /\ k + 1 \in 1 .. Len(toGuest) /\ k + 1 # 1
                                             /\ Tail(toGuest)[k] = toGuest[k + 1]
      BY <1>0, <2>1
    <2>4. PICK i \in Ids : i = toGuest[1].id
      BY <2>2, FrameFields, Zenon
    <2>5. ASSUME NEW k \in 1 .. Len(toGuest'), toGuest'[k].t = "exec_request"
          PROVE  toGuest'[k].id # i
      <3>1. /\ k + 1 \in 1 .. Len(toGuest) /\ k + 1 # 1 /\ toGuest'[k] = toGuest[k + 1]
        BY <2>1, <2>3, Zenon
      <3> QED BY <2>1, <2>2, <2>4, <2>5, <3>1, Zenon DEF Identified
    <2>6. UsedNow(i)
      BY <1>a, <2>2, <2>4, Zenon DEF Identified, Used, UsedNow
    <2>7. OverNow(i)
      BY <2>1, <2>5, <2>6, Zenon DEF OverNow
    <2>8. \A j : Over(j) => j # i
      BY <2>1, <2>2, <2>4, Zenon DEF Over
    <2>9. ErrorFrame(i) \in GuestFrame /\ ErrorFrame(i).t = "error" /\ ErrorFrame(i).id = i
      BY GuestFrames, Zenon DEF ErrorFrame
    <2>10. Says(ErrorFrame(i))
      BY <2>7, <2>8, <2>9, Zenon DEF TruthfulNow
    <2> QED BY <1>b, <2>1, <2>2, <2>4, <2>10, Zenon
  <1>2. CASE RejectFrame
    <2>1. 0 \in Ids
      BY PortAssumption DEF Ids
    <2>2. ErrorFrame(0) \in GuestFrame /\ ErrorFrame(0).t = "error" /\ ErrorFrame(0).id = 0
      BY <2>1, GuestFrames, Zenon DEF ErrorFrame
    <2>3. Says(ErrorFrame(0))
      BY <2>2, Zenon DEF TruthfulNow
    <2> QED BY <1>2, <1>b, <2>3, Zenon DEF RejectFrame
  <1>3. CASE RelayOutput
    <2>1. PICK i \in Ids : job # <<>> /\ i = Current.id
      BY <1>0, <1>3, Zenon DEF RelayOutput, Running
    <2> DEFINE f == ExecOutput(i, printed[i] + 1)
    <2>2. printed[i] + 1 \in 1 .. MaxOut
      BY <1>3, <2>1, PortAssumption DEF RelayOutput, TypeOK, SandboxdTypeOK
    <2>3. f \in GuestFrame /\ f.t = "exec_output" /\ f.id = i
      BY <2>2, GuestFrames, Zenon DEF ExecOutput
    <2>4. GuestWrite(f)
      BY <1>3, <2>1, Zenon DEF RelayOutput
    <2>5. Says(f)
      BY <2>1, <2>3, Zenon DEF TruthfulNow, Over, Final
    <2> QED BY <1>b, <2>4, <2>5, Zenon
  <1>4. CASE SendResponse \/ ExecAborts
    <2>1. PICK i \in Ids : job # <<>> /\ i = Current.id
      BY <1>0, <1>4, Zenon DEF SendResponse, ExecAborts, Running
    <2>2. UNCHANGED <<toGuest, exitOf>> /\ job' = <<>>
      BY <1>4, Zenon DEF SendResponse, ExecAborts
    <2>3. OverNow(i)
      BY <1>a, <2>1, <2>2, Zenon DEF OverNow, Identified, Used, UsedNow
    <2>4. \A j : Over(j) => j # i
      BY <2>1, Zenon DEF Over
    <2>5. exitOf[i] \in Codes
      BY <1>0, Zenon
    <2>6. /\ ErrorFrame(i) \in GuestFrame /\ ErrorFrame(i).t = "error" /\ ErrorFrame(i).id = i
          /\ ExecResponse(i, exitOf[i]) \in GuestFrame /\ ExecResponse(i, exitOf[i]).id = i
          /\ ExecResponse(i, exitOf[i]).code = exitOf[i]
      BY <2>5, GuestFrames, Zenon DEF ErrorFrame, ExecResponse
    <2>7. Says(ErrorFrame(i)) /\ Says(ExecResponse(i, exitOf[i]))
      BY <2>2, <2>3, <2>4, <2>6, Zenon DEF TruthfulNow
    <2> QED BY <1>4, <1>b, <2>1, <2>7, Zenon DEF SendResponse, ExecAborts
  <1>5. CASE StartExec \/ OutputEnds \/ ProcessExits \/ HandleStdin \/ StdinHangsUp
    BY <1>5, Zenon DEF StartExec, OutputEnds, ProcessExits, HandleStdin, StdinHangsUp, portVars
  <1> QED BY <1>1, <1>2, <1>3, <1>4, <1>5, Zenon DEF Guest

\* Other steps only take frames from the wire.
LEMMA WirePart ==
  ASSUME TypeOK, [Next]_vars, ~(Guest /\ UNCHANGED clientVars)
  PROVE  Part(toHost', toHost)
  <1>0. toHost \in Seq(GuestFrame)
    BY Zenon DEF TypeOK, PortTypeOK
  <1>1. CASE Lookup
    BY <1>0, <1>1, PartTail, Zenon DEF Lookup
  <1>2. CASE QemuDies
    BY <1>0, <1>2, PartSub, Zenon DEF QemuDies, GuestDies
  <1>3. CASE UNCHANGED toHost
    BY <1>0, <1>3, PartSame, Zenon
  <1>4. ASSUME NEW c \in Calls, Call(c) PROVE UNCHANGED toHost
    <2> USE DEF portVars
    <2>1. CASE Register(c) \/ SendRequest(c) \/ SendRequestFails(c) \/ TakeOutput(c)
      BY <2>1, Zenon DEF Register, SendRequest, SendRequestFails, TakeOutput
    <2>2. CASE TakeExit(c) \/ TakeError(c) \/ CancelStream(c)
      BY <2>2, Zenon DEF TakeExit, TakeError, CancelStream
    <2>3. CASE SendInput(c) \/ SendEof(c) \/ InputEnds(c)
      BY <2>3, Zenon DEF SendInput, SendEof, InputEnds
    <2> QED BY <1>4, <2>1, <2>2, <2>3, Zenon DEF Call
  <1>5. CASE DeliverOutput \/ DeliverResult \/ CloseChannels \/ BroadcastError \/ Stop
    BY <1>3, <1>5, Zenon DEF DeliverOutput, DeliverResult, CloseChannels, BroadcastError, Stop,
                             CloseRequests, CloseConn, portVars
  <1> QED BY <1>1, <1>2, <1>3, <1>4, <1>5, Zenon DEF Next, ReadLoop, vars, portVars

\* A step keeps the answers true, and last.
LEMMA AnsweredStep ==
  ASSUME TypeOK, Identified, UnusedIds, Answered, [Next]_vars PROVE Answered'
  <1>0. toHost \in Seq(GuestFrame) /\ \A k \in 1 .. Len(toHost) : toHost[k] \in GuestFrame
    BY DEF TypeOK, PortTypeOK
  <1>1. \A k \in 1 .. Len(toHost) : TruthfulNow(toHost[k])
    BY <1>0, StillTrue, Zenon DEF Answered
  <1>2. SUFFICES /\ \A k \in 1 .. Len(toHost') : TruthfulNow(toHost'[k])
                 /\ \A i, j \in 1 .. Len(toHost') :
                      i < j /\ toHost'[i].t \in Final /\ toHost'[i].id # 0
                        => toHost'[j].id # toHost'[i].id
    BY <1>2, Zenon DEF Answered, AnswerIsLast, Truthful, TruthfulNow, Over, OverNow,
                       Used, UsedNow, Current
  <1>3. CASE Part(toHost', toHost)
    <2>1. \A k \in 1 .. Len(toHost') : TruthfulNow(toHost'[k])
      BY <1>1, <1>3, Zenon DEF Part
    <2>2. ASSUME NEW i \in 1 .. Len(toHost'), NEW j \in 1 .. Len(toHost'),
                 i < j, toHost'[i].t \in Final, toHost'[i].id # 0
          PROVE  toHost'[j].id # toHost'[i].id
      <3>1. PICK d \in Nat : \A k \in 1 .. Len(toHost') :
              k + d \in 1 .. Len(toHost) /\ toHost'[k] = toHost[k + d]
        BY <1>3, Zenon DEF Part
      <3>2. i + d < j + d
        BY <2>2
      <3> QED BY <2>2, <3>1, <3>2, Zenon DEF Answered, AnswerIsLast
    <2> QED BY <2>1, <2>2, Zenon
  <1>4. ASSUME NEW f \in GuestFrame, toHost' = Append(toHost, f), TruthfulNow(f),
               \A i : Over(i) /\ i # 0 => f.id # i
        PROVE  /\ \A k \in 1 .. Len(toHost') : TruthfulNow(toHost'[k])
               /\ \A i, j \in 1 .. Len(toHost') :
                    i < j /\ toHost'[i].t \in Final /\ toHost'[i].id # 0
                      => toHost'[j].id # toHost'[i].id
    <2>1. \A k \in 1 .. Len(toHost') : \/ k \in 1 .. Len(toHost) /\ toHost'[k] = toHost[k]
                                       \/ k = Len(toHost) + 1 /\ toHost'[k] = f
      BY <1>0, <1>4, AppendAt, Zenon
    <2>2. \A k \in 1 .. Len(toHost') : TruthfulNow(toHost'[k])
      BY <1>1, <1>4, <2>1, Zenon
    <2>3. ASSUME NEW i \in 1 .. Len(toHost'), NEW j \in 1 .. Len(toHost'),
                 i < j, toHost'[i].t \in Final, toHost'[i].id # 0
          PROVE  toHost'[j].id # toHost'[i].id
      <3>1. Len(toHost) \in Nat /\ Len(toHost') = Len(toHost) + 1
        BY <1>0, <1>4
      <3>2. i \in 1 .. Len(toHost)
        BY <2>3, <3>1
      <3>3. toHost'[i] = toHost[i]
        <4>1. i # Len(toHost) + 1
          BY <3>1, <3>2
        <4> QED BY <2>1, <4>1, Zenon
      <3>4. CASE toHost'[j] = f
        BY <1>4, <2>3, <3>2, <3>3, <3>4, Zenon DEF Answered, Truthful
      <3>5. CASE j \in 1 .. Len(toHost) /\ toHost'[j] = toHost[j]
        BY <2>3, <3>2, <3>3, <3>5, Zenon DEF Answered, AnswerIsLast
      <3> QED BY <2>1, <3>4, <3>5, Zenon
    <2> QED BY <2>2, <2>3, Zenon
  <1>5. CASE UNCHANGED toHost
    BY <1>0, <1>3, <1>5, PartSame, Zenon
  <1> QED BY <1>3, <1>4, <1>5, GuestSays, WirePart, Zenon

-----------------------------------------------------------------------------
\* Routed after the step.
RoutedNow ==
  /\ dispatching' # <<>> =>
       /\ idOf'[dispatching'[1].call] = dispatching'[1].msg.id
       /\ pc'[dispatching'[1].call] # "idle"
       /\ TruthfulNow(dispatching'[1].msg)
  /\ \A c \in Calls :
       /\ pc'[c] = "idle" =>
            got'[c] = <<>> /\ chan'[c].output = <<>> /\ chan'[c].exit = <<>>
       /\ \A k \in 1 .. Len(chan'[c].exit) :
            OverNow(idOf'[c]) /\ chan'[c].exit[k] = exitOf'[idOf'[c]]
       /\ pc'[c] = "exited" => OverNow(idOf'[c]) /\ code'[c] = exitOf'[idOf'[c]]

LEMMA RoutedNext ==
  ASSUME RoutedNow PROVE Routed'
  BY Zenon DEF RoutedNow, Routed, Truthful, TruthfulNow, Over, OverNow, Used, UsedNow, Current

(* What a step leaves true of dispatch, the channels and the results, if it *)
(* does not touch them.                                                    *)
LEMMA StillRouted ==
  ASSUME TypeOK, Identified, UnusedIds, Routed, [Next]_vars
  PROVE  /\ dispatching # <<>> => /\ dispatching[1].call \in Calls
                                  /\ idOf[dispatching[1].call] = dispatching[1].msg.id
                                  /\ pc[dispatching[1].call] # "idle"
                                  /\ TruthfulNow(dispatching[1].msg)
         /\ \A c \in Calls :
              /\ \A k \in 1 .. Len(chan[c].exit) :
                   OverNow(idOf[c]) /\ chan[c].exit[k] = exitOf'[idOf[c]]
              /\ pc[c] = "exited" => OverNow(idOf[c]) /\ code[c] = exitOf'[idOf[c]]
  <1>1. \A c \in Calls : idOf[c] \in Ids
    BY Zenon DEF TypeOK, ClientTypeOK
  <1>2. \A i \in Ids : Over(i) => OverNow(i) /\ exitOf'[i] = exitOf[i]
    BY StillTrue, ExitKept, Zenon
  <1>3. dispatching # <<>> => dispatching[1].call \in Calls /\ TruthfulNow(dispatching[1].msg)
    BY DispatchFields, StillTrue, Zenon DEF Routed
  <1> QED BY <1>1, <1>2, <1>3, Zenon DEF Routed

LEMMA RoutedKept ==
  ASSUME TypeOK, Identified, UnusedIds, Routed, [Next]_vars, UNCHANGED idOf,
         dispatching' # <<>> => /\ dispatching # <<>>
                                /\ dispatching'[1].call = dispatching[1].call
                                /\ dispatching'[1].msg = dispatching[1].msg,
         \A c \in Calls :
           /\ pc'[c] = "idle" <=> pc[c] = "idle"
           /\ pc[c] = "idle" => got'[c] = got[c] /\ chan'[c].output = chan[c].output
           /\ chan'[c].exit = chan[c].exit
           /\ pc'[c] = "exited" => pc[c] = "exited" /\ code'[c] = code[c]
  PROVE  Routed'
  <1>1. /\ dispatching' # <<>> =>
             /\ idOf'[dispatching'[1].call] = dispatching'[1].msg.id
             /\ pc'[dispatching'[1].call] # "idle"
             /\ TruthfulNow(dispatching'[1].msg)
    BY StillRouted, Zenon
  <1>2. ASSUME NEW c \in Calls
        PROVE  /\ \A k \in 1 .. Len(chan'[c].exit) :
                    OverNow(idOf'[c]) /\ chan'[c].exit[k] = exitOf'[idOf'[c]]
               /\ pc'[c] = "exited" => OverNow(idOf'[c]) /\ code'[c] = exitOf'[idOf'[c]]
    <2>1. idOf'[c] = idOf[c] /\ chan'[c].exit = chan[c].exit
      BY Zenon
    <2>2. /\ \A k \in 1 .. Len(chan[c].exit) :
               OverNow(idOf[c]) /\ chan[c].exit[k] = exitOf'[idOf[c]]
          /\ pc[c] = "exited" => OverNow(idOf[c]) /\ code[c] = exitOf'[idOf[c]]
      BY StillRouted, Zenon
    <2> QED BY <2>1, <2>2, Zenon
  <1>3. \A c \in Calls : pc'[c] = "idle" =>
          got'[c] = <<>> /\ chan'[c].output = <<>> /\ chan'[c].exit = <<>>
    BY Zenon DEF Routed
  <1>4. RoutedNow
    BY <1>1, <1>2, <1>3, Zenon DEF RoutedNow
  <1> QED BY <1>4, RoutedNext, Zenon

\* An operation on one channel of a call.
LEMMA ChanSet ==
  ASSUME NEW c \in Calls, NEW v, chan \in [Calls -> Chan]
  PROVE  /\ chan' = [chan EXCEPT ![c].output = v] =>
              /\ chan'[c].output = v /\ chan'[c].exit = chan[c].exit
              /\ \A d \in Calls \ {c} : chan'[d] = chan[d]
         /\ chan' = [chan EXCEPT ![c].exit = v] =>
              /\ chan'[c].exit = v /\ chan'[c].output = chan[c].output
              /\ \A d \in Calls \ {c} : chan'[d] = chan[d]
         /\ \/ chan' = [chan EXCEPT ![c].err = v]
            \/ chan' = [chan EXCEPT ![c].closed = v]
            => \A d \in Calls : chan'[d].output = chan[d].output /\ chan'[d].exit = chan[d].exit
  <1>1. chan[c] \in Chan
    BY Zenon
  <1>2. \A d \in Calls \ {c} :
          /\ [chan EXCEPT ![c].output = v][d] = chan[d]
          /\ [chan EXCEPT ![c].exit = v][d] = chan[d]
          /\ [chan EXCEPT ![c].err = v][d] = chan[d]
          /\ [chan EXCEPT ![c].closed = v][d] = chan[d]
    BY Zenon
  <1>3. /\ [chan EXCEPT ![c].output = v][c].output = v
        /\ [chan EXCEPT ![c].output = v][c].exit = chan[c].exit
        /\ [chan EXCEPT ![c].exit = v][c].exit = v
        /\ [chan EXCEPT ![c].exit = v][c].output = chan[c].output
        /\ [chan EXCEPT ![c].err = v][c].exit = chan[c].exit
        /\ [chan EXCEPT ![c].err = v][c].output = chan[c].output
        /\ [chan EXCEPT ![c].closed = v][c].exit = chan[c].exit
        /\ [chan EXCEPT ![c].closed = v][c].output = chan[c].output
    BY <1>1, Zenon DEF Chan
  <1>4. ASSUME chan' = [chan EXCEPT ![c].err = v] \/ chan' = [chan EXCEPT ![c].closed = v],
               NEW d \in Calls
        PROVE  chan'[d].output = chan[d].output /\ chan'[d].exit = chan[d].exit
    BY <1>2, <1>3, <1>4, Zenon
  <1> QED BY <1>2, <1>3, <1>4, Zenon

\* The steps of the calls and of the input goroutines.
LEMMA CallRouted ==
  ASSUME Ownership, Identified, UnusedIds, Routed, [Next]_vars,
         NEW c \in Calls, Call(c), UNCHANGED guestVars
  PROVE  Routed'
  <1> USE DEF portVars, guestVars
  <1>0. /\ TypeOK
        /\ pc \in [Calls -> {"idle", "send", "collect"} \cup Returned]
        /\ chan \in [Calls -> Chan] /\ chan[c] \in Chan
        /\ got \in [Calls -> Seq(Chunk)] /\ code \in [Calls -> Codes]
        /\ chan[c].exit \in Seq(Codes)
    BY Zenon DEF Ownership, TypeOK, ClientTypeOK, Chan
  <1>1. CASE Register(c)
    <2>1. /\ UNCHANGED <<dispatching, chan, got, code>> /\ pc[c] = "idle"
          /\ pc'[c] = "send"
          /\ \A d \in Calls : d # c => pc'[d] = pc[d] /\ idOf'[d] = idOf[d]
      BY <1>0, <1>1, RegisterIds, Zenon
    <2>2. chan[c].exit = <<>> /\ \A k \in 1 .. Len(<<>>) : FALSE
      <3>1. \A k \in 1 .. Len(<<>>) : FALSE
        OBVIOUS
      <3> QED BY <2>1, <3>1, Zenon DEF Routed
    <2>3. dispatching # <<>> => dispatching[1].call \in Calls \ {c}
      BY <1>0, <2>1, StillRouted, Zenon
    <2>4. dispatching' # <<>> =>
            /\ idOf'[dispatching'[1].call] = dispatching'[1].msg.id
            /\ pc'[dispatching'[1].call] # "idle"
            /\ TruthfulNow(dispatching'[1].msg)
      BY <1>0, <2>1, <2>3, StillRouted, Zenon
    <2>5. ASSUME NEW d \in Calls
          PROVE  /\ pc'[d] = "idle" =>
                      got'[d] = <<>> /\ chan'[d].output = <<>> /\ chan'[d].exit = <<>>
                 /\ \A k \in 1 .. Len(chan'[d].exit) :
                      OverNow(idOf'[d]) /\ chan'[d].exit[k] = exitOf'[idOf'[d]]
                 /\ pc'[d] = "exited" => OverNow(idOf'[d]) /\ code'[d] = exitOf'[idOf'[d]]
      <3>1. CASE d = c
        BY <2>1, <2>2, <3>1, Zenon
      <3>2. CASE d # c
        <4>1. /\ \A k \in 1 .. Len(chan[d].exit) :
                   OverNow(idOf[d]) /\ chan[d].exit[k] = exitOf'[idOf[d]]
              /\ pc[d] = "exited" => OverNow(idOf[d]) /\ code[d] = exitOf'[idOf[d]]
          BY <1>0, StillRouted, Zenon
        <4> QED BY <2>1, <3>2, <4>1, Zenon DEF Routed
      <3> QED BY <3>1, <3>2, Zenon
    <2>6. RoutedNow
      BY <2>4, <2>5, Zenon DEF RoutedNow
    <2> QED BY <2>6, RoutedNext, Zenon
  <1>2. CASE TakeExit(c)
    <2>1. /\ UNCHANGED <<dispatching, got, idOf>>
          /\ pc[c] = "collect" /\ pc' = [pc EXCEPT ![c] = "exited"]
          /\ code' = [code EXCEPT ![c] = Head(chan[c].exit)]
          /\ chan[c].exit # <<>> /\ chan' = [chan EXCEPT ![c].exit = Tail(chan[c].exit)]
      BY <1>2, Zenon DEF TakeExit
    <2>2. /\ chan'[c].exit = Tail(chan[c].exit) /\ chan'[c].output = chan[c].output
          /\ \A d \in Calls \ {c} : chan'[d] = chan[d]
      BY <1>0, <2>1, ChanSet, Zenon
    <2>3. /\ pc'[c] = "exited" /\ code'[c] = Head(chan[c].exit)
          /\ \A d \in Calls \ {c} : pc'[d] = pc[d] /\ code'[d] = code[d]
      BY <1>0, <2>1, Zenon
    <2>4. dispatching' # <<>> =>
            /\ idOf'[dispatching'[1].call] = dispatching'[1].msg.id
            /\ pc'[dispatching'[1].call] # "idle"
            /\ TruthfulNow(dispatching'[1].msg)
      <3>1. \A d \in Calls : pc[d] # "idle" => pc'[d] # "idle"
        BY <2>3, Zenon
      <3> QED BY <1>0, <2>1, <3>1, StillRouted, Zenon
    <2>5. ASSUME NEW d \in Calls
          PROVE  /\ pc'[d] = "idle" =>
                      got'[d] = <<>> /\ chan'[d].output = <<>> /\ chan'[d].exit = <<>>
                 /\ \A k \in 1 .. Len(chan'[d].exit) :
                      OverNow(idOf'[d]) /\ chan'[d].exit[k] = exitOf'[idOf'[d]]
                 /\ pc'[d] = "exited" => OverNow(idOf'[d]) /\ code'[d] = exitOf'[idOf'[d]]
      <3>0. /\ \A k \in 1 .. Len(chan[d].exit) :
                 OverNow(idOf[d]) /\ chan[d].exit[k] = exitOf'[idOf[d]]
            /\ pc[d] = "exited" => OverNow(idOf[d]) /\ code[d] = exitOf'[idOf[d]]
        BY <1>0, StillRouted, Zenon
      <3>1. CASE d = c
        <4>1. /\ Part(Tail(chan[c].exit), chan[c].exit)
              /\ Head(chan[c].exit) = chan[c].exit[1] /\ 1 \in 1 .. Len(chan[c].exit)
          BY <1>0, <2>1, PartTail, Zenon
        <4>2. /\ \A k \in 1 .. Len(Tail(chan[c].exit)) :
                   OverNow(idOf[c]) /\ Tail(chan[c].exit)[k] = exitOf'[idOf[c]]
              /\ OverNow(idOf[c]) /\ Head(chan[c].exit) = exitOf'[idOf[c]]
          BY <3>0, <3>1, <4>1, Zenon DEF Part
        <4>3. idOf'[c] = idOf[c] /\ pc'[c] # "idle"
          BY <2>1, <2>3, Zenon
        <4> QED BY <2>2, <2>3, <3>1, <4>2, <4>3, Zenon
      <3>2. CASE d # c
        BY <2>1, <2>2, <2>3, <3>0, <3>2, ZenonT(30) DEF Routed
      <3> QED BY <3>1, <3>2, Zenon
    <2>6. RoutedNow
      BY <2>4, <2>5, Zenon DEF RoutedNow
    <2> QED BY <2>6, RoutedNext, Zenon
  <1>3. CASE SendRequest(c)
    <2>1. /\ UNCHANGED <<dispatching, idOf, got, chan, code>>
          /\ pc[c] = "send" /\ pc' = [pc EXCEPT ![c] = "collect"]
      BY <1>3, Zenon DEF SendRequest
    <2> QED BY <1>0, <2>1, RoutedKept, Zenon
  <1>4. CASE SendRequestFails(c) \/ CancelStream(c)
    <2>1. /\ UNCHANGED <<dispatching, idOf, got, chan, code>>
          /\ pc[c] \in {"send", "collect"} /\ pc' = [pc EXCEPT ![c] = pc'[c]]
          /\ pc'[c] \in {"failed", "cancelled"}
      BY <1>0, <1>4, Zenon DEF SendRequestFails, CancelStream
    <2>2. \A d \in Calls : /\ pc'[d] = "idle" <=> pc[d] = "idle"
                           /\ pc'[d] = "exited" => pc[d] = "exited"
      BY <1>0, <2>1, Zenon
    <2> QED BY <1>0, <2>1, <2>2, RoutedKept, Zenon
  <1>5. CASE TakeOutput(c)
    <2>1. /\ UNCHANGED <<dispatching, idOf, pc, code>> /\ pc[c] = "collect"
          /\ got' = [got EXCEPT ![c] = got'[c]]
          /\ chan' = [chan EXCEPT ![c].output = Tail(chan[c].output)]
      BY <1>0, <1>5, Zenon DEF TakeOutput
    <2>2. \A d \in Calls : /\ chan'[d].exit = chan[d].exit
                           /\ d # c => chan'[d] = chan[d] /\ got'[d] = got[d]
      BY <1>0, <2>1, ChanSet, Zenon
    <2> QED BY <1>0, <2>1, <2>2, RoutedKept, Zenon
  <1>6. CASE TakeError(c)
    <2>1. /\ UNCHANGED <<dispatching, idOf, got, code>> /\ pc[c] = "collect"
          /\ pc' = [pc EXCEPT ![c] = "failed"]
          /\ chan' = [chan EXCEPT ![c].err = 0]
      BY <1>6, Zenon DEF TakeError
    <2>2. \A d \in Calls : chan'[d].exit = chan[d].exit /\ chan'[d].output = chan[d].output
      BY <1>0, <2>1, ChanSet, Zenon
    <2> QED BY <1>0, <2>1, <2>2, RoutedKept, Zenon
  <1>7. CASE SendInput(c) \/ SendEof(c) \/ InputEnds(c)
    <2>1. UNCHANGED <<dispatching, idOf, got, chan, code, pc>>
      BY <1>7, Zenon DEF SendInput, SendEof, InputEnds
    <2> QED BY <1>0, <2>1, RoutedKept, Zenon
  <1> QED BY <1>1, <1>2, <1>3, <1>4, <1>5, <1>6, <1>7, Zenon DEF Call

\* The steps of the read loop and of Close.
LEMMA ReadLoopRouted ==
  ASSUME Ownership, Identified, UnusedIds, Answered, Routed, [Next]_vars,
         ReadLoop \/ Stop, UNCHANGED guestVars
  PROVE  Routed'
  <1>0. /\ TypeOK /\ chan \in [Calls -> Chan] /\ toHost \in Seq(GuestFrame)
        /\ \A c \in Calls : chan[c] \in Chan
    BY Zenon DEF Ownership, TypeOK, PortTypeOK, ClientTypeOK
  <1>1. CASE Lookup
    <2>1. Head(toHost) \in GuestFrame /\ Head(toHost).id \in Ids /\ Truthful(Head(toHost))
      <3>1. toHost # <<>>
        BY <1>1, Zenon DEF Lookup
      <3>2. Head(toHost) = toHost[1] /\ 1 \in 1 .. Len(toHost) /\ Head(toHost) \in GuestFrame
        BY <1>0, <3>1, PartTail, HeadTail, Zenon
      <3> QED BY <3>2, FrameFields, Zenon DEF Answered
    <2>2. TruthfulNow(Head(toHost))
      BY <1>0, <2>1, StillTrue, Zenon
    <2> DEFINE c == reqs[Head(toHost).id]
    <2>3. /\ UNCHANGED <<chan, idOf, pc, got, code>>
          /\ dispatching' = IF c = NoCall THEN <<>>
                            ELSE <<[msg |-> Head(toHost), call |-> c, sent |-> FALSE]>>
      BY <1>1, Zenon DEF Lookup
    <2>4. c # NoCall => c \in Calls /\ idOf[c] = Head(toHost).id /\ pc[c] # "idle"
      BY <2>1, Zenon DEF Ownership, Entries, TypeOK, ClientTypeOK
    <2> HIDE DEF c
    <2>5. dispatching' # <<>> =>
            /\ idOf'[dispatching'[1].call] = dispatching'[1].msg.id
            /\ pc'[dispatching'[1].call] # "idle"
            /\ TruthfulNow(dispatching'[1].msg)
      BY <2>2, <2>3, <2>4, Zenon
    <2>6. ASSUME NEW d \in Calls
          PROVE  /\ pc'[d] = "idle" =>
                      got'[d] = <<>> /\ chan'[d].output = <<>> /\ chan'[d].exit = <<>>
                 /\ \A k \in 1 .. Len(chan'[d].exit) :
                      OverNow(idOf'[d]) /\ chan'[d].exit[k] = exitOf'[idOf'[d]]
                 /\ pc'[d] = "exited" => OverNow(idOf'[d]) /\ code'[d] = exitOf'[idOf'[d]]
      <3>1. /\ \A k \in 1 .. Len(chan[d].exit) :
                 OverNow(idOf[d]) /\ chan[d].exit[k] = exitOf'[idOf[d]]
            /\ pc[d] = "exited" => OverNow(idOf[d]) /\ code[d] = exitOf'[idOf[d]]
        BY <1>0, StillRouted, Zenon
      <3> QED BY <2>3, <3>1, Zenon DEF Routed
    <2>7. RoutedNow
      BY <2>5, <2>6, Zenon DEF RoutedNow
    <2> QED BY <2>7, RoutedNext, Zenon
  <1>2. CASE DeliverResult
    <2>0. PICK d \in Dispatch : dispatching = <<d>>
      BY <1>2, Zenon DEF DeliverResult, Ownership, TypeOK, ClientTypeOK
    <2>1. /\ d.call \in Calls /\ idOf[d.call] = d.msg.id /\ pc[d.call] # "idle"
          /\ TruthfulNow(d.msg)
      <3>1. dispatching # <<>> /\ dispatching[1] = d
        BY <2>0, Zenon
      <3> QED BY <1>0, <3>1, StillRouted, Zenon
    <2>2. UNCHANGED <<idOf, pc, got, code>> /\ dispatching' = <<[d EXCEPT !.sent = TRUE]>>
      BY <1>2, <2>0, Zenon DEF DeliverResult
    <2>3. dispatching'[1].call = d.call /\ dispatching'[1].msg = d.msg
      BY <2>2, Zenon DEF Dispatch
    <2>4. /\ \A e \in Calls : chan'[e].output = chan[e].output
          /\ \A e \in Calls \ {d.call} : chan'[e].exit = chan[e].exit
          /\ \/ chan'[d.call].exit = chan[d.call].exit
             \/ d.msg.t = "exec_response" /\ chan'[d.call].exit = <<d.msg.code>>
      <3>1. \/ /\ d.msg.t = "exec_response"
               /\ chan' = [chan EXCEPT ![d.call].exit = <<d.msg.code>>]
            \/ chan' = [chan EXCEPT ![d.call].err = 1]
        BY <1>2, <2>0, Zenon DEF DeliverResult
      <3> QED BY <1>0, <2>1, <3>1, ChanSet, ZenonT(30)
    <2>5. /\ idOf'[dispatching'[1].call] = dispatching'[1].msg.id
          /\ pc'[dispatching'[1].call] # "idle"
          /\ TruthfulNow(dispatching'[1].msg)
      BY <2>1, <2>2, <2>3, Zenon
    <2>6. ASSUME NEW c \in Calls
          PROVE  /\ pc'[c] = "idle" =>
                      got'[c] = <<>> /\ chan'[c].output = <<>> /\ chan'[c].exit = <<>>
                 /\ \A k \in 1 .. Len(chan'[c].exit) :
                      OverNow(idOf'[c]) /\ chan'[c].exit[k] = exitOf'[idOf'[c]]
                 /\ pc'[c] = "exited" => OverNow(idOf'[c]) /\ code'[c] = exitOf'[idOf'[c]]
      <3>1. /\ \A k \in 1 .. Len(chan[c].exit) :
                 OverNow(idOf[c]) /\ chan[c].exit[k] = exitOf'[idOf[c]]
            /\ pc[c] = "exited" => OverNow(idOf[c]) /\ code[c] = exitOf'[idOf[c]]
        BY <1>0, StillRouted, Zenon
      <3>2. CASE chan'[c].exit = chan[c].exit
        BY <2>2, <2>4, <3>1, <3>2, Zenon DEF Routed
      <3>3. CASE c = d.call /\ d.msg.t = "exec_response" /\ chan'[c].exit = <<d.msg.code>>
        <4>1. OverNow(idOf'[c]) /\ d.msg.code = exitOf'[idOf'[c]]
          BY <2>1, <2>2, <3>3, Zenon DEF TruthfulNow
        <4>2. \A k \in 1 .. Len(<<d.msg.code>>) : <<d.msg.code>>[k] = d.msg.code
          OBVIOUS
        <4> QED BY <2>1, <2>2, <3>1, <3>3, <4>1, <4>2, Zenon
      <3> QED BY <2>4, <3>2, <3>3, Zenon
    <2>7. RoutedNow
      BY <2>5, <2>6, Zenon DEF RoutedNow
    <2> QED BY <2>7, RoutedNext, Zenon
  <1>3. CASE DeliverOutput
    <2>0. PICK d \in Dispatch : dispatching = <<d>>
      BY <1>3, Zenon DEF DeliverOutput, Ownership, TypeOK, ClientTypeOK
    <2>1. d.call \in Calls /\ pc[d.call] # "idle"
      <3>1. dispatching # <<>> /\ dispatching[1] = d
        BY <2>0, Zenon
      <3> QED BY <1>0, <3>1, StillRouted, Zenon
    <2>2. /\ UNCHANGED <<idOf, pc, got, code>> /\ dispatching' = <<>>
          /\ chan' = chan \/ \E v : chan' = [chan EXCEPT ![d.call].output = v]
      BY <1>3, <2>0, Zenon DEF DeliverOutput
    <2>3. \A e \in Calls : /\ chan'[e].exit = chan[e].exit
                           /\ e # d.call => chan'[e].output = chan[e].output
      BY <1>0, <2>1, <2>2, ChanSet, ZenonT(30)
    <2> QED BY <1>0, <2>1, <2>2, <2>3, RoutedKept, Zenon
  <1>4. CASE CloseChannels
    <2>0. PICK d \in Dispatch : dispatching = <<d>>
      BY <1>4, Zenon DEF CloseChannels, Ownership, TypeOK, ClientTypeOK
    <2>1. /\ UNCHANGED <<idOf, pc, got, code>> /\ dispatching' = <<>>
          /\ chan' = [chan EXCEPT ![d.call].closed = TRUE] /\ d.call \in Calls
      BY <1>4, <2>0, Zenon DEF CloseChannels, Dispatch
    <2>2. \A e \in Calls : chan'[e].exit = chan[e].exit /\ chan'[e].output = chan[e].output
      BY <1>0, <2>1, ChanSet, Zenon
    <2> QED BY <1>0, <2>1, <2>2, RoutedKept, Zenon
  <1>5. CASE BroadcastError \/ CloseRequests
    <2>1. /\ UNCHANGED <<idOf, pc, got, code, dispatching>>
          /\ \A c \in Calls : chan'[c] \in {chan[c], [chan[c] EXCEPT !.err = 1],
                                            [chan[c] EXCEPT !.closed = TRUE]}
      BY <1>5, Zenon DEF BroadcastError, CloseRequests
    <2>2. ASSUME NEW c \in Calls
          PROVE  chan'[c].exit = chan[c].exit /\ chan'[c].output = chan[c].output
      <3>1. chan[c] \in Chan
        BY <1>0, Zenon
      <3> QED BY <2>1, <3>1, Zenon DEF Chan
    <2> QED BY <1>0, <2>1, <2>2, RoutedKept, Zenon
  <1>6. CASE CloseConn
    <2>1. UNCHANGED <<idOf, pc, got, code, dispatching, chan>>
      BY <1>6, Zenon DEF CloseConn
    <2> QED BY <1>0, <2>1, RoutedKept, Zenon
  <1> QED BY <1>1, <1>2, <1>3, <1>4, <1>5, <1>6, Zenon DEF ReadLoop, Stop

LEMMA RoutedStep ==
  ASSUME Ownership, Identified, UnusedIds, Answered, Routed, [Next]_vars
  PROVE  Routed'
  <1>1. CASE UNCHANGED clientVars
    <2>1. UNCHANGED <<idOf, pc, got, code, dispatching, chan>>
      BY <1>1, Zenon DEF clientVars
    <2> QED BY <2>1, RoutedKept, Zenon DEF Ownership
  <1> QED BY <1>1, CallRouted, ReadLoopRouted, Zenon DEF Next, vars

-----------------------------------------------------------------------------
(* The order of output.  t has no output that s has not, and in the order  *)
(* of s.                                                                   *)
Fewer(t, s) ==
  \A k, l \in 1 .. Len(t) :
    t[k].t = "exec_output" /\ t[l].t = "exec_output" =>
      \E a, b \in 1 .. Len(s) : t[k] = s[a] /\ t[l] = s[b] /\ (k < l => a < b)

LEMMA FewerPart ==
  ASSUME NEW t, NEW s, Part(t, s) PROVE Fewer(t, s)
  <1>1. PICK d \in Nat : \A k \in 1 .. Len(t) : k + d \in 1 .. Len(s) /\ t[k] = s[k + d]
    BY Zenon DEF Part
  <1>2. \A k, l \in 1 .. Len(t) : k < l => k + d < l + d
    OBVIOUS
  <1> QED BY <1>1, <1>2, Zenon DEF Fewer

LEMMA FewerAnswer ==
  ASSUME NEW s \in Seq(GuestFrame), NEW f \in GuestFrame, f.t # "exec_output"
  PROVE  Fewer(Append(s, f), s)
  <1>1. \A k \in 1 .. Len(Append(s, f)) :
          Append(s, f)[k].t = "exec_output" => k \in 1 .. Len(s) /\ Append(s, f)[k] = s[k]
    BY AppendAt, Zenon
  <1> QED BY <1>1, Zenon DEF Fewer

LEMMA Less ==
  \A x, y, z \in Nat : /\ x <= y /\ y <= z => x <= z
                       /\ x < y /\ y < z => x < z
                       /\ x <= y => x < y + 1
                       /\ x <= y => x <= y + 1
                       /\ x <= x
  OBVIOUS

\* Losing output, or printing more, keeps the order.
LEMMA FewerOrdered ==
  ASSUME NEW s \in Seq(GuestFrame), NEW t, Fewer(t, s),
         NEW p \in [Ids -> Nat], NEW q \in [Ids -> Nat], \A i \in Ids : p[i] <= q[i]
  PROVE  /\ WireOrdered(s, p) => WireOrdered(t, q)
         /\ \A i, n : BeforeWire(s, i, n) => BeforeWire(t, i, n)
         /\ \A i \in Ids : \A n \in Nat : n <= p[i] => n <= q[i]
  <1>0. \A k \in 1 .. Len(s) : s[k] \in GuestFrame
    OBVIOUS
  <1>1. \A m \in GuestFrame : m.id \in Ids /\ (m.t = "exec_output" => m.n \in Nat)
    <2>1. \A n \in 1 .. MaxOut : n \in Nat
      OBVIOUS
    <2> QED BY <2>1, FrameFields, Zenon
  <1>2. \A i \in Ids : \A n \in Nat : n <= p[i] => n <= q[i]
    BY Less, Zenon
  <1>3. ASSUME NEW k \in 1 .. Len(t), t[k].t = "exec_output"
        PROVE  \E a \in 1 .. Len(s) : t[k] = s[a]
    BY <1>3, Zenon DEF Fewer
  <1>4. \A i, n : BeforeWire(s, i, n) => BeforeWire(t, i, n)
    BY <1>3, Zenon DEF BeforeWire, Output
  <1>5. ASSUME WireOrdered(s, p) PROVE WireOrdered(t, q)
    <2>1. ASSUME NEW k \in 1 .. Len(t), t[k].t = "exec_output"
          PROVE  t[k].n <= q[t[k].id]
      <3>1. PICK a \in 1 .. Len(s) : t[k] = s[a]
        BY <1>3, <2>1, Zenon
      <3>2. s[a].n <= p[s[a].id] /\ s[a].id \in Ids /\ s[a].n \in Nat
        BY <1>0, <1>1, <1>5, <2>1, <3>1, Zenon DEF WireOrdered
      <3> QED BY <1>2, <3>1, <3>2, Zenon
    <2>2. ASSUME NEW k \in 1 .. Len(t), NEW l \in 1 .. Len(t),
                 k < l, t[k].t = "exec_output", Output(t[l], t[k].id)
          PROVE  t[k].n < t[l].n
      <3>1. PICK a, b \in 1 .. Len(s) : t[k] = s[a] /\ t[l] = s[b] /\ a < b
        BY <2>2, Zenon DEF Fewer, Output
      <3>2. s[a].t = "exec_output" /\ Output(s[b], s[a].id)
        BY <2>2, <3>1, Zenon DEF Output
      <3> QED BY <1>5, <3>1, <3>2, Zenon DEF WireOrdered
    <2> QED BY <2>1, <2>2, Zenon DEF WireOrdered
  <1> QED BY <1>2, <1>4, <1>5, Zenon

LEMMA ChunkNumber ==
  ASSUME NEW q \in Seq(Chunk) PROVE \A k \in 1 .. Len(q) : q[k].n \in Nat
  <1>1. \A k \in 1 .. Len(q) : q[k] \in Chunk
    OBVIOUS
  <1>2. \A n \in 1 .. MaxOut : n \in Nat
    OBVIOUS
  <1> QED BY <1>1, <1>2, Zenon DEF Chunk

\* What a call has is kept in order if each chunk of it is.
LEMMA CallKept ==
  ASSUME NEW i, NEW g \in Seq(Chunk), NEW q \in Seq(Chunk),
         NEW s, NEW d, NEW p, NEW t, NEW e, NEW r, CallOrdered(s, d, p, i, g, q),
         \A n \in Nat : Ahead(s, d, p, i, n) => Ahead(t, e, r, i, n)
  PROVE  CallOrdered(t, e, r, i, g, q)
  <1>1. /\ \A k \in 1 .. Len(g) : g[k].n \in Nat
        /\ \A k \in 1 .. Len(q) : q[k].n \in Nat
    BY ChunkNumber, Zenon
  <1> QED BY <1>1, Zenon DEF CallOrdered

LEMMA CallNone ==
  ASSUME NEW i, NEW t, NEW e, NEW r PROVE CallOrdered(t, e, r, i, <<>>, <<>>)
  BY DEF CallOrdered

\* A chunk goes from dispatch into the channel.
LEMMA CallGets ==
  ASSUME NEW i, NEW g \in Seq(Chunk), NEW q \in Seq(Chunk), NEW h \in Chunk,
         NEW w, NEW d, NEW e, NEW p, CallOrdered(w, d, p, i, g, q),
         h.of = i, Ahead(w, e, p, i, h.n),
         \A n \in Nat : Ahead(w, d, p, i, n) => n < h.n /\ Ahead(w, e, p, i, n)
  PROVE  CallOrdered(w, e, p, i, g, Append(q, h))
  <1>0. /\ \A k \in 1 .. Len(g) : g[k].n \in Nat
        /\ \A k \in 1 .. Len(q) : q[k].n \in Nat
    BY ChunkNumber, Zenon
  <1>1. CallOrdered(w, e, p, i, g, q)
    BY CallKept, Zenon
  <1>2. /\ \A k \in 1 .. Len(g) : g[k].n < h.n
        /\ \A k \in 1 .. Len(q) : q[k].n < h.n
    BY <1>0, Zenon DEF CallOrdered
  <1>3. \A k \in 1 .. Len(Append(q, h)) :
          \/ k \in 1 .. Len(q) /\ Append(q, h)[k] = q[k]
          \/ k = Len(q) + 1 /\ Append(q, h)[k] = h
    BY AppendAt, Zenon
  <1>4. ASSUME NEW k \in 1 .. Len(Append(q, h))
        PROVE  /\ Append(q, h)[k].of = i /\ Ahead(w, e, p, i, Append(q, h)[k].n)
               /\ \A l \in 1 .. Len(Append(q, h)) :
                    k < l => Append(q, h)[k].n < Append(q, h)[l].n
    <2>1. Append(q, h)[k].of = i /\ Ahead(w, e, p, i, Append(q, h)[k].n)
      BY <1>1, <1>3, Zenon DEF CallOrdered
    <2>2. ASSUME NEW l \in 1 .. Len(Append(q, h)), k < l
          PROVE  Append(q, h)[k].n < Append(q, h)[l].n
      <3>1. k \in 1 .. Len(q) /\ k # Len(q) + 1
        BY <2>2
      <3>2. Append(q, h)[k] = q[k]
        BY <1>3, <3>1, Zenon
      <3> QED BY <1>1, <1>2, <1>3, <2>2, <3>1, <3>2, Zenon DEF CallOrdered
    <2> QED BY <2>1, <2>2, Zenon
  <1>5. ASSUME NEW k \in 1 .. Len(g)
        PROVE  /\ g[k].of = i /\ Ahead(w, e, p, i, g[k].n)
               /\ \A l \in 1 .. Len(g) : k < l => g[k].n < g[l].n
               /\ \A l \in 1 .. Len(Append(q, h)) : g[k].n < Append(q, h)[l].n
    BY <1>1, <1>2, <1>3, Zenon DEF CallOrdered
  <1> QED BY <1>4, <1>5, Zenon DEF CallOrdered

\* A chunk goes from the channel to the call.
LEMMA CallTakes ==
  ASSUME NEW i, NEW g \in Seq(Chunk), NEW q \in Seq(Chunk), q # <<>>,
         NEW w, NEW d, NEW p, CallOrdered(w, d, p, i, g, q)
  PROVE  CallOrdered(w, d, p, i, Append(g, Head(q)), Tail(q))
  <1> DEFINE a == Append(g, Head(q))
             t == Tail(q)
  <1>1. /\ Head(q) = q[1] /\ 1 \in 1 .. Len(q)
        /\ \A k \in 1 .. Len(t) : k + 1 \in 1 .. Len(q) /\ t[k] = q[k + 1] /\ 1 < k + 1
    OBVIOUS
  <1>2. \A k \in 1 .. Len(a) : \/ k \in 1 .. Len(g) /\ a[k] = g[k]
                               \/ k = Len(g) + 1 /\ a[k] = q[1]
    <2>1. Head(q) \in Chunk
      OBVIOUS
    <2> QED BY <1>1, <2>1, AppendAt, Zenon
  <1>3. \A k, l \in 1 .. Len(a) : k < l => k \in 1 .. Len(g) /\ k # Len(g) + 1
    OBVIOUS
  <1>4. \A k, l \in 1 .. Len(t) : k < l => k + 1 < l + 1
    OBVIOUS
  <1> HIDE DEF a, t
  <1>5. \A k \in 1 .. Len(t) : /\ t[k].of = i /\ Ahead(w, d, p, i, t[k].n)
                               /\ \A l \in 1 .. Len(t) : k < l => t[k].n < t[l].n
    BY <1>1, <1>4, Zenon DEF CallOrdered
  <1>6. ASSUME NEW k \in 1 .. Len(a)
        PROVE  /\ a[k].of = i /\ Ahead(w, d, p, i, a[k].n)
               /\ \A l \in 1 .. Len(a) : k < l => a[k].n < a[l].n
               /\ \A l \in 1 .. Len(t) : a[k].n < t[l].n
    <2>1. a[k].of = i /\ Ahead(w, d, p, i, a[k].n)
      BY <1>1, <1>2, Zenon DEF CallOrdered
    <2>2. ASSUME NEW l \in 1 .. Len(a), k < l PROVE a[k].n < a[l].n
      <3>1. k \in 1 .. Len(g) /\ a[k] = g[k]
        BY <1>2, <1>3, <2>2, Zenon
      <3> QED BY <1>1, <1>2, <2>2, <3>1, Zenon DEF CallOrdered
    <2>3. ASSUME NEW l \in 1 .. Len(t) PROVE a[k].n < t[l].n
      BY <1>1, <1>2, Zenon DEF CallOrdered
    <2> QED BY <2>1, <2>2, <2>3, Zenon
  <1>7. CallOrdered(w, d, p, i, a, t)
    BY <1>5, <1>6, Zenon DEF CallOrdered
  <1> QED BY <1>7, Zenon DEF a, t

\* Types that the order of output rests on.
LEMMA OrderTypes ==
  ASSUME TypeOK
  PROVE  /\ toHost \in Seq(GuestFrame) /\ printed \in [Ids -> Nat]
         /\ \A i \in Ids : printed[i] \in Nat /\ printed[i] <= printed[i]
         /\ \A k \in 1 .. Len(toHost) : toHost[k] \in GuestFrame
         /\ \A m \in GuestFrame : m.id \in Ids /\ (m.t = "exec_output" => m.n \in Nat)
         /\ \A c \in Calls : /\ got[c] \in Seq(Chunk) /\ chan[c].output \in Seq(Chunk)
                             /\ idOf[c] \in Ids /\ chan[c] \in Chan
         /\ dispatching # <<>> =>
              dispatching[1].call \in Calls /\ dispatching[1].msg \in GuestFrame
  <1>1. \A n \in 0 .. MaxOut : n \in Nat
    OBVIOUS
  <1>2. \A n \in 1 .. MaxOut : n \in Nat
    OBVIOUS
  <1>3. printed \in [Ids -> Nat]
    BY <1>1, Zenon DEF TypeOK, SandboxdTypeOK
  <1>a. \A i \in Ids : printed[i] \in Nat /\ printed[i] <= printed[i]
    BY <1>3
  <1>4. toHost \in Seq(GuestFrame) /\ \A k \in 1 .. Len(toHost) : toHost[k] \in GuestFrame
    BY DEF TypeOK, PortTypeOK
  <1>5. \A m \in GuestFrame : m.id \in Ids /\ (m.t = "exec_output" => m.n \in Nat)
    BY <1>2, FrameFields, Zenon
  <1>6. ASSUME NEW c \in Calls
        PROVE  /\ got[c] \in Seq(Chunk) /\ chan[c].output \in Seq(Chunk)
               /\ idOf[c] \in Ids /\ chan[c] \in Chan
    <2>1. chan[c] \in Chan
      BY Zenon DEF TypeOK, ClientTypeOK
    <2> QED BY <2>1, Zenon DEF TypeOK, ClientTypeOK, Chan
  <1> QED BY <1>3, <1>a, <1>4, <1>5, <1>6, DispatchFields, Zenon

\* Steps that hand no chunk on and print none, or print into a closed port.
LEMMA OrderedKept ==
  ASSUME TypeOK, TypeOK', Ordered, Fewer(toHost', toHost),
         \A i \in Ids : printed[i] <= printed'[i],
         dispatching' # <<>> => /\ dispatching # <<>>
                                /\ dispatching'[1].msg = dispatching[1].msg,
         \A c \in Calls :
           /\ chan'[c].output = chan[c].output /\ got'[c] = got[c]
           /\ idOf'[c] = idOf[c] \/ (got[c] = <<>> /\ chan[c].output = <<>>)
  PROVE  Ordered'
  <1>0. /\ toHost \in Seq(GuestFrame) /\ printed \in [Ids -> Nat]
        /\ \A m \in GuestFrame : m.id \in Ids /\ (m.t = "exec_output" => m.n \in Nat)
        /\ dispatching # <<>> => dispatching[1].msg \in GuestFrame
    BY OrderTypes, Zenon
  <1>1. printed' \in [Ids -> Nat]
    <2>1. \A n \in 0 .. MaxOut : n \in Nat
      OBVIOUS
    <2> QED BY <2>1, Zenon DEF TypeOK, SandboxdTypeOK
  <1>2. /\ WireOrdered(toHost, printed) => WireOrdered(toHost', printed')
        /\ \A i, n : BeforeWire(toHost, i, n) => BeforeWire(toHost', i, n)
        /\ \A i \in Ids : \A n \in Nat : n <= printed[i] => n <= printed'[i]
    BY <1>0, <1>1, FewerOrdered, Zenon
  <1>3. WireOrdered(toHost', printed')
    BY <1>2, Zenon DEF Ordered
  <1>4. DispatchOrdered(toHost', dispatching', printed')
    BY <1>0, <1>2, Zenon DEF Ordered, DispatchOrdered
  <1>5. ASSUME NEW c \in Calls
        PROVE  CallOrdered(toHost', dispatching', printed', idOf'[c], got'[c], chan'[c].output)
    <2>1. CASE idOf'[c] = idOf[c]
      <3>1. /\ got[c] \in Seq(Chunk) /\ chan[c].output \in Seq(Chunk) /\ idOf[c] \in Ids
            /\ CallOrdered(toHost, dispatching, printed, idOf[c], got[c], chan[c].output)
        BY OrderTypes, Zenon DEF Ordered
      <3>2. ASSUME NEW n \in Nat, Ahead(toHost, dispatching, printed, idOf[c], n)
            PROVE  Ahead(toHost', dispatching', printed', idOf[c], n)
        BY <1>2, <3>1, <3>2, Zenon DEF Ahead, BeforeDispatch
      <3> QED BY <2>1, <3>1, <3>2, CallKept, Zenon
    <2>2. CASE got[c] = <<>> /\ chan[c].output = <<>>
      BY <2>2, CallNone, Zenon
    <2> QED BY <2>1, <2>2, Zenon
  <1> QED BY <1>3, <1>4, <1>5, Zenon DEF Ordered

\* The process prints a chunk.
LEMMA RelayOrdered ==
  ASSUME TypeOK, TypeOK', Ordered, RelayOutput, UNCHANGED clientVars PROVE Ordered'
  <1>0. /\ toHost \in Seq(GuestFrame) /\ printed \in [Ids -> Nat]
        /\ \A k \in 1 .. Len(toHost) : toHost[k] \in GuestFrame
        /\ \A m \in GuestFrame : m.id \in Ids /\ (m.t = "exec_output" => m.n \in Nat)
        /\ dispatching # <<>> => dispatching[1].msg \in GuestFrame
    BY OrderTypes, Zenon
  <1>1. PICK j \in Ids : /\ printed' = [printed EXCEPT ![j] = printed[j] + 1]
                         /\ GuestWrite(ExecOutput(j, printed[j] + 1))
                         /\ printed[j] < MaxOut
    <2>1. PICK cur \in Job : job = <<cur>>
      BY Zenon DEF RelayOutput, Running, TypeOK, SandboxdTypeOK
    <2>2. Current.id \in Ids
      BY <2>1, Zenon DEF Current, Job
    <2> QED BY <2>2, Zenon DEF RelayOutput
  <1>2. /\ printed'[j] = printed[j] + 1 /\ \A i \in Ids : i # j => printed'[i] = printed[i]
    BY <1>0, <1>1, Zenon
  <1>3. \A i \in Ids : printed[i] <= printed'[i] /\ printed[i] \in Nat
    <2>1. \A i \in Ids : printed[i] \in Nat
      BY <1>0, Zenon
    <2> QED BY <1>2, <2>1
  <1>4. \A i \in Ids : \A n \in Nat : n <= printed[i] => n <= printed'[i]
    <2>1. \A i \in Ids : printed'[i] \in Nat
      <3>1. \A n \in 0 .. MaxOut : n \in Nat
        OBVIOUS
      <3> QED BY <3>1, Zenon DEF TypeOK, SandboxdTypeOK
    <2> QED BY <1>3, <2>1, Less, Zenon
  <1>5. UNCHANGED <<dispatching, chan, got, idOf>>
    BY Zenon DEF clientVars
  <1>6. CASE UNCHANGED toHost
    <2>1. Fewer(toHost', toHost)
      BY <1>0, <1>6, PartSame, FewerPart, Zenon
    <2> QED BY <1>3, <1>5, <2>1, OrderedKept, Zenon
  <1>7. CASE toHost' = Append(toHost, ExecOutput(j, printed[j] + 1))
    <2> DEFINE f == ExecOutput(j, printed[j] + 1)
    <2>1. /\ f \in GuestFrame /\ f.t = "exec_output" /\ f.id = j /\ f.n = printed[j] + 1
      <3>1. printed[j] + 1 \in 1 .. MaxOut
        BY <1>0, <1>1, PortAssumption
      <3> QED BY <3>1, GuestFrames, Zenon DEF ExecOutput
    <2>2. /\ toHost' = Append(toHost, f)
          /\ \A k \in 1 .. Len(toHost') : \/ k \in 1 .. Len(toHost) /\ toHost'[k] = toHost[k]
                                          \/ k = Len(toHost) + 1 /\ toHost'[k] = f
      BY <1>0, <1>7, <2>1, AppendAt, ZenonT(30)
    <2> HIDE DEF f
    <2>3. \A k, l \in 1 .. Len(toHost') : k < l => k \in 1 .. Len(toHost) /\ k # Len(toHost) + 1
      BY <1>0, <2>1, <2>2
    <2>4. \A n \in Nat : n <= printed[j] => n < f.n
      BY <1>3, <2>1, Less, ZenonT(30)
    <2>5. \A i \in Ids : \A n \in Nat :
            n <= printed[i] /\ BeforeWire(toHost, i, n) => BeforeWire(toHost', i, n)
      BY <2>1, <2>2, <2>4, Zenon DEF BeforeWire, Output
    <2>6. WireOrdered(toHost', printed')
      <3>1. ASSUME NEW k \in 1 .. Len(toHost'), toHost'[k].t = "exec_output"
            PROVE  toHost'[k].n <= printed'[toHost'[k].id]
        <4>1. CASE toHost'[k] = f
          <5>1. printed[j] + 1 \in Nat
            BY <1>3
          <5> QED BY <1>2, <2>1, <4>1, <5>1, Less, Zenon
        <4>2. CASE k \in 1 .. Len(toHost) /\ toHost'[k] = toHost[k]
          BY <1>0, <1>4, <3>1, <4>2, Zenon DEF Ordered, WireOrdered
        <4> QED BY <2>2, <4>1, <4>2, Zenon
      <3>2. ASSUME NEW k \in 1 .. Len(toHost'), NEW l \in 1 .. Len(toHost'), k < l,
                   toHost'[k].t = "exec_output", Output(toHost'[l], toHost'[k].id)
            PROVE  toHost'[k].n < toHost'[l].n
        <4>1. k \in 1 .. Len(toHost) /\ toHost'[k] = toHost[k]
          BY <2>2, <2>3, <3>2, Zenon
        <4>2. CASE toHost'[l] = f
          <5>1. toHost[k].n \in Nat /\ toHost[k].n <= printed[j]
            BY <1>0, <2>1, <3>2, <4>1, <4>2, Zenon DEF Ordered, WireOrdered, Output
          <5> QED BY <2>4, <4>1, <4>2, <5>1, Zenon
        <4>3. CASE l \in 1 .. Len(toHost) /\ toHost'[l] = toHost[l]
          BY <3>2, <4>1, <4>3, Zenon DEF Ordered, WireOrdered
        <4> QED BY <2>2, <4>2, <4>3, Zenon
      <3> QED BY <3>1, <3>2, Zenon DEF WireOrdered
    <2>7. DispatchOrdered(toHost', dispatching, printed')
      BY <1>0, <1>4, <2>5, Zenon DEF Ordered, DispatchOrdered
    <2>8. ASSUME NEW c \in Calls
          PROVE  CallOrdered(toHost', dispatching, printed', idOf[c], got[c], chan[c].output)
      <3>1. /\ got[c] \in Seq(Chunk) /\ chan[c].output \in Seq(Chunk) /\ idOf[c] \in Ids
            /\ CallOrdered(toHost, dispatching, printed, idOf[c], got[c], chan[c].output)
        BY OrderTypes, Zenon DEF Ordered
      <3>2. ASSUME NEW n \in Nat, Ahead(toHost, dispatching, printed, idOf[c], n)
            PROVE  Ahead(toHost', dispatching, printed', idOf[c], n)
        BY <1>4, <2>5, <3>1, <3>2, Zenon DEF Ahead
      <3> QED BY <3>1, <3>2, CallKept, Zenon
    <2> QED BY <1>5, <2>6, <2>7, <2>8, Zenon DEF Ordered
  <1> QED BY <1>1, <1>6, <1>7, Zenon DEF GuestWrite

\* Dispatch takes a frame, hands a chunk to a channel, and a call takes it.
LEMMA LookupOrdered ==
  ASSUME TypeOK, TypeOK', Ordered, Lookup, UNCHANGED guestVars PROVE Ordered'
  <1>0. /\ toHost \in Seq(GuestFrame) /\ printed \in [Ids -> Nat]
        /\ \A k \in 1 .. Len(toHost) : toHost[k] \in GuestFrame
        /\ \A m \in GuestFrame : m.id \in Ids /\ (m.t = "exec_output" => m.n \in Nat)
    BY OrderTypes, Zenon
  <1>1. /\ toHost # <<>> /\ toHost' = Tail(toHost)
        /\ UNCHANGED <<chan, idOf, got, printed>>
        /\ dispatching' # <<>> => dispatching'[1].msg = Head(toHost)
    BY Zenon DEF Lookup, guestVars
  <1>2. /\ Part(toHost', toHost) /\ Head(toHost) = toHost[1] /\ 1 \in 1 .. Len(toHost)
        /\ \A k \in 1 .. Len(toHost') : /\ k + 1 \in 1 .. Len(toHost) /\ 1 < k + 1
                                        /\ toHost'[k] = toHost[k + 1]
    <2>1. \A k \in 1 .. Len(Tail(toHost)) : /\ k + 1 \in 1 .. Len(toHost) /\ 1 < k + 1
                                            /\ Tail(toHost)[k] = toHost[k + 1]
      BY <1>0, <1>1
    <2> QED BY <1>0, <1>1, <2>1, PartTail, Zenon
  <1>3. Fewer(toHost', toHost) /\ \A i \in Ids : printed[i] <= printed[i]
    BY <1>2, FewerPart, OrderTypes, Zenon
  <1>4. /\ WireOrdered(toHost, printed) => WireOrdered(toHost', printed)
        /\ \A i, n : BeforeWire(toHost, i, n) => BeforeWire(toHost', i, n)
    BY <1>0, <1>3, FewerOrdered
  <1>5. DispatchOrdered(toHost', dispatching', printed')
    <2>1. ASSUME toHost[1].t = "exec_output"
          PROVE  /\ toHost[1].n <= printed[toHost[1].id]
                 /\ BeforeWire(toHost', toHost[1].id, toHost[1].n)
      BY <1>2, <2>1, Zenon DEF Ordered, WireOrdered, BeforeWire
    <2> QED BY <1>1, <1>2, <2>1, Zenon DEF DispatchOrdered
  <1>6. ASSUME NEW c \in Calls
        PROVE  CallOrdered(toHost', dispatching', printed', idOf[c], got[c], chan[c].output)
    <2>1. /\ got[c] \in Seq(Chunk) /\ chan[c].output \in Seq(Chunk)
          /\ CallOrdered(toHost, dispatching, printed, idOf[c], got[c], chan[c].output)
      BY OrderTypes, Zenon DEF Ordered
    <2>2. ASSUME NEW n \in Nat, Ahead(toHost, dispatching, printed, idOf[c], n)
          PROVE  Ahead(toHost', dispatching', printed', idOf[c], n)
      <3>1. BeforeDispatch(dispatching', idOf[c], n)
        BY <1>1, <1>2, <2>2, Zenon DEF Ahead, BeforeWire, BeforeDispatch
      <3> QED BY <1>1, <1>4, <2>2, <3>1, Zenon DEF Ahead
    <2> QED BY <2>1, <2>2, CallKept, Zenon
  <1> QED BY <1>1, <1>4, <1>5, <1>6, Zenon DEF Ordered

LEMMA DeliverOrdered ==
  ASSUME TypeOK, TypeOK', Routed, Ordered, DeliverOutput, UNCHANGED guestVars PROVE Ordered'
  <1>0. dispatching # <<>> /\ dispatching[1].msg.t = "exec_output"
    BY Zenon DEF DeliverOutput
  <1> DEFINE m == dispatching[1].msg
             c == dispatching[1].call
             h == [of |-> m.id, n |-> m.n]
  <1>1. /\ c \in Calls /\ m \in GuestFrame /\ idOf[c] = m.id /\ m.t = "exec_output"
        /\ toHost \in Seq(GuestFrame) /\ printed \in [Ids -> Nat] /\ chan \in [Calls -> Chan]
        /\ got[c] \in Seq(Chunk) /\ chan[c].output \in Seq(Chunk)
    BY <1>0, OrderTypes, Zenon DEF Routed, TypeOK, ClientTypeOK
  <1>2. h \in Chunk /\ h.of = m.id /\ h.n = m.n
    <2>1. m.id \in Ids /\ m.n \in 1 .. MaxOut
      BY <1>1, FrameFields, Zenon
    <2> QED BY <2>1, Zenon DEF Chunk
  <1>3. /\ UNCHANGED <<toHost, idOf, got, printed>> /\ dispatching' = <<>>
        /\ chan' = chan \/ chan' = [chan EXCEPT ![c].output = Append(chan[c].output, h)]
    BY Zenon DEF DeliverOutput, portVars, guestVars
  <1> HIDE DEF m, c, h
  <1>4. m.n <= printed[m.id] /\ BeforeWire(toHost, m.id, m.n)
    BY <1>0, Zenon DEF Ordered, DispatchOrdered, m
  <1>5. CASE chan' = chan
    <2>1. Fewer(toHost', toHost) /\ \A i \in Ids : printed[i] <= printed[i]
      BY <1>1, <1>3, PartSame, FewerPart, OrderTypes, Zenon
    <2> QED BY <1>3, <1>5, <2>1, OrderedKept, Zenon
  <1>6. CASE chan' = [chan EXCEPT ![c].output = Append(chan[c].output, h)]
    <2>1. /\ chan'[c].output = Append(chan[c].output, h)
          /\ \A d \in Calls : d # c => chan'[d] = chan[d]
      BY <1>1, <1>6, ChanSet, Zenon
    <2>2. \A i, n : Ahead(toHost, dispatching, printed, i, n)
                      => Ahead(toHost, <<>>, printed, i, n)
      BY Zenon DEF Ahead, BeforeDispatch
    <2>3. CallOrdered(toHost, <<>>, printed, idOf[c], got[c], Append(chan[c].output, h))
      <3>1. Ahead(toHost, <<>>, printed, idOf[c], h.n)
        BY <1>1, <1>2, <1>4, Zenon DEF Ahead, BeforeDispatch
      <3>2. \A n \in Nat : Ahead(toHost, dispatching, printed, idOf[c], n) => n < h.n
        BY <1>0, <1>1, <1>2, Zenon DEF Ahead, BeforeDispatch, Output, m
      <3>3. CallOrdered(toHost, dispatching, printed, idOf[c], got[c], chan[c].output)
        BY <1>1, Zenon DEF Ordered
      <3> QED BY <1>1, <1>2, <2>2, <3>1, <3>2, <3>3, CallGets, Zenon
    <2>4. ASSUME NEW d \in Calls, d # c
          PROVE  CallOrdered(toHost, <<>>, printed, idOf[d], got[d], chan[d].output)
      <3>1. /\ got[d] \in Seq(Chunk) /\ chan[d].output \in Seq(Chunk)
            /\ CallOrdered(toHost, dispatching, printed, idOf[d], got[d], chan[d].output)
        BY OrderTypes, Zenon DEF Ordered
      <3> QED BY <2>2, <3>1, CallKept, Zenon
    <2>5. ASSUME NEW d \in Calls
          PROVE  CallOrdered(toHost', dispatching', printed', idOf'[d], got'[d], chan'[d].output)
      BY <1>3, <2>1, <2>3, <2>4, Zenon
    <2>6. DispatchOrdered(toHost', dispatching', printed')
      BY <1>3, Zenon DEF DispatchOrdered
    <2> QED BY <1>3, <2>5, <2>6, Zenon DEF Ordered
  <1> QED BY <1>3, <1>5, <1>6, Zenon

LEMMA TakeOrdered ==
  ASSUME TypeOK, Ordered, NEW c \in Calls, TakeOutput(c), UNCHANGED guestVars PROVE Ordered'
  <1>1. /\ UNCHANGED <<toHost, idOf, dispatching, printed>> /\ chan[c].output # <<>>
        /\ got' = [got EXCEPT ![c] = Append(got[c], Head(chan[c].output))]
        /\ chan' = [chan EXCEPT ![c].output = Tail(chan[c].output)]
    BY Zenon DEF TakeOutput, portVars, guestVars
  <1>2. chan \in [Calls -> Chan] /\ got \in [Calls -> Seq(Chunk)]
    BY Zenon DEF TypeOK, ClientTypeOK
  <1>3. /\ chan'[c].output = Tail(chan[c].output)
        /\ got'[c] = Append(got[c], Head(chan[c].output))
        /\ \A d \in Calls : d # c => chan'[d] = chan[d] /\ got'[d] = got[d]
    BY <1>1, <1>2, ChanSet, Zenon
  <1>4. CallOrdered(toHost, dispatching, printed, idOf[c], got'[c], chan'[c].output)
    <2>1. /\ got[c] \in Seq(Chunk) /\ chan[c].output \in Seq(Chunk)
          /\ CallOrdered(toHost, dispatching, printed, idOf[c], got[c], chan[c].output)
      BY OrderTypes, Zenon DEF Ordered
    <2>2. CallOrdered(toHost, dispatching, printed, idOf[c],
                      Append(got[c], Head(chan[c].output)), Tail(chan[c].output))
      BY <1>1, <2>1, CallTakes, Zenon
    <2> QED BY <1>3, <2>2, Zenon
  <1>5. ASSUME NEW d \in Calls
        PROVE  CallOrdered(toHost, dispatching, printed, idOf[d], got'[d], chan'[d].output)
    BY <1>3, <1>4, Zenon DEF Ordered
  <1> QED BY <1>1, <1>5, Zenon DEF Ordered

LEMMA OrderedStep ==
  ASSUME Ownership, Identified, Routed, Ordered, [Next]_vars, TypeOK' PROVE Ordered'
  <1>0. /\ TypeOK /\ toHost \in Seq(GuestFrame) /\ chan \in [Calls -> Chan]
        /\ \A c \in Calls : chan[c] \in Chan
        /\ \A i \in Ids : printed[i] <= printed[i]
    BY OrderTypes, Zenon DEF Ownership, TypeOK, ClientTypeOK
  <1>1. CASE Guest /\ UNCHANGED clientVars /\ ~RelayOutput
    <2>1. UNCHANGED <<printed, dispatching, chan, got, idOf>>
      BY <1>1, Zenon DEF Guest, StartExec, StartExecFails, RejectFrame, OutputEnds, ProcessExits,
                         HandleStdin, StdinHangsUp, SendResponse, ExecAborts, clientVars
    <2>2. \/ UNCHANGED toHost
          \/ \E i \in Ids : \E k \in Codes :
               \E f \in {ErrorFrame(i), ExecResponse(i, k)} : toHost' = Append(toHost, f)
      <3>0. /\ 0 \in Ids /\ Codes # {} /\ exitOf \in [Ids -> Codes]
            /\ toGuest \in Seq(HostFrame)
        BY <1>0, PortAssumption DEF Ids, TypeOK, SandboxdTypeOK, PortTypeOK
      <3>1. ASSUME job # <<>> PROVE Current.id \in Ids
        <4>1. PICK j \in Job : job = <<j>>
          BY <1>0, <3>1, Zenon DEF TypeOK, SandboxdTypeOK
        <4>2. Current = j
          BY <4>1, Zenon DEF Current
        <4> QED BY <4>2, Zenon DEF Job
      <3>2. toGuest # <<>> => Head(toGuest).id \in Ids
        BY <3>0, HeadTail, FrameFields, Zenon
      <3>3. CASE StartExecFails \/ RejectFrame \/ ExecAborts
        BY <3>0, <3>1, <3>2, <3>3, Zenon DEF StartExecFails, RejectFrame, ExecAborts, GuestWrite,
                                             Running
      <3>4. CASE SendResponse
        BY <3>0, <3>1, <3>4, Zenon DEF SendResponse, GuestWrite, Running
      <3>5. CASE StartExec \/ OutputEnds \/ ProcessExits \/ HandleStdin \/ StdinHangsUp
        BY <3>5, Zenon DEF StartExec, OutputEnds, ProcessExits, HandleStdin, StdinHangsUp,
                           portVars
      <3> QED BY <1>1, <3>3, <3>4, <3>5, Zenon DEF Guest
    <2>3. Fewer(toHost', toHost)
      <3>1. CASE UNCHANGED toHost
        BY <1>0, <3>1, PartSame, FewerPart, Zenon
      <3>2. ASSUME NEW i \in Ids, NEW k \in Codes, NEW f \in {ErrorFrame(i), ExecResponse(i, k)},
                   toHost' = Append(toHost, f)
            PROVE  Fewer(toHost', toHost)
        <4>1. f \in GuestFrame
          BY GuestFrames, Zenon
        <4>2. ErrorFrame(i).t # "exec_output" /\ ExecResponse(i, k).t # "exec_output"
          BY Zenon DEF ErrorFrame, ExecResponse
        <4> QED BY <1>0, <3>2, <4>1, <4>2, FewerAnswer, Zenon
      <3> QED BY <2>2, <3>1, <3>2, Zenon
    <2> QED BY <1>0, <2>1, <2>3, OrderedKept, Zenon
  <1>2. CASE Guest /\ UNCHANGED clientVars /\ RelayOutput
    BY <1>0, <1>2, RelayOrdered, Zenon
  <1>3. SUFFICES ASSUME ~(Guest /\ UNCHANGED clientVars) PROVE Ordered'
    BY <1>1, <1>2, Zenon
  <1>4. Fewer(toHost', toHost)
    BY <1>0, <1>3, WirePart, FewerPart, Zenon
  <1> DEFINE Quiet == /\ dispatching' # <<>> => /\ dispatching # <<>>
                                                /\ dispatching'[1].msg = dispatching[1].msg
                      /\ \A c \in Calls :
                           /\ chan'[c].output = chan[c].output /\ got'[c] = got[c]
                           /\ \/ idOf'[c] = idOf[c]
                              \/ got[c] = <<>> /\ chan[c].output = <<>>
  <1>5. ASSUME Quiet, UNCHANGED printed PROVE Ordered'
    BY <1>0, <1>4, <1>5, OrderedKept, Zenon
  <1>6. ASSUME NEW c \in Calls, Call(c), UNCHANGED guestVars PROVE Ordered'
    <2>0. UNCHANGED printed
      BY <1>6, Zenon DEF guestVars
    <2>1. CASE Register(c)
      <3>1. /\ UNCHANGED <<dispatching, chan, got>> /\ pc[c] = "idle"
            /\ \A d \in Calls : d # c => idOf'[d] = idOf[d]
        BY <1>0, <2>1, Zenon DEF Register, TypeOK, ClientTypeOK
      <3>2. Quiet
        BY <3>1, Zenon DEF Routed
      <3> QED BY <1>5, <2>0, <3>2, Zenon
    <2>2. CASE SendRequest(c) \/ SendRequestFails(c) \/ CancelStream(c)
                 \/ SendInput(c) \/ SendEof(c) \/ InputEnds(c)
      <3>1. UNCHANGED <<dispatching, chan, got, idOf>>
        BY <2>2, Zenon DEF SendRequest, SendRequestFails, CancelStream, SendInput, SendEof,
                           InputEnds
      <3> QED BY <1>5, <2>0, <3>1, Zenon
    <2>3. CASE TakeExit(c) \/ TakeError(c)
      <3>1. /\ UNCHANGED <<dispatching, got, idOf>>
            /\ \E v : \/ chan' = [chan EXCEPT ![c].exit = v]
                      \/ chan' = [chan EXCEPT ![c].err = v]
        BY <2>3, Zenon DEF TakeExit, TakeError
      <3>2. \A d \in Calls : chan'[d].output = chan[d].output
        BY <1>0, <3>1, ChanSet, Zenon
      <3> QED BY <1>5, <2>0, <3>1, <3>2, Zenon
    <2>4. CASE TakeOutput(c)
      BY <1>0, <1>6, <2>4, TakeOrdered, Zenon
    <2> QED BY <1>6, <2>1, <2>2, <2>3, <2>4, Zenon DEF Call
  <1>7. ASSUME ReadLoop \/ Stop, UNCHANGED guestVars PROVE Ordered'
    <2>0. UNCHANGED printed
      BY <1>7, Zenon DEF guestVars
    <2>1. CASE DeliverResult \/ CloseChannels
      <3>1. PICK d \in Dispatch : dispatching = <<d>>
        BY <1>0, <2>1, Zenon DEF DeliverResult, CloseChannels, TypeOK, ClientTypeOK
      <3>2. /\ UNCHANGED <<got, idOf>> /\ d.call \in Calls
            /\ dispatching' # <<>> => dispatching' = <<[d EXCEPT !.sent = TRUE]>>
            /\ \E v : \/ chan' = [chan EXCEPT ![d.call].exit = v]
                      \/ chan' = [chan EXCEPT ![d.call].err = v]
                      \/ chan' = [chan EXCEPT ![d.call].closed = v]
        BY <2>1, <3>1, Zenon DEF DeliverResult, CloseChannels, Dispatch
      <3>3. \A c \in Calls : chan'[c].output = chan[c].output
        BY <1>0, <3>2, ChanSet, ZenonT(30)
      <3>4. dispatching' # <<>> => dispatching # <<>> /\ dispatching'[1].msg = dispatching[1].msg
        <4>1. [d EXCEPT !.sent = TRUE].msg = d.msg /\ dispatching # <<>> /\ dispatching[1] = d
          BY <3>1, Zenon DEF Dispatch
        <4>2. ASSUME NEW e, dispatching' = <<e>> PROVE dispatching'[1] = e
          BY <4>2, Zenon
        <4> QED BY <3>2, <4>1, <4>2, Zenon
      <3> QED BY <1>5, <2>0, <3>2, <3>3, <3>4, Zenon
    <2>2. CASE BroadcastError \/ CloseRequests
      <3>1. /\ UNCHANGED <<idOf, got, dispatching>>
            /\ \A c \in Calls : chan'[c] \in {chan[c], [chan[c] EXCEPT !.err = 1],
                                              [chan[c] EXCEPT !.closed = TRUE]}
        BY <2>2, Zenon DEF BroadcastError, CloseRequests
      <3>2. ASSUME NEW c \in Calls PROVE chan'[c].output = chan[c].output
        <4>1. chan[c] \in Chan
          BY <1>0, Zenon
        <4> QED BY <3>1, <4>1, Zenon DEF Chan
      <3> QED BY <1>5, <2>0, <3>1, <3>2, Zenon
    <2>3. CASE CloseConn
      <3>1. UNCHANGED <<dispatching, chan, got, idOf>>
        BY <2>3, Zenon DEF CloseConn
      <3> QED BY <1>5, <2>0, <3>1, Zenon
    <2>4. CASE Lookup \/ DeliverOutput
      BY <1>0, <1>7, <2>4, LookupOrdered, DeliverOrdered, Zenon
    <2> QED BY <1>7, <2>1, <2>2, <2>3, <2>4, Zenon DEF ReadLoop, Stop
  <1>8. CASE UNCHANGED <<clientVars, guestVars>>
    <2>1. UNCHANGED <<dispatching, chan, got, idOf, printed>>
      BY <1>8, Zenon DEF clientVars, guestVars
    <2> QED BY <1>5, <2>1, Zenon
  <1> QED BY <1>3, <1>6, <1>7, <1>8, Zenon DEF Next, vars

-----------------------------------------------------------------------------
(* All of it together is inductive as long as startExec gives each id once. *)
OneCallPerId == Ownership /\ Identified /\ Answered /\ Routed /\ Ordered

LEMMA OneCallInit ==
  ASSUME Init PROVE OneCallPerId
  <1>0. \A k \in 1 .. Len(<<>>) : FALSE
    OBVIOUS
  <1>1. /\ toGuest = <<>> /\ toHost = <<>> /\ job = <<>> /\ dispatching = <<>>
        /\ \A c \in Calls : /\ pc[c] = "idle" /\ got[c] = <<>> /\ ~inputOpen[c]
                            /\ chan[c].output = <<>> /\ chan[c].exit = <<>>
    BY Zenon DEF Init, PortInit, ClientInit, SandboxdInit, NewChan
  <1>2. Identified
    BY <1>0, <1>1, Zenon DEF Identified
  <1>3. Answered
    BY <1>0, <1>1, Zenon DEF Answered, AnswerIsLast
  <1>4. Routed
    BY <1>0, <1>1, Zenon DEF Routed
  <1>5. Ordered
    BY <1>0, <1>1, Zenon DEF Ordered, WireOrdered, DispatchOrdered, CallOrdered
  <1> QED BY <1>2, <1>3, <1>4, <1>5, InitOwnership, Zenon DEF OneCallPerId

LEMMA OneCallStep ==
  ASSUME OneCallPerId, UnusedIds, [Next]_vars PROVE OneCallPerId'
  <1>1. Ownership' /\ TypeOK /\ TypeOK'
    BY NextOwnership, Zenon DEF OneCallPerId, Ownership
  <1>2. Identified' /\ Answered'
    BY <1>1, IdentifiedStep, AnsweredStep, Zenon DEF OneCallPerId
  <1>3. Routed' /\ Ordered'
    BY <1>1, RoutedStep, OrderedStep, Zenon DEF OneCallPerId
  <1> QED BY <1>1, <1>2, <1>3, Zenon DEF OneCallPerId

\* Only startExec gives ids.
LEMMA IdsKept ==
  ASSUME TypeOK, [Next]_vars, ~ \E c \in Calls : Register(c)
  PROVE  /\ UNCHANGED <<nextID, idOf>>
         /\ \A c \in Calls : pc'[c] = "idle" <=> pc[c] = "idle"
  <1>0. pc \in [Calls -> {"idle", "send", "collect"} \cup Returned]
    BY Zenon DEF TypeOK, ClientTypeOK
  <1>1. ASSUME NEW c \in Calls, Call(c)
        PROVE  /\ UNCHANGED <<nextID, idOf>>
               /\ \A d \in Calls : pc'[d] = "idle" <=> pc[d] = "idle"
    <2>1. CASE SendRequest(c) \/ SendRequestFails(c)
      BY <1>0, <2>1, Zenon DEF SendRequest, SendRequestFails
    <2>2. CASE TakeOutput(c) \/ SendInput(c) \/ SendEof(c) \/ InputEnds(c)
      BY <2>2, Zenon DEF TakeOutput, SendInput, SendEof, InputEnds
    <2>3. CASE TakeExit(c) \/ TakeError(c) \/ CancelStream(c)
      BY <1>0, <2>3, Zenon DEF TakeExit, TakeError, CancelStream
    <2> QED BY <1>1, <2>1, <2>2, <2>3, Zenon DEF Call
  <1>2. CASE ReadLoop \/ Stop
    BY <1>2, Zenon DEF ReadLoop, Stop, Lookup, DeliverOutput, DeliverResult, CloseChannels,
                       BroadcastError, CloseRequests, CloseConn
  <1>3. CASE UNCHANGED clientVars
    BY <1>3, Zenon DEF clientVars
  <1> QED BY <1>1, <1>2, <1>3, Zenon DEF Next, vars

-----------------------------------------------------------------------------
(* The refinement.  What the mapping of VmExec shows of a call: besides    *)
(* its Phase, the chunks printed for it, those it has, its process's exit  *)
(* code and its own.                                                       *)
Shown(c) == IF pc[c] = "idle" THEN 0 ELSE printed[idOf[c]]
Has(c) == [k \in DOMAIN got[c] |-> Own(c, got[c][k])]
Exit(c) == exitOf[idOf[c]]
Result(c) == IF pc[c] = "exited" THEN code[c] ELSE NoCall

Same(c) ==
  /\ Phase(c)' = Phase(c) /\ Shown(c)' = Shown(c) /\ Has(c)' = Has(c)
  /\ Exit(c)' = Exit(c) /\ Result(c)' = Result(c)

LEMMA MapsToStutter ==
  ASSUME \A c \in Calls : Same(c) PROVE UNCHANGED Backend!vars
  <1>1. /\ [c \in Calls |-> Phase(c)'] = [c \in Calls |-> Phase(c)]
        /\ [c \in Calls |-> [o \in {"output"} |-> Shown(c)']]
             = [c \in Calls |-> [o \in {"output"} |-> Shown(c)]]
        /\ [c \in Calls |-> [o \in {"output"} |-> Has(c)']]
             = [c \in Calls |-> [o \in {"output"} |-> Has(c)]]
        /\ [c \in Calls |-> Exit(c)'] = [c \in Calls |-> Exit(c)]
        /\ [c \in Calls |-> Result(c)'] = [c \in Calls |-> Result(c)]
    BY Zenon DEF Same
  <1> QED BY <1>1, Zenon DEF Backend!vars, Shown, Has, Exit, Result

LEMMA MapsToBegin ==
  ASSUME NEW c \in Calls, \A d \in Calls : d # c => Same(d),
         Phase(c) = "idle", Phase(c)' = "running", Shown(c)' = Shown(c),
         Has(c)' = Has(c), Exit(c)' = Exit(c), Result(c)' = Result(c)
  PROVE  Backend!Next
  <1>1. /\ [d \in Calls |-> Phase(d)']
             = [[d \in Calls |-> Phase(d)] EXCEPT ![c] = "running"]
        /\ [d \in Calls |-> [o \in {"output"} |-> Shown(d)']]
             = [d \in Calls |-> [o \in {"output"} |-> Shown(d)]]
        /\ [d \in Calls |-> [o \in {"output"} |-> Has(d)']]
             = [d \in Calls |-> [o \in {"output"} |-> Has(d)]]
        /\ [d \in Calls |-> Exit(d)'] = [d \in Calls |-> Exit(d)]
        /\ [d \in Calls |-> Result(d)'] = [d \in Calls |-> Result(d)]
    BY Zenon DEF Same
  <1>2. Backend!Begin(c)
    BY <1>1, Zenon DEF Backend!Begin, Shown, Has, Exit, Result
  <1> QED BY <1>2, Zenon DEF Backend!Next

LEMMA MapsToFail ==
  ASSUME NEW c \in Calls, \A d \in Calls : d # c => Same(d),
         Phase(c) = "running", Phase(c)' = "failed", Shown(c)' = Shown(c),
         Has(c)' = Has(c), Exit(c)' = Exit(c), Result(c)' = Result(c)
  PROVE  Backend!Next
  <1>1. /\ [d \in Calls |-> Phase(d)']
             = [[d \in Calls |-> Phase(d)] EXCEPT ![c] = "failed"]
        /\ [d \in Calls |-> [o \in {"output"} |-> Shown(d)']]
             = [d \in Calls |-> [o \in {"output"} |-> Shown(d)]]
        /\ [d \in Calls |-> [o \in {"output"} |-> Has(d)']]
             = [d \in Calls |-> [o \in {"output"} |-> Has(d)]]
        /\ [d \in Calls |-> Exit(d)'] = [d \in Calls |-> Exit(d)]
        /\ [d \in Calls |-> Result(d)'] = [d \in Calls |-> Result(d)]
    BY Zenon DEF Same
  <1>2. Backend!Fail(c)
    BY <1>1, Zenon DEF Backend!Fail, Shown, Has, Exit, Result
  <1> QED BY <1>2, Zenon DEF Backend!Next

LEMMA MapsToReturn ==
  ASSUME NEW c \in Calls, \A d \in Calls : d # c => Same(d),
         Phase(c) = "running", Phase(c)' = "exited", Shown(c)' = Shown(c),
         Has(c)' = Has(c), Exit(c)' = Exit(c), Result(c)' = Exit(c)
  PROVE  Backend!Next
  <1>1. /\ [d \in Calls |-> Phase(d)']
             = [[d \in Calls |-> Phase(d)] EXCEPT ![c] = "exited"]
        /\ [d \in Calls |-> [o \in {"output"} |-> Shown(d)']]
             = [d \in Calls |-> [o \in {"output"} |-> Shown(d)]]
        /\ [d \in Calls |-> [o \in {"output"} |-> Has(d)']]
             = [d \in Calls |-> [o \in {"output"} |-> Has(d)]]
        /\ [d \in Calls |-> Exit(d)'] = [d \in Calls |-> Exit(d)]
        /\ [d \in Calls |-> Result(d)']
             = [[d \in Calls |-> Result(d)] EXCEPT ![c] = Exit(c)]
    BY Zenon DEF Same
  <1>2. Backend!Return(c)
    BY <1>1, Zenon DEF Backend!Return, Shown, Has, Exit, Result
  <1> QED BY <1>2, Zenon DEF Backend!Next

LEMMA MapsToEnd ==
  ASSUME NEW c \in Calls, \A d \in Calls : d # c => Same(d),
         Phase(c) # "exited", Phase(c)' = Phase(c), Shown(c)' = Shown(c),
         Has(c)' = Has(c), Exit(c)' \in Int, Result(c)' = Result(c)
  PROVE  Backend!Next
  <1>1. /\ [d \in Calls |-> Phase(d)'] = [d \in Calls |-> Phase(d)]
        /\ [d \in Calls |-> [o \in {"output"} |-> Shown(d)']]
             = [d \in Calls |-> [o \in {"output"} |-> Shown(d)]]
        /\ [d \in Calls |-> [o \in {"output"} |-> Has(d)']]
             = [d \in Calls |-> [o \in {"output"} |-> Has(d)]]
        /\ [d \in Calls |-> Exit(d)'] = [[d \in Calls |-> Exit(d)] EXCEPT ![c] = Exit(c)']
        /\ [d \in Calls |-> Result(d)'] = [d \in Calls |-> Result(d)]
    BY Zenon DEF Same
  <1>2. Backend!End(c)
    BY <1>1, Zenon DEF Backend!End, Shown, Has, Exit, Result
  <1> QED BY <1>2, Zenon DEF Backend!Next

LEMMA MapsToPrint ==
  ASSUME NEW c \in Calls, \A d \in Calls : d # c => Same(d),
         Phase(c) # "idle", Phase(c)' = Phase(c), Shown(c)' = Shown(c) + 1,
         Has(c)' = Has(c), Exit(c)' = Exit(c), Result(c)' = Result(c)
  PROVE  Backend!Next
  <1>1. /\ [d \in Calls |-> Phase(d)'] = [d \in Calls |-> Phase(d)]
        /\ [d \in Calls |-> [o \in {"output"} |-> Shown(d)']]
             = [[d \in Calls |-> [o \in {"output"} |-> Shown(d)]]
                  EXCEPT ![c]["output"] = Shown(c) + 1]
        /\ [d \in Calls |-> [o \in {"output"} |-> Has(d)']]
             = [d \in Calls |-> [o \in {"output"} |-> Has(d)]]
        /\ [d \in Calls |-> Exit(d)'] = [d \in Calls |-> Exit(d)]
        /\ [d \in Calls |-> Result(d)'] = [d \in Calls |-> Result(d)]
    BY Zenon DEF Same
  <1>2. Backend!Prints(c, "output")
    BY <1>1, Zenon DEF Backend!Prints, Shown, Has, Exit, Result
  <1> QED BY <1>2, Zenon DEF Backend!Next

LEMMA MapsToReceive ==
  ASSUME NEW c \in Calls, \A d \in Calls : d # c => Same(d),
         Phase(c) = "running", Phase(c)' = Phase(c), Shown(c)' = Shown(c),
         NEW n \in Backend!Newest(Has(c)) + 1 .. Shown(c), Has(c)' = Append(Has(c), n),
         Exit(c)' = Exit(c), Result(c)' = Result(c)
  PROVE  Backend!Next
  <1>1. /\ [d \in Calls |-> Phase(d)'] = [d \in Calls |-> Phase(d)]
        /\ [d \in Calls |-> [o \in {"output"} |-> Shown(d)']]
             = [d \in Calls |-> [o \in {"output"} |-> Shown(d)]]
        /\ [d \in Calls |-> [o \in {"output"} |-> Has(d)']]
             = [[d \in Calls |-> [o \in {"output"} |-> Has(d)]]
                  EXCEPT ![c]["output"] = Append(Has(c), n)]
        /\ [d \in Calls |-> Exit(d)'] = [d \in Calls |-> Exit(d)]
        /\ [d \in Calls |-> Result(d)'] = [d \in Calls |-> Result(d)]
    BY Zenon DEF Same
  <1>2. Backend!Receive(c, "output")
    BY <1>1, Zenon DEF Backend!Receive, Shown, Has, Exit, Result
  <1> QED BY <1>2, Zenon DEF Backend!Next

(* Nothing has been printed under an id no request was sent with, and a    *)
(* call that has not begun has the id 0, which is the last to be given.    *)
First == CHOOSE k \in Codes : TRUE

Untouched ==
  /\ \A i \in Ids : ~Used(i) => printed[i] = 0 /\ exitOf[i] = First
  /\ \A c \in Calls : pc[c] = "idle" => idOf[c] = 0

\* The id 0 is given to the last call only, after a whole round.
ZeroLast ==
  (\E c \in Calls : pc[c] = "idle") => \A c \in Calls : pc[c] # "idle" => idOf[c] # 0

LEMMA UntouchedInit ==
  ASSUME Init PROVE Untouched
  BY Zenon DEF Init, ClientInit, SandboxdInit, Untouched, First

\* The command that runs is known, and under the id of one call.
LEMMA RunningCall ==
  ASSUME TypeOK, ZeroLast, Identified, job # <<>>
  PROVE  /\ Current.id \in Ids /\ Used(Current.id)
         /\ \E c \in Calls : /\ pc[c] \notin {"idle", "send"} /\ idOf[c] = Current.id
                             /\ \A d \in Calls : d # c /\ pc[d] # "idle" => idOf[d] # Current.id
         /\ (\E d \in Calls : pc[d] = "idle") => Current.id # 0
  <1>1. PICK j \in Job : job = <<j>>
    BY Zenon DEF TypeOK, SandboxdTypeOK
  <1>2. Current.id \in Ids
    <2>1. Current = j
      BY <1>1, Zenon DEF Current
    <2> QED BY <2>1, Zenon DEF Job
  <1>3. Used(Current.id)
    BY Zenon DEF Identified
  <1>4. PICK c \in Calls : pc[c] \notin {"idle", "send"} /\ idOf[c] = Current.id
    BY <1>3, Zenon DEF Used
  <1>5. \A d \in Calls : d # c /\ pc[d] # "idle" => idOf[d] # Current.id
    <2>1. pc[c] # "idle"
      BY <1>4, Zenon
    <2> QED BY <1>4, <2>1, Zenon DEF Identified
  <1>6. ASSUME NEW d \in Calls, pc[d] = "idle" PROVE Current.id # 0
    <2>1. pc[c] # "idle"
      BY <1>4, Zenon
    <2> QED BY <1>4, <1>6, <2>1, Zenon DEF ZeroLast
  <1> QED BY <1>2, <1>3, <1>4, <1>5, <1>6, Zenon

\* What sandboxd prints and how it ends is recorded under the running id.
LEMMA HistoryKept ==
  ASSUME TypeOK, [Next]_vars
  PROVE  \A i \in Ids : job = <<>> \/ Current.id # i =>
           printed'[i] = printed[i] /\ exitOf'[i] = exitOf[i]
  <1>0. printed \in [Ids -> 0 .. MaxOut] /\ exitOf \in [Ids -> Codes]
    BY Zenon DEF TypeOK, SandboxdTypeOK
  <1>1. CASE RelayOutput
    BY <1>0, <1>1, Zenon DEF RelayOutput, Running
  <1>2. CASE ProcessExits
    BY <1>0, <1>2, Zenon DEF ProcessExits, Running
  <1>3. CASE Guest /\ ~RelayOutput /\ ~ProcessExits
    BY <1>3, Zenon DEF Guest, StartExec, StartExecFails, RejectFrame, OutputEnds, HandleStdin,
                       StdinHangsUp, SendResponse, ExecAborts
  <1>4. CASE UNCHANGED guestVars
    BY <1>4, Zenon DEF guestVars
  <1> QED BY <1>1, <1>2, <1>3, <1>4, Zenon DEF Next, vars

LEMMA UntouchedStep ==
  ASSUME TypeOK, ZeroLast, UnusedIds, Identified, Untouched, [Next]_vars
  PROVE  Untouched'
  <1>1. ASSUME NEW i \in Ids, ~UsedNow(i) PROVE printed'[i] = 0 /\ exitOf'[i] = First
    <2>1. ~Used(i)
      BY <1>1, UsedKept, Zenon DEF Used, UsedNow
    <2>2. job = <<>> \/ Current.id # i
      BY <2>1, RunningCall, Zenon
    <2> QED BY <2>1, <2>2, HistoryKept, Zenon DEF Untouched
  <1>2. ASSUME NEW c \in Calls, pc'[c] = "idle" PROVE idOf'[c] = 0
    <2>1. ASSUME NEW d \in Calls, Register(d) PROVE pc[c] = "idle" /\ idOf'[c] = idOf[c]
      BY <1>2, <2>1, Zenon DEF Register, TypeOK, ClientTypeOK
    <2>2. CASE ~ \E d \in Calls : Register(d)
      BY <1>2, <2>2, IdsKept, Zenon DEF Untouched
    <2> QED BY <2>1, <2>2, Zenon DEF Untouched
  <1> QED BY <1>1, <1>2, Zenon DEF Untouched, Used, UsedNow

\* A step that leaves a call alone.
LEMMA SameCall ==
  ASSUME NEW c \in Calls, pc'[c] = pc[c], idOf'[c] = idOf[c], got'[c] = got[c],
         code'[c] = code[c], exitOf'[idOf[c]] = exitOf[idOf[c]],
         pc[c] # "idle" => printed'[idOf[c]] = printed[idOf[c]]
  PROVE  Same(c)
  BY Zenon DEF Same, Phase, Shown, Has, Own, Exit, Result

\* What a step of the client shows of a call.
LEMMA ClientShows ==
  ASSUME NEW c \in Calls, UNCHANGED <<printed, exitOf, code>>, pc[c] # "idle", pc'[c] # "idle",
         idOf'[c] = idOf[c], got'[c] = got[c]
  PROVE  /\ Shown(c)' = Shown(c) /\ Has(c)' = Has(c) /\ Exit(c)' = Exit(c)
         /\ pc[c] # "exited" /\ pc'[c] # "exited" => Result(c)' = Result(c)
  BY Zenon DEF Shown, Has, Own, Exit, Result

LEMMA PhaseMeans ==
  ASSUME NEW c \in Calls, TypeOK
  PROVE  /\ pc[c] = "idle" => Phase(c) = "idle"
         /\ pc[c] \in {"send", "collect"} => Phase(c) = "running"
         /\ pc[c] = "exited" => Phase(c) = "exited"
         /\ pc[c] \in {"failed", "cancelled"} => Phase(c) = "failed"
         /\ pc[c] # "idle" => Phase(c) # "idle"
         /\ pc[c] # "exited" => Phase(c) # "exited"
  BY Zenon DEF Phase, TypeOK, ClientTypeOK, Returned

LEMMA PhaseMeansNow ==
  ASSUME NEW c \in Calls
  PROVE  /\ pc'[c] = "idle" => Phase(c)' = "idle"
         /\ pc'[c] \in {"send", "collect"} => Phase(c)' = "running"
         /\ pc'[c] = "exited" => Phase(c)' = "exited"
         /\ pc'[c] \in {"failed", "cancelled"} => Phase(c)' = "failed"
  BY Zenon DEF Phase

LEMMA InitRefines ==
  ASSUME Init PROVE Backend!Init
  <1>1. /\ \A c \in Calls : pc[c] = "idle" /\ got[c] = <<>> /\ idOf[c] = 0
        /\ exitOf = [i \in Ids |-> First]
    BY Zenon DEF Init, ClientInit, SandboxdInit, First
  <1>2. First \in Int /\ 0 \in Ids
    <2>1. First \in Codes
      BY PortAssumption, Zenon DEF First
    <2> QED BY <2>1, PortAssumption DEF Ids
  <1>3. \A c \in Calls : /\ Phase(c) = "idle" /\ Shown(c) = 0
                         /\ Exit(c) \in Int /\ Result(c) = NoCall
    BY <1>1, <1>2, Zenon DEF Phase, Shown, Exit, Result
  <1>4. ASSUME NEW c \in Calls PROVE Has(c) = <<>>
    <2>1. got[c] = <<>>
      BY <1>1, Zenon
    <2> QED BY <2>1 DEF Has
  <1>5. /\ [c \in Calls |-> Phase(c)] = [c \in Calls |-> "idle"]
        /\ [c \in Calls |-> [o \in {"output"} |-> Shown(c)]]
             = [c \in Calls |-> [o \in {"output"} |-> 0]]
        /\ [c \in Calls |-> [o \in {"output"} |-> Has(c)]]
             = [c \in Calls |-> [o \in {"output"} |-> <<>>]]
        /\ [c \in Calls |-> Exit(c)] \in [Calls -> Int]
        /\ [c \in Calls |-> Result(c)] = [c \in Calls |-> NoCall]
    BY <1>3, <1>4, Zenon
  <1> QED BY <1>5, Zenon DEF Backend!Init, Shown, Has, Exit, Result

\* A call takes a chunk.
LEMMA TakeRefines ==
  ASSUME TypeOK, Ordered, NEW c \in Calls, TakeOutput(c), UNCHANGED guestVars
  PROVE  Backend!Next
  <1> DEFINE g == got[c]
             q == chan[c].output
             h == Head(q)
  <1>1. /\ UNCHANGED <<idOf, pc, code, printed, exitOf>> /\ pc[c] = "collect" /\ q # <<>>
        /\ got' = [got EXCEPT ![c] = Append(g, h)]
    BY Zenon DEF TakeOutput, guestVars
  <1>2. /\ g \in Seq(Chunk) /\ q \in Seq(Chunk) /\ idOf[c] \in Ids /\ printed[idOf[c]] \in Nat
        /\ got \in [Calls -> Seq(Chunk)]
        /\ CallOrdered(toHost, dispatching, printed, idOf[c], g, q)
    BY OrderTypes, Zenon DEF Ordered, TypeOK, ClientTypeOK
  <1>3. got'[c] = Append(g, h) /\ \A d \in Calls : d # c => got'[d] = got[d]
    BY <1>1, <1>2, Zenon
  <1>4. \A d \in Calls : d # c => Same(d)
    BY <1>1, <1>3, SameCall, Zenon
  <1>5. h = q[1] /\ 1 \in 1 .. Len(q) /\ h \in Chunk
    BY <1>1, <1>2
  <1>6. h.of = idOf[c] /\ h.n <= printed[idOf[c]] /\ h.n \in Nat
    BY <1>2, <1>5, ChunkNumber, Zenon DEF CallOrdered, Ahead
  <1>7. \A k \in 1 .. Len(g) : g[k].of = idOf[c] /\ g[k].n < h.n /\ g[k].n \in Nat
    BY <1>2, <1>5, ChunkNumber, Zenon DEF CallOrdered
  <1> HIDE DEF g, q, h
  <1>8. Has(c) = [k \in 1 .. Len(g) |-> g[k].n] /\ DOMAIN g = 1 .. Len(g)
    <2>1. DOMAIN g = 1 .. Len(g)
      BY <1>2
    <2> QED BY <1>7, <2>1, Zenon DEF Has, Own, g
  <1>9. /\ Has(c) \in Seq(Nat) /\ Len(Has(c)) = Len(g)
        /\ \A k \in 1 .. Len(g) : Has(c)[k] = g[k].n
    <2>1. Len(g) \in Nat
      BY <1>2
    <2> QED BY <1>7, <1>8, <2>1
  <1>10. Has(c)' = Append(Has(c), h.n)
    <2> DEFINE a == Append(g, h)
    <2>1. DOMAIN a = 1 .. Len(g) + 1
      BY <1>2, <1>5
    <2>2. \A k \in 1 .. Len(g) + 1 : a[k] = IF k = Len(g) + 1 THEN h ELSE g[k]
      BY <1>2, <1>5
    <2>3. Has(c)' = [k \in 1 .. Len(g) + 1 |-> IF a[k].of = idOf[c] THEN a[k].n ELSE 0]
      <3>1. Has(c)' = [k \in DOMAIN a |-> IF a[k].of = idOf[c] THEN a[k].n ELSE 0]
        <4>1. Has(c)' = [k \in DOMAIN got'[c] |->
                           IF got'[c][k].of = idOf'[c] THEN got'[c][k].n ELSE 0]
          BY Zenon DEF Has, Own
        <4>2. got'[c] = a /\ idOf'[c] = idOf[c]
          BY <1>1, <1>3, Zenon DEF g, h
        <4> HIDE DEF a
        <4> QED BY <4>1, <4>2, Zenon
      <3> QED BY <2>1, <3>1, Zenon
    <2> HIDE DEF a
    <2>4. \A k \in 1 .. Len(g) + 1 :
            (IF a[k].of = idOf[c] THEN a[k].n ELSE 0) = IF k = Len(g) + 1 THEN h.n ELSE Has(c)[k]
      <3>1. ASSUME NEW k \in 1 .. Len(g) + 1, k # Len(g) + 1
            PROVE  (IF a[k].of = idOf[c] THEN a[k].n ELSE 0) = Has(c)[k]
        <4>1. k \in 1 .. Len(g)
          BY <1>2, <3>1
        <4> QED BY <1>7, <1>9, <2>2, <3>1, <4>1, Zenon
      <3> QED BY <1>6, <2>2, <3>1, Zenon
    <2>5. Append(Has(c), h.n) = [k \in 1 .. Len(g) + 1 |->
                                   IF k = Len(g) + 1 THEN h.n ELSE Has(c)[k]]
      BY <1>6, <1>9
    <2> QED BY <2>3, <2>4, <2>5, Zenon
  <1>11. h.n \in Backend!Newest(Has(c)) + 1 .. Shown(c)
    <2>1. Shown(c) = printed[idOf[c]]
      BY <1>1, Zenon DEF Shown
    <2>2. Backend!Newest(Has(c)) \in Nat /\ Backend!Newest(Has(c)) < h.n
      <3>1. CASE Has(c) = <<>>
        <4>1. 0 < h.n /\ 0 \in Nat
          BY <1>5 DEF Chunk
        <4> QED BY <3>1, <4>1, Zenon DEF Backend!Newest
      <3>2. CASE Has(c) # <<>>
        <4>1. Len(g) \in 1 .. Len(g)
          BY <1>2, <1>9, <3>2
        <4> QED BY <1>7, <1>9, <3>2, <4>1, Zenon DEF Backend!Newest
      <3> QED BY <3>1, <3>2, Zenon
    <2> QED BY <1>2, <1>6, <2>1, <2>2
  <1>12. /\ Phase(c) = "running" /\ Phase(c)' = Phase(c) /\ Shown(c)' = Shown(c)
         /\ Exit(c)' = Exit(c) /\ Result(c)' = Result(c)
    BY <1>1, Zenon DEF Phase, Shown, Exit, Result
  <1> QED BY <1>4, <1>10, <1>11, <1>12, MapsToReceive, Zenon

\* The steps of the calls and of the input goroutines.
LEMMA CallRefines ==
  ASSUME OneCallPerId, UnusedIds, ZeroLast, Untouched, NEW c \in Calls, Call(c),
         UNCHANGED guestVars
  PROVE  [Backend!Next]_(Backend!vars)
  <1>0. /\ TypeOK /\ pc \in [Calls -> {"idle", "send", "collect"} \cup Returned]
        /\ code \in [Calls -> Codes]
        /\ UNCHANGED <<printed, exitOf>>
    BY Zenon DEF OneCallPerId, Ownership, TypeOK, ClientTypeOK, guestVars
  <1>1. CASE Register(c)
    <2>1. /\ UNCHANGED <<got, code>> /\ pc[c] = "idle" /\ pc'[c] = "send"
          /\ \A d \in Calls : d # c => pc'[d] = pc[d] /\ idOf'[d] = idOf[d]
          /\ \A d \in Calls : pc[d] # "idle" => idOf[d] # idOf'[c]
      BY <1>0, <1>1, RegisterIds, Zenon
    <2>2. \A d \in Calls : d # c => Same(d)
      BY <1>0, <2>1, SameCall, Zenon
    <2>3. idOf'[c] \in Ids /\ 0 \in Ids
      <3>1. nextID \in Ids /\ idOf'[c] = (nextID + 1) % IdSpace
        BY <1>0, <1>1, RegisterIds, Zenon DEF TypeOK, ClientTypeOK
      <3>2. nextID + 1 \in Nat /\ 0 \in Ids
        BY <3>1, PortAssumption DEF Ids
      <3> QED BY <3>1, <3>2, IdsWrap, Zenon
    <2>4. ~Used(idOf'[c]) /\ ~Used(0)
      <3>1. ASSUME NEW d \in Calls, pc[d] \notin {"idle", "send"}
            PROVE  idOf[d] # idOf'[c] /\ idOf[d] # 0
        <4>1. pc[d] # "idle"
          BY <3>1, Zenon
        <4> QED BY <2>1, <4>1, Zenon DEF ZeroLast
      <3> QED BY <3>1, Zenon DEF Used
    <2>5. printed[idOf'[c]] = 0 /\ exitOf[idOf'[c]] = exitOf[idOf[c]]
      BY <2>1, <2>3, <2>4, Zenon DEF Untouched
    <2>6. Has(c) = <<>> /\ Has(c)' = <<>>
      <3>1. got[c] = <<>> /\ got'[c] = <<>>
        BY <2>1, Zenon DEF OneCallPerId, Routed
      <3>2. Has(c) = [k \in DOMAIN <<>> |-> Own(c, <<>>[k])]
        BY <3>1, Zenon DEF Has
      <3>3. Has(c)' = [k \in DOMAIN <<>> |-> Own(c, <<>>[k])']
        BY <3>1, Zenon DEF Has
      <3> QED BY <3>2, <3>3
    <2>7. /\ Phase(c) = "idle" /\ Phase(c)' = "running" /\ Shown(c)' = Shown(c)
          /\ Exit(c)' = Exit(c) /\ Result(c)' = Result(c)
      BY <1>0, <2>1, <2>5, Zenon DEF Phase, Shown, Exit, Result
    <2> QED BY <2>2, <2>6, <2>7, MapsToBegin, Zenon
  <1>2. CASE TakeOutput(c)
    BY <1>0, <1>2, TakeRefines, Zenon DEF OneCallPerId
  <1>3. CASE TakeExit(c)
    <2>1. /\ UNCHANGED <<got, idOf>> /\ pc[c] = "collect" /\ chan[c].exit # <<>>
          /\ pc' = [pc EXCEPT ![c] = "exited"]
          /\ code' = [code EXCEPT ![c] = Head(chan[c].exit)]
      BY <1>3, Zenon DEF TakeExit
    <2>2. /\ pc'[c] = "exited" /\ code'[c] = Head(chan[c].exit)
          /\ \A d \in Calls : d # c => pc'[d] = pc[d] /\ code'[d] = code[d]
      BY <1>0, <2>1, Zenon
    <2>3. \A d \in Calls : d # c => Same(d)
      BY <1>0, <2>1, <2>2, SameCall, Zenon
    <2>4. Head(chan[c].exit) = exitOf[idOf[c]]
      <3>1. chan[c].exit \in Seq(Codes)
        <4>1. chan[c] \in Chan
          BY <1>0, Zenon DEF TypeOK, ClientTypeOK
        <4> QED BY <4>1, Zenon DEF Chan
      <3>2. Head(chan[c].exit) = chan[c].exit[1] /\ 1 \in 1 .. Len(chan[c].exit)
        BY <2>1, <3>1, PartTail, Zenon
      <3> QED BY <3>2, Zenon DEF OneCallPerId, Routed
    <2>5. /\ Phase(c) = "running" /\ Phase(c)' = "exited" /\ Shown(c)' = Shown(c)
          /\ Exit(c)' = Exit(c) /\ Result(c)' = Exit(c) /\ Has(c)' = Has(c)
      BY <1>0, <2>1, <2>2, <2>4, Zenon DEF Phase, Shown, Exit, Result, Has, Own
    <2> QED BY <2>3, <2>5, MapsToReturn, Zenon
  <1>4. CASE SendRequestFails(c) \/ TakeError(c) \/ CancelStream(c)
    <2>1. /\ UNCHANGED <<got, idOf, code>> /\ pc[c] \in {"send", "collect"}
          /\ pc'[c] \in {"failed", "cancelled"} /\ \A d \in Calls : d # c => pc'[d] = pc[d]
      BY <1>0, <1>4, Zenon DEF SendRequestFails, TakeError, CancelStream
    <2>2. \A d \in Calls : d # c => Same(d)
      BY <1>0, <2>1, SameCall, Zenon
    <2>3. /\ Phase(c) = "running" /\ Phase(c)' = "failed"
          /\ pc[c] \notin {"idle", "exited"} /\ pc'[c] \notin {"idle", "exited"}
      BY <1>0, <2>1, PhaseMeans, PhaseMeansNow, Zenon
    <2>4. /\ Shown(c)' = Shown(c) /\ Has(c)' = Has(c) /\ Exit(c)' = Exit(c)
          /\ Result(c)' = Result(c)
      BY <1>0, <2>1, <2>3, ClientShows, Zenon
    <2> QED BY <2>2, <2>3, <2>4, MapsToFail, Zenon
  <1>5. CASE SendRequest(c)
    <2>1. /\ UNCHANGED <<got, idOf, code>> /\ pc[c] = "send" /\ pc'[c] = "collect"
          /\ \A d \in Calls : d # c => pc'[d] = pc[d]
      BY <1>0, <1>5, SendIds, Zenon
    <2>2. \A d \in Calls : d # c => Same(d)
      BY <1>0, <2>1, SameCall, Zenon
    <2>3. Same(c)
      BY <1>0, <2>1, Zenon DEF Same, Phase, Shown, Has, Own, Exit, Result
    <2> QED BY <2>2, <2>3, MapsToStutter, Zenon
  <1>6. CASE SendInput(c) \/ SendEof(c) \/ InputEnds(c)
    <2>1. UNCHANGED <<got, idOf, code, pc>>
      BY <1>6, Zenon DEF SendInput, SendEof, InputEnds
    <2> QED BY <1>0, <2>1, SameCall, MapsToStutter, Zenon
  <1> QED BY <1>1, <1>2, <1>3, <1>4, <1>5, <1>6, Zenon DEF Call

\* The steps of sandboxd.
LEMMA GuestRefines ==
  ASSUME OneCallPerId, ZeroLast, Untouched, Guest, UNCHANGED clientVars, TypeOK'
  PROVE  [Backend!Next]_(Backend!vars)
  <1>0. /\ TypeOK /\ printed \in [Ids -> 0 .. MaxOut] /\ exitOf \in [Ids -> Codes]
        /\ \A c \in Calls : idOf[c] \in Ids
        /\ UNCHANGED <<got, idOf, code, pc>>
    BY Zenon DEF OneCallPerId, Ownership, TypeOK, SandboxdTypeOK, ClientTypeOK, clientVars
  <1>1. ASSUME NEW c \in Calls, exitOf'[idOf[c]] = exitOf[idOf[c]],
               pc[c] # "idle" => printed'[idOf[c]] = printed[idOf[c]]
        PROVE  Same(c)
    BY <1>0, <1>1, SameCall, Zenon
  <1>2. CASE RelayOutput
    <2>1. job # <<>> /\ printed' = [printed EXCEPT ![Current.id] = printed[Current.id] + 1]
          /\ exitOf' = exitOf
      BY <1>2, Zenon DEF RelayOutput, Running
    <2>2. PICK c \in Calls :
            /\ pc[c] \notin {"idle", "send"} /\ idOf[c] = Current.id
            /\ \A d \in Calls : d # c /\ pc[d] # "idle" => idOf[d] # Current.id
      BY <1>0, <2>1, RunningCall, Zenon DEF OneCallPerId
    <2>3. ASSUME NEW d \in Calls, d # c PROVE Same(d)
      <3>1. pc[d] # "idle" => printed'[idOf[d]] = printed[idOf[d]]
        BY <1>0, <2>1, <2>2, <2>3, Zenon
      <3> QED BY <1>1, <2>1, <3>1, Zenon
    <2>4. /\ Phase(c) # "idle" /\ Phase(c)' = Phase(c) /\ Has(c)' = Has(c)
          /\ Exit(c)' = Exit(c) /\ Result(c)' = Result(c)
      BY <1>0, <2>1, <2>2, PhaseMeans, Zenon DEF Phase, Has, Own, Exit, Result
    <2>5. Shown(c)' = Shown(c) + 1
      <3>1. pc[c] # "idle" /\ pc'[c] # "idle"
        BY <1>0, <2>2, Zenon
      <3>2. Shown(c) = printed[Current.id] /\ Shown(c)' = printed'[Current.id]
        BY <1>0, <2>2, <3>1, Zenon DEF Shown
      <3> QED BY <1>0, <2>1, <2>2, <3>2, Zenon
    <2> QED BY <2>3, <2>4, <2>5, MapsToPrint, Zenon
  <1>3. CASE ProcessExits
    <2>1. job # <<>> /\ printed' = printed
          /\ \E k \in Codes : exitOf' = [exitOf EXCEPT ![Current.id] = k]
      BY <1>3, Zenon DEF ProcessExits, Running
    <2>2. PICK c \in Calls :
            /\ pc[c] \notin {"idle", "send"} /\ idOf[c] = Current.id
            /\ \A d \in Calls : d # c /\ pc[d] # "idle" => idOf[d] # Current.id
      BY <1>0, <2>1, RunningCall, Zenon DEF OneCallPerId
    <2>3. ASSUME NEW d \in Calls, d # c PROVE Same(d)
      <3>1. idOf[d] # Current.id
        <4>1. CASE pc[d] = "idle"
          BY <1>0, <2>1, <4>1, RunningCall, Zenon DEF OneCallPerId, Untouched
        <4> QED BY <2>2, <2>3, <4>1, Zenon
      <3>2. exitOf'[idOf[d]] = exitOf[idOf[d]]
        BY <1>0, <2>1, <3>1, Zenon
      <3> QED BY <1>1, <2>1, <3>2, Zenon
    <2>4. pc[c] # "exited"
      BY <2>1, <2>2, Zenon DEF OneCallPerId, Routed, Over
    <2>5. /\ Phase(c) # "exited" /\ Phase(c)' = Phase(c) /\ Has(c)' = Has(c)
          /\ Shown(c)' = Shown(c) /\ Result(c)' = Result(c)
      BY <1>0, <2>1, <2>2, <2>4, PhaseMeans, Zenon DEF Phase, Has, Own, Shown, Result
    <2>6. Exit(c)' \in Int
      <3>1. exitOf'[idOf[c]] \in Codes
        BY <1>0, Zenon DEF TypeOK, SandboxdTypeOK
      <3>2. \A k \in Codes : k \in Int
        BY PortAssumption
      <3> QED BY <1>0, <3>1, <3>2, Zenon DEF Exit
    <2> QED BY <2>3, <2>5, <2>6, MapsToEnd, Zenon
  <1>4. CASE UNCHANGED <<printed, exitOf>>
    BY <1>1, <1>4, MapsToStutter, Zenon
  <1>5. ASSUME ~RelayOutput, ~ProcessExits PROVE UNCHANGED <<printed, exitOf>>
    BY <1>5, Zenon DEF Guest, StartExec, StartExecFails, RejectFrame, OutputEnds, HandleStdin,
                       StdinHangsUp, SendResponse, ExecAborts
  <1> QED BY <1>2, <1>3, <1>4, <1>5, Zenon

LEMMA StepRefines ==
  ASSUME OneCallPerId, UnusedIds, ZeroLast, Untouched, [Next]_vars
  PROVE  [Backend!Next]_(Backend!vars)
  <1>1. TypeOK /\ TypeOK'
    BY NextOwnership, Zenon DEF OneCallPerId, Ownership
  <1>2. CASE ReadLoop /\ UNCHANGED guestVars
    <2>1. UNCHANGED <<got, idOf, code, pc, printed, exitOf>>
      BY <1>2, Zenon DEF ReadLoop, Lookup, DeliverOutput, DeliverResult, CloseChannels,
                         BroadcastError, guestVars
    <2> QED BY <2>1, SameCall, MapsToStutter, Zenon
  <1>3. CASE Stop /\ UNCHANGED guestVars
    <2>1. UNCHANGED <<got, idOf, code, pc, printed, exitOf>>
      BY <1>3, Zenon DEF Stop, CloseRequests, CloseConn, guestVars
    <2> QED BY <2>1, SameCall, MapsToStutter, Zenon
  <1>4. CASE UNCHANGED <<clientVars, guestVars>>
    <2>1. UNCHANGED <<got, idOf, code, pc, printed, exitOf>>
      BY <1>4, Zenon DEF clientVars, guestVars
    <2> QED BY <2>1, SameCall, MapsToStutter, Zenon
  <1> QED BY <1>1, <1>2, <1>3, <1>4, CallRefines, GuestRefines, Zenon DEF Next, vars

-----------------------------------------------------------------------------
(* The ids of startExec do not come round while there are no more calls    *)
(* than ids: the number of calls begun is nextID, or one round of it.      *)
LOCAL INSTANCE FiniteSetTheorems

FewCalls == IsFiniteSet(Calls) /\ Cardinality(Calls) <= IdSpace

Begun == {c \in Calls : pc[c] # "idle"}

FewIds ==
  /\ Cardinality(Begun) <= IdSpace
  /\ nextID = Cardinality(Begun) % IdSpace
  /\ \A c \in Begun : /\ idOf[c] <= Cardinality(Begun)
                      /\ idOf[c] = 0 => Cardinality(Begun) = IdSpace

LEMMA Rounds ==
  /\ \A k \in Nat : k < IdSpace => k % IdSpace = k
  /\ IdSpace % IdSpace = 0 /\ 0 % IdSpace = 0
  BY PortAssumption

LEMMA BegunCount ==
  ASSUME FewCalls
  PROVE  /\ IsFiniteSet(Begun) /\ Cardinality(Begun) \in Nat
         /\ (\E c \in Calls : pc[c] = "idle") => Cardinality(Begun) < IdSpace
  <1>1. IsFiniteSet(Calls) /\ Cardinality(Calls) \in Nat /\ Cardinality(Calls) <= IdSpace
    BY FS_CardinalityType, Zenon DEF FewCalls
  <1>2. Begun \subseteq Calls
    BY Zenon DEF Begun
  <1>3. /\ IsFiniteSet(Begun) /\ Cardinality(Begun) \in Nat
        /\ Cardinality(Begun) <= Cardinality(Calls)
        /\ Cardinality(Begun) = Cardinality(Calls) => Begun = Calls
    BY <1>1, <1>2, FS_Subset, FS_CardinalityType, Zenon
  <1>4. ASSUME NEW c \in Calls, pc[c] = "idle" PROVE Cardinality(Begun) < IdSpace
    <2>1. Begun # Calls
      BY <1>4, Zenon DEF Begun
    <2> QED BY <1>1, <1>3, <2>1, PortAssumption
  <1> QED BY <1>3, <1>4, Zenon

LEMMA FewUnused ==
  ASSUME FewCalls, TypeOK, FewIds PROVE UnusedIds
  <1> SUFFICES ASSUME NEW d \in Calls, pc[d] = "idle", NEW c \in Calls, pc[c] # "idle"
               PROVE  idOf[c] # (nextID + 1) % IdSpace
    BY Zenon DEF UnusedIds
  <1>1. PICK k \in Nat : k = Cardinality(Begun) /\ k < IdSpace
    BY BegunCount, Zenon
  <1>2. /\ nextID = k % IdSpace /\ idOf[c] <= k /\ (idOf[c] = 0 => k = IdSpace)
        /\ idOf[c] \in Ids
    BY <1>1, Zenon DEF FewIds, Begun, TypeOK, ClientTypeOK
  <1>3. k % IdSpace = k /\ IdSpace % IdSpace = 0
    BY <1>1, Rounds, Zenon
  <1>4. CASE k + 1 = IdSpace
    <2>1. (nextID + 1) % IdSpace = 0
      BY <1>2, <1>3, <1>4, Zenon
    <2>2. k # IdSpace
      BY <1>1
    <2> QED BY <1>2, <2>1, <2>2, Zenon
  <1>5. CASE k + 1 # IdSpace
    <2>1. k + 1 < IdSpace /\ k + 1 \in Nat
      BY <1>1, <1>5, PortAssumption
    <2>2. (k + 1) % IdSpace = k + 1
      BY <2>1, Rounds, Zenon
    <2>3. idOf[c] # k + 1
      BY <1>1, <1>2 DEF Ids
    <2> QED BY <1>2, <1>3, <2>2, <2>3, Zenon
  <1> QED BY <1>4, <1>5, Zenon

LEMMA FewZero ==
  ASSUME FewCalls, FewIds PROVE ZeroLast
  <1> SUFFICES ASSUME NEW d \in Calls, pc[d] = "idle", NEW c \in Calls, pc[c] # "idle"
               PROVE  idOf[c] # 0
    BY Zenon DEF ZeroLast
  <1>1. PICK k \in Nat : k = Cardinality(Begun) /\ k < IdSpace
    BY BegunCount, Zenon
  <1>2. k # IdSpace
    BY <1>1, PortAssumption
  <1> QED BY <1>1, <1>2, Zenon DEF FewIds, Begun

LEMMA FewInit ==
  ASSUME Init PROVE FewIds
  <1>1. Begun = {}
    BY Zenon DEF Begun, Init, ClientInit
  <1>2. Cardinality(Begun) = 0
    BY <1>1, FS_EmptySet, Zenon
  <1>3. nextID = 0
    BY Zenon DEF Init, ClientInit
  <1>4. 0 <= IdSpace
    BY PortAssumption
  <1> QED BY <1>1, <1>2, <1>3, <1>4, Rounds, Zenon DEF FewIds

LEMMA FewStep ==
  ASSUME FewCalls, TypeOK, FewIds, [Next]_vars PROVE FewIds'
  <1> DEFINE BegunNow == {c \in Calls : pc'[c] # "idle"}
  <1>0. SUFFICES
          /\ Cardinality(BegunNow) <= IdSpace
          /\ nextID' = Cardinality(BegunNow) % IdSpace
          /\ \A c \in BegunNow : /\ idOf'[c] <= Cardinality(BegunNow)
                                 /\ idOf'[c] = 0 => Cardinality(BegunNow) = IdSpace
    BY Zenon DEF FewIds, Begun
  <1>1. CASE ~ \E c \in Calls : Register(c)
    <2>1. /\ UNCHANGED <<nextID, idOf>>
          /\ \A c \in Calls : pc'[c] = "idle" <=> pc[c] = "idle"
      BY <1>1, IdsKept, Zenon
    <2>2. BegunNow = Begun
      BY <2>1, Zenon DEF Begun
    <2> QED BY <2>1, <2>2, Zenon DEF FewIds
  <1>2. ASSUME NEW c \in Calls, Register(c)
        PROVE  /\ Cardinality(BegunNow) <= IdSpace
               /\ nextID' = Cardinality(BegunNow) % IdSpace
               /\ \A d \in BegunNow : /\ idOf'[d] <= Cardinality(BegunNow)
                                      /\ idOf'[d] = 0 => Cardinality(BegunNow) = IdSpace
    <2>1. /\ pc[c] = "idle" /\ pc' = [pc EXCEPT ![c] = "send"]
          /\ nextID' = (nextID + 1) % IdSpace
          /\ idOf' = [idOf EXCEPT ![c] = (nextID + 1) % IdSpace]
          /\ idOf \in [Calls -> Ids]
          /\ pc \in [Calls -> {"idle", "send", "collect"} \cup Returned]
      BY <1>2, Zenon DEF Register, TypeOK, ClientTypeOK
    <2>2. PICK k \in Nat : k = Cardinality(Begun) /\ k < IdSpace
      BY <2>1, BegunCount, Zenon
    <2>3. BegunNow = Begun \cup {c} /\ c \notin Begun
      BY <2>1, Zenon DEF Begun
    <2>4. Cardinality(BegunNow) = k + 1
      BY <2>2, <2>3, BegunCount, FS_AddElement, Zenon
    <2>5. nextID = k
      BY <2>2, Rounds, Zenon DEF FewIds
    <2>6. k + 1 <= IdSpace /\ k + 1 \in Nat
      BY <2>2, PortAssumption
    <2>7. idOf'[c] = (k + 1) % IdSpace /\ \A d \in Begun : idOf'[d] = idOf[d]
      BY <2>1, <2>3, <2>5, Zenon DEF Begun
    <2>8. (k + 1) % IdSpace <= k + 1 /\ ((k + 1) % IdSpace = 0 => k + 1 = IdSpace)
      <3>1. CASE k + 1 = IdSpace
        <4>1. (k + 1) % IdSpace = 0
          BY <3>1, Rounds, Zenon
        <4> QED BY <2>6, <3>1, <4>1
      <3>2. CASE k + 1 < IdSpace
        <4>1. (k + 1) % IdSpace = k + 1
          BY <2>6, <3>2, Rounds, Zenon
        <4> QED BY <2>2, <2>6, <4>1
      <3> QED BY <2>6, <3>1, <3>2, PortAssumption
    <2>9. ASSUME NEW d \in Begun
          PROVE  idOf'[d] <= k + 1 /\ (idOf'[d] = 0 => k + 1 = IdSpace)
      <3>1. idOf[d] \in Ids /\ idOf[d] <= k /\ (idOf[d] = 0 => k = IdSpace)
        BY <2>1, <2>2, <2>9, Zenon DEF FewIds, Begun
      <3>2. idOf[d] <= k + 1 /\ idOf[d] # 0
        BY <2>2, <3>1, PortAssumption DEF Ids
      <3> QED BY <2>7, <3>2, Zenon
    <2> QED BY <2>1, <2>3, <2>4, <2>5, <2>6, <2>7, <2>8, <2>9, Zenon
  <1> QED BY <1>1, <1>2, Zenon

LEMMA OneCallAlways ==
  ASSUME FewCalls PROVE Spec => [](OneCallPerId /\ UnusedIds /\ ZeroLast)
  <1> DEFINE Inv == OneCallPerId /\ FewIds
  <1>1. Init => Inv
    BY OneCallInit, FewInit, Zenon
  <1>2. Inv => UnusedIds /\ ZeroLast
    BY FewUnused, FewZero, Zenon DEF OneCallPerId, Ownership
  <1>3. Inv /\ [Next]_vars => Inv'
    <2>1. ASSUME OneCallPerId, FewIds, [Next]_vars PROVE OneCallPerId' /\ FewIds'
      <3>1. TypeOK
        BY <2>1, Zenon DEF OneCallPerId, Ownership
      <3> QED BY <1>2, <2>1, <3>1, OneCallStep, FewStep, Zenon
    <2> QED BY <2>1, Zenon
  <1>4. OneCallPerId /\ FewIds => OneCallPerId /\ UnusedIds /\ ZeroLast
    BY <1>2, Zenon
  <1> QED BY <1>1, <1>3, <1>4, PTL DEF Spec

(* sandboxd answers each request once and says nothing of it afterwards,   *)
(* whatever the calls do and wherever handleExec fails, for up to IdSpace  *)
(* calls on a machine: dispatch may delete an entry at its first answer.   *)
THEOREM AnswerTheorem ==
  ASSUME FewCalls PROVE Spec => []AnswerIsLast
  <1>1. OneCallPerId => AnswerIsLast
    BY Zenon DEF OneCallPerId, Answered
  <1> QED BY <1>1, OneCallAlways, PTL

(* A call receives what its own process printed, in the order printed and  *)
(* nothing twice, and returns that process's exit code, for up to IdSpace  *)
(* calls on a machine, any capacity of the channels and any interleaving   *)
(* with StopVM, cancelled streams and the death of the machine.            *)
THEOREM OwnOutputTheorem ==
  ASSUME FewCalls PROVE Spec => []OwnOutput
  <1>1. ASSUME OneCallPerId PROVE OwnOutput
    <2>1. ASSUME NEW c \in Calls, NEW k \in 1 .. Len(got[c])
          PROVE  /\ got[c][k].of = idOf[c]
                 /\ got[c][k].n <= printed[idOf[c]]
                 /\ k > 1 => got[c][k - 1].n < got[c][k].n
      <3>1. CallOrdered(toHost, dispatching, printed, idOf[c], got[c], chan[c].output)
        BY <1>1, Zenon DEF OneCallPerId, Ordered
      <3>2. k > 1 => k - 1 \in 1 .. Len(got[c]) /\ k - 1 < k
        OBVIOUS
      <3> QED BY <3>1, <3>2, Zenon DEF CallOrdered, Ahead
    <2>2. \A c \in Calls : pc[c] = "exited" => code[c] = exitOf[idOf[c]]
      BY <1>1, Zenon DEF OneCallPerId, Routed
    <2> QED BY <2>1, <2>2, Zenon DEF OwnOutput
  <1>2. OneCallPerId => OwnOutput
    BY <1>1, Zenon
  <1> QED BY <1>2, OneCallAlways, PTL

\* The condition of NoneForgotten holds for up to IdSpace calls.
LEMMA FewFresh ==
  ASSUME FewCalls PROVE Spec => []FreshIds
  <1>1. ASSUME OneCallPerId, UnusedIds PROVE FreshIds
    <2>1. UnusedIds /\ TypeOK /\ Entries
      BY <1>1, Zenon DEF OneCallPerId, Ownership
    <2>2. ASSUME NEW c \in Calls, pc[c] = "idle"
          PROVE  /\ reqs[(nextID + 1) % IdSpace] = NoCall
                 /\ \A d \in Calls : pc[d] = "send" => idOf[d] # (nextID + 1) % IdSpace
      <3>1. (nextID + 1) % IdSpace \in Ids
        <4>1. nextID + 1 \in Nat
          <5>1. nextID \in Ids
            BY <2>1, Zenon DEF TypeOK, ClientTypeOK
          <5> QED BY <5>1, PortAssumption DEF Ids
        <4> QED BY <4>1, IdsWrap, Zenon
      <3>2. reqs[(nextID + 1) % IdSpace] \in Calls \cup {NoCall}
        BY <2>1, <3>1, Zenon DEF TypeOK, ClientTypeOK
      <3>3. \A d \in Calls : pc[d] # "idle" => idOf[d] # (nextID + 1) % IdSpace
        BY <2>1, <2>2, Zenon DEF UnusedIds
      <3>4. \A d \in Calls : pc[d] = "send" => pc[d] # "idle"
        BY Zenon
      <3>5. reqs[(nextID + 1) % IdSpace] = NoCall
        BY <2>1, <3>1, <3>2, <3>3, Zenon DEF Entries
      <3> QED BY <3>3, <3>4, <3>5, Zenon
    <2> QED BY <2>2, Zenon DEF FreshIds
  <1>2. OneCallPerId /\ UnusedIds => FreshIds
    BY <1>1, Zenon
  <1> QED BY <1>2, OneCallAlways, PTL

(* None of up to IdSpace calls is forgotten: as long as it waits, the      *)
(* table or dispatch has it.                                               *)
THEOREM ReachableTheorem ==
  ASSUME FewCalls PROVE Spec => []WaitersReachable
  BY FewFresh, NoneForgotten, PTL

(* When QEMU dies, readLoop's broadcastError leaves nobody behind: after   *)
(* it, nothing more can be sent, and every call that waits has its result  *)
(* or an error in its channels, also one that registered while readLoop    *)
(* was on its way out.  This is what DeathWakesCalls needs of the state;   *)
(* only the scheduling of the calls is left to fairness.                   *)
THEOREM StrandedTheorem ==
  ASSUME FewCalls PROVE Spec => []NoneStranded
  BY FewFresh, FreshTracked, PTL

(* No request is lost between the daemon and the guest, on a machine that  *)
(* is up, not being stopped and without sessions: the request of a call    *)
(* that waits is queued for sandboxd, run by it, or answered.  With a      *)
(* session this is false (MCTwoClients): handleStdin eats the request.     *)
THEOREM NothingLostTheorem ==
  ASSUME FewCalls PROVE Spec => []NothingLost
  BY FewFresh, FreshTracked, PTL

(* A call on a virtual machine is a call as ExecBackend specifies it, for  *)
(* up to IdSpace calls on a machine, whatever they, the read loop, StopVM, *)
(* sandboxd and QEMU do.                                                   *)
THEOREM RefinementTheorem ==
  ASSUME FewCalls PROVE Spec => ImplementsBackend
  <1>1. Init => Backend!Init /\ Untouched
    BY InitRefines, UntouchedInit, Zenon
  <1>2. OneCallPerId /\ UnusedIds /\ ZeroLast /\ Untouched /\ [Next]_vars => Untouched'
    BY UntouchedStep, Zenon DEF OneCallPerId, Ownership
  <1>3. OneCallPerId /\ UnusedIds /\ ZeroLast /\ Untouched /\ [Next]_vars
           => [Backend!Next]_(Backend!vars)
    BY StepRefines, Zenon
  <1> QED BY <1>1, <1>2, <1>3, OneCallAlways, PTL DEF Spec, ImplementsBackend, Backend!Spec
=============================================================================
