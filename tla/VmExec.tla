-------------------------------- MODULE VmExec --------------------------------
(***************************************************************************)
(* The exec path of one virtual machine: the daemon's virtioClient with    *)
(* the RPC calls that use it, sandboxd in the guest, and the port between  *)
(* them.  Next is the interleaving of the two components' steps and of     *)
(* the events around them.                                                 *)
(***************************************************************************)
EXTENDS VirtioClient, Sandboxd

CONSTANT
  Events   \* the events a run considers, a subset of AllEvents

AllEvents == {"stop",    \* StopVM closes the client
              "cancel",  \* a stream's client goes away
              "die",     \* QEMU dies
              "abort"}   \* handleExec fails

ASSUME EventsAssumption == Events \subseteq AllEvents

vars == <<portVars, clientVars, guestVars>>

TypeOK == PortTypeOK /\ ClientTypeOK /\ SandboxdTypeOK

Init == PortInit /\ ClientInit /\ SandboxdInit

Collect(c) == TakeOutput(c) \/ TakeExit(c) \/ TakeError(c)

Call(c) ==
  \/ Register(c) \/ SendRequest(c) \/ SendRequestFails(c)
  \/ TakeOutput(c) \/ TakeExit(c) \/ TakeError(c)
  \/ "cancel" \in Events /\ CancelStream(c)
  \/ SendInput(c) \/ SendEof(c) \/ InputEnds(c)

ReadLoop ==
  \/ Lookup \/ DeliverOutput \/ DeliverResult \/ CloseChannels
  \/ BroadcastError

Stop == "stop" \in Events /\ (CloseRequests \/ CloseConn)

Guest ==
  \/ StartExec \/ RejectFrame
  \/ "abort" \in Events /\ (StartExecFails \/ ExecAborts)
  \/ RelayOutput \/ OutputEnds \/ ProcessExits
  \/ HandleStdin \/ StdinHangsUp \/ SendResponse

QemuDies == "die" \in Events /\ GuestDies

Next ==
  \/ (\E c \in Calls : Call(c)) /\ UNCHANGED guestVars
  \/ ReadLoop /\ UNCHANGED guestVars
  \/ Stop /\ UNCHANGED guestVars
  \/ Guest /\ UNCHANGED clientVars
  \/ QemuDies /\ UNCHANGED <<clientVars, guestVars>>

Spec == Init /\ [][Next]_vars

-----------------------------------------------------------------------------
(* Fairness.  The Go runtime schedules every goroutine that can run, and   *)
(* sandboxd's loop polls at least every 100 ms.  A process ends once it    *)
(* has met the end of its input, and its output ends after it; neither is  *)
(* assumed of a process that still has its input open.  Clients owe        *)
(* nothing: no call need be made, no input sent or ended.                  *)
ClientFairness ==
  /\ \A c \in Calls :
       /\ WF_vars((SendRequest(c) \/ SendRequestFails(c)) /\ UNCHANGED guestVars)
       /\ WF_vars(Collect(c) /\ UNCHANGED guestVars)
       /\ WF_vars(InputEnds(c) /\ UNCHANGED guestVars)
  /\ WF_vars(ReadLoop /\ UNCHANGED guestVars)
  /\ WF_vars("stop" \in Events /\ CloseConn /\ UNCHANGED guestVars)

GuestFairness ==
  /\ WF_vars((StartExec \/ RejectFrame) /\ UNCHANGED clientVars)
  /\ WF_vars((HandleStdin \/ StdinHangsUp) /\ UNCHANGED clientVars)
  /\ WF_vars(job # <<>> /\ Current.sawEof /\ ProcessExits /\ UNCHANGED clientVars)
  /\ WF_vars(job # <<>> /\ Current.exited /\ OutputEnds /\ UNCHANGED clientVars)
  /\ WF_vars(SendResponse /\ UNCHANGED clientVars)

FairSpec == Spec /\ ClientFairness /\ GuestFairness

-----------------------------------------------------------------------------
(* What a call receives is its own: the chunks it takes were printed by    *)
(* the process started for it, in the order printed, and the exit code it  *)
(* returns is that process's.  (reqs and the ids of startExec and dispatch *)
(* route frames of all calls over one connection.)                         *)
OwnOutput ==
  \A c \in Calls :
    /\ \A k \in 1 .. Len(got[c]) :
         /\ got[c][k].of = idOf[c]
         /\ got[c][k].n <= printed[idOf[c]]
         /\ k > 1 => got[c][k - 1].n < got[c][k].n
    /\ pc[c] = "exited" => code[c] = exitOf[idOf[c]]

(* Whoever takes a request out of reqs under mu, and only that goroutine,  *)
(* closes its channels: dispatch and Close never close a channel twice and *)
(* a result is never sent to a closed channel, however StopVM interleaves  *)
(* with the read loop.                                                     *)
ChannelOwnership == panicked \notin {"send result", "close twice"}

(* A call that waits in its select loop with nothing to take and with open *)
(* channels is in reqs, or dispatch is about to hand it its result.  Were  *)
(* it neither, no frame and no broadcastError could ever wake it.          *)
WaitersReachable ==
  \A c \in Calls :
    pc[c] = "collect" /\ ~chan[c].closed /\ chan[c].exit = <<>> /\ chan[c].err = 0
      => \/ Registered(c)
         \/ dispatching # <<>> /\ dispatching[1].call = c
                               /\ dispatching[1].msg.t \in Final

(* The sends of dispatch outside mu never block readLoop, so no call can   *)
(* hold up the answers of the others: the result channels have room when a *)
(* result arrives.                                                         *)
ReaderNeverBlocks ==
  dispatching # <<>> /\ dispatching[1].msg.t \in Final /\ ~dispatching[1].sent
    => LET ch == chan[dispatching[1].call]
       IN IF dispatching[1].msg.t = "exec_response" THEN ch.exit = <<>>
                                                    ELSE ch.err = 0

(* sandboxd answers a request once and says nothing of it afterwards: in   *)
(* what it has sent, no frame of a request follows its exec_response or    *)
(* error.  (dispatch relies on it: an entry is deleted at the first.)      *)
AnswerIsLast ==
  \A i, j \in 1 .. Len(toHost) :
    i < j /\ toHost[i].t \in Final /\ toHost[i].id # 0
      => toHost[j].id # toHost[i].id

(* What a call on a virtual machine promises is what ExecBackend says.     *)
Phase(c) ==
  CASE pc[c] = "idle" -> "idle"
    [] pc[c] \in {"send", "collect"} -> "running"
    [] pc[c] = "exited" -> "exited"
    [] OTHER -> "failed"

Own(c, chunk) == IF chunk.of = idOf[c] THEN chunk.n ELSE 0

Backend == INSTANCE ExecBackend WITH
  Outputs <- {"output"},
  NoResult <- NoCall,
  status <- [c \in Calls |-> Phase(c)],
  printed <- [c \in Calls |->
                [o \in {"output"} |-> IF pc[c] = "idle" THEN 0 ELSE printed[idOf[c]]]],
  received <- [c \in Calls |->
                [o \in {"output"} |-> [k \in DOMAIN got[c] |-> Own(c, got[c][k])]]],
  exit <- [c \in Calls |-> exitOf[idOf[c]]],
  result <- [c \in Calls |-> IF pc[c] = "exited" THEN code[c] ELSE NoCall]

(* A call on a virtual machine is a call as ExecBackend specifies it,      *)
(* although all calls share one connection, one read loop and one guest    *)
(* process: as long as ids do not come round while in use.                 *)
ImplementsBackend == Backend!Spec

(* Every Exec returns, with an exit code or an error, whether the guest    *)
(* runs the command, fails to, or dies, on a machine that no session is    *)
(* opened on.                                                              *)
NoSessions == \A s \in Streams : pc[s] = "idle"
ExecReturns ==
  []NoSessions => \A c \in Execs : pc[c] = "send" ~> pc[c] \in Returned

(* When the machine dies no call is left waiting: readLoop tells the       *)
(* requests in the table and later writes fail.                            *)
DeathWakesCalls ==
  ~guestUp ~> \A c \in Calls : pc[c] \notin {"send", "collect"}

-----------------------------------------------------------------------------
(* Stopping a machine leaves the daemon running ("vm B should continue     *)
(* working after vm A stop").                                              *)
StopLeavesDaemonUp == DaemonUp

(* "This allows multiple SDK clients to connect to the same environments": *)
(* an Exec whose request is on its way returns, whatever sessions of other *)
(* clients are open.                                                       *)
ClientsShareMachine == \A c \in Execs : pc[c] = "collect" ~> pc[c] \in Returned
=============================================================================
