---------------------------- MODULE FsrpcSession ----------------------------
(***************************************************************************)
(* FsrpcServer together with its one client: sandboxfs in the guest        *)
(* (guest/src/sandboxfs.zig), which serves FUSE requests one at a time and *)
(* turns them into FS-RPC requests, and the virtio port between the two.   *)
(* request() compares neither the id nor the op of the frame it reads with *)
(* what it sent, so that every answer is the right one rests on the order  *)
(* of things alone.                                                        *)
(***************************************************************************)
EXTENDS FsrpcServer, Sequences

CONSTANT MaxId   \* the largest request id; 2^32 - 1 in the code

ASSUME MaxIdAssumption == MaxId \in Nat \ {0}

VARIABLES
  port,      \* the guest's end: "before", "open" or "after" the daemon's
             \* connection
  toHost,    \* requests on the way
  toGuest,   \* responses on the way
  guest,     \* where sandboxfs is
  more,      \* the FUSE request it serves takes a second FS-RPC request
  nextId,    \* FsRpcClient.next_id
  asked,     \* the request it sent last
  current,   \* the request the server handles
  answer     \* history: the request and the response of the latest call

clientVars == <<port, toHost, toGuest, guest, more, nextId, asked, current, answer>>
sessionVars == <<vars, clientVars>>

(* A ping, or an operation on files.  A response repeats id and op. *)
Message == [id : 1 .. MaxId, op : {"ping", "file"}]
None == [id |-> 1, op |-> "ping"]

SessionInit ==
  /\ Init
  /\ port = "before"
  /\ toHost = <<>> /\ toGuest = <<>>
  /\ guest = "ping"
  /\ more = FALSE
  /\ nextId = 1
  /\ asked = None /\ current = None
  /\ answer = [asked |-> None, got |-> None]

-----------------------------------------------------------------------------
(* The port.  The driver of the guest learns of the daemon's connection    *)
(* and of its end; a write waits until the other side is connected, and a  *)
(* read without data fails when it is not.  The daemon dials once.         *)
Attach ==
  /\ port = "before" /\ connUp
  /\ port' = "open"
  /\ UNCHANGED <<vars, toHost, toGuest, guest, more, nextId, asked, current, answer>>

Detach ==
  /\ port # "after" /\ ~connUp
  /\ port' = "after"
  /\ UNCHANGED <<vars, toHost, toGuest, guest, more, nextId, asked, current, answer>>

-----------------------------------------------------------------------------
(* sandboxfs.  It pings until it gets an answer, then mounts and waits for *)
(* FUSE requests; a call that fails ends the process.                      *)

SendRequest(op) ==
  LET m == [id |-> nextId, op |-> op]
  IN /\ port = "open"
     /\ asked' = m
     /\ nextId' = IF nextId = MaxId THEN 1 ELSE nextId + 1
     /\ toHost' = Append(toHost, m)
     /\ UNCHANGED <<vars, port, more, toGuest, current, answer>>

Ping == guest = "ping" /\ guest' = "pinging" /\ SendRequest("ping")

(* A FUSE request is read.  handleSetattr makes two FS-RPC requests of it, *)
(* truncate and then getattr; the other handlers make one.                 *)
FuseRequest ==
  /\ guest = "mounted"
  /\ guest' = "writing"
  /\ more' \in BOOLEAN
  /\ UNCHANGED <<vars, port, toHost, toGuest, nextId, asked, current, answer>>

WriteRequest == guest = "writing" /\ guest' = "waiting" /\ SendRequest("file")

(* The second request is made only if the first succeeded.                 *)
ReadResponse ==
  /\ guest \in {"pinging", "waiting"}
  /\ toGuest # <<>>
  /\ answer' = [asked |-> asked, got |-> Head(toGuest)]
  /\ toGuest' = Tail(toGuest)
  /\ guest' \in {"mounted"} \cup (IF more THEN {"writing"} ELSE {})
  /\ more' = FALSE
  /\ UNCHANGED <<vars, port, toHost, nextId, asked, current>>

\* Mutant: request gives up while its answer is on the way.
GivesUpWaiting ==
  /\ guest' \in CASE guest = "pinging" -> {"sleep", "exit"} [] guest = "waiting" -> {"exit"}
                  [] OTHER -> {}
  /\ UNCHANGED <<vars, port, toHost, toGuest, more, nextId, asked, current, answer>>

\* Mutant: the end of the port is not an error.
ReadsOnAtEnd ==
  /\ port = "after" /\ toGuest = <<>>
  /\ guest' \in CASE guest = "pinging" -> {"sleep", "exit"} [] OTHER -> {guest}
  /\ UNCHANGED <<vars, port, toHost, toGuest, more, nextId, asked, current, answer>>

(* A ping that fails is sent again until five seconds have passed.         *)
ReadFails ==
  /\ port = "after" /\ toGuest = <<>>
  /\ guest' \in CASE guest = "pinging" -> {"sleep", "exit"} [] guest = "waiting" -> {"exit"}
                  [] OTHER -> {}
  /\ UNCHANGED <<vars, port, toHost, toGuest, more, nextId, asked, current, answer>>

Retry ==
  /\ guest = "sleep"
  /\ guest' = "ping"
  /\ UNCHANGED <<vars, port, toHost, toGuest, more, nextId, asked, current, answer>>

Sandboxfs == Ping \/ FuseRequest \/ WriteRequest \/ ReadResponse \/ ReadFails \/ Retry

-----------------------------------------------------------------------------
(* The server, with its requests and responses.                            *)

TakeRequest ==
  /\ ReadRequest
  /\ toHost # <<>>
  /\ current' = Head(toHost)
  /\ toHost' = Tail(toHost)
  /\ UNCHANGED <<port, toGuest, guest, more, nextId, asked, answer>>

(* Only operations on files touch the handle table; the collector runs     *)
(* before any request.                                                     *)
HandleRequest ==
  /\ \/ Collect \/ CloseCollected \/ OtherRequest
     \/ current.op = "file" /\ \E f \in Files : OpenFile(f) \/ ReleaseHandle(f)
     \/ StatFails \/ InsertHandle \/ CloseReleased
  /\ UNCHANGED clientVars

SendResponse ==
  /\ Respond
  /\ toGuest' = Append(toGuest, current)
  /\ UNCHANGED <<port, toHost, guest, more, nextId, asked, current, answer>>

(* The guest's frames are well formed: serve ends with its connection. *)
EndServe ==
  /\ ~connUp
  /\ ServeEnds
  /\ UNCHANGED clientVars

Daemon == TakeRequest \/ HandleRequest \/ SendResponse \/ EndServe

CloseStep(x) == Close(x) /\ UNCHANGED clientVars

(* QEMU goes away, and sandboxfs with it. *)
MachineEnds ==
  /\ guest # "gone"
  /\ IF connUp THEN GuestGone ELSE UNCHANGED vars
  /\ guest' = "gone"
  /\ port' = "after"
  /\ toGuest' = <<>>
  /\ UNCHANGED <<toHost, more, nextId, asked, current, answer>>

SessionNext ==
  \/ Attach \/ Detach
  \/ Sandboxfs
  \/ Daemon
  \/ \E x \in Closers : CloseStep(x)
  \/ MachineEnds

SessionSpec == SessionInit /\ [][SessionNext]_sessionVars

(* Fairness.  Goroutines and the guest's process are scheduled, the driver *)
(* hears of the connection and of its end.  No FUSE request need come, and *)
(* StopVM need not be called.                                              *)
SessionFair ==
  /\ SessionSpec
  /\ WF_sessionVars(Daemon)
  /\ SF_sessionVars(EndServe)
  /\ WF_sessionVars(CloseStep("serve"))
  /\ WF_sessionVars(closer["stop"] # "out" /\ CloseStep("stop"))
  /\ WF_sessionVars(Attach) /\ WF_sessionVars(Detach)
  /\ WF_sessionVars(Ping \/ WriteRequest \/ ReadResponse \/ ReadFails \/ Retry)

-----------------------------------------------------------------------------
(* request() returns the answer to the request it sent, although it looks  *)
(* at neither id nor op: when it writes, nothing of an earlier call, a     *)
(* ping or the first half of a setattr, can still be under way.            *)
AnswersMatch == answer.got = answer.asked

(* A FUSE request that was passed on is answered, or sandboxfs ends and    *)
(* the kernel fails it: no program of the guest hangs in a file operation  *)
(* because the daemon closed the mount in the middle of it.  One that has  *)
(* not been written when the mount is closed, the second half of a setattr *)
(* for instance, waits longer: until Close, which ends QEMU after it has   *)
(* closed the mounts, has ended the machine.                               *)
AnswerOrEnd ==
  /\ guest = "waiting" ~> guest # "waiting"
  /\ (closer["stop"] = "done" ~> guest = "gone")
       => (guest = "writing" ~> guest # "writing")
=============================================================================
