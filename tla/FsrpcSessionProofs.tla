------------------------- MODULE FsrpcSessionProofs -------------------------
(***************************************************************************)
(* Proofs about FsrpcServer, for every set of files, and about             *)
(* FsrpcSession, for any files and any largest request id: a session is a  *)
(* behaviour of FsrpcServer, every answer belongs to its request, no file  *)
(* leaks before the session ends, and nobody waits for nothing.            *)
(***************************************************************************)
EXTENDS FsrpcSession, TLAPS

(* The inductive invariant.  Hands says that the table and the two hands   *)
(* share no file and hold no closed one.  Phases says when a hand may hold *)
(* files at all: taking entries never overwrites a hand that holds some.   *)
(* Once says that one goroutine is inside closeOnce while it runs, and two *)
(* never are.  AllHeld says that no open file is out of sight.             *)
Hands ==
  /\ table \cap closed = {}
  /\ \A x \in Closers : hand[x] \cap closed = {} /\ hand[x] \cap table = {}
  /\ hand["serve"] \cap hand["stop"] = {}

Phases ==
  /\ hand["serve"] # {} => \/ serve \in {"drop", "insert", "created", "release"}
                           \/ closer["serve"] = "files"
  /\ hand["stop"] # {} => closer["stop"] = "files"
  /\ closer["serve"] # "out" => serve = "exit"

Inside(x) == closer[x] \in {"take", "files", "conn"}

Once ==
  /\ once = "new" => \A x \in Closers : closer[x] = "out"
  /\ \A x \in Closers : Inside(x) => once = "running"
  /\ ~(Inside("serve") /\ Inside("stop"))
  /\ once = "running" => Inside("serve") \/ Inside("stop")

AllHeld == opened \ closed = table \cup hand["serve"] \cup hand["stop"]

Inv == TypeOK /\ Hands /\ Phases /\ Once /\ NeverTwice /\ AllHeld

LEMMA InitInv == Init => Inv
  BY Zenon DEF Init, Inv, TypeOK, Hands, Phases, Once, Inside, NeverTwice,
          AllHeld, Closers

\* A step of serve that does not touch files, and one that is about files.
LEMMA ServeInv == Inv /\ Serve => Inv'
  <1> SUFFICES ASSUME Inv, Serve PROVE Inv'
    BY Zenon
  <1> USE DEF Inv, TypeOK, Hands, Phases, Once, Inside, NeverTwice,
          AllHeld, Closers
  <1>1. CASE ReadRequest
    BY <1>1, Zenon DEF ReadRequest
  <1>2. CASE Collect
    BY <1>2 DEF Collect, Take
  <1>3. CASE CloseCollected
    BY <1>3, Zenon DEF CloseCollected, CloseHand
  <1>4. ASSUME NEW f \in Files, OpenFile(f) PROVE Inv'
    BY <1>4 DEF OpenFile
  <1>5. ASSUME NEW f \in Files, ReleaseHandle(f) PROVE Inv'
    BY <1>5 DEF ReleaseHandle, Take
  <1>6. CASE StatFails
    BY <1>6, Zenon DEF StatFails, CloseHand
  <1>7. CASE InsertHandle
    BY <1>7, Zenon DEF InsertHandle
  <1>8. CASE CloseReleased
    BY <1>8, Zenon DEF CloseReleased, CloseHand
  <1>9. CASE OtherRequest
    BY <1>9, Zenon DEF OtherRequest
  <1>10. CASE Respond
    BY <1>10, Zenon DEF Respond
  <1>11. CASE ServeEnds
    BY <1>11, Zenon DEF ServeEnds
  <1> QED BY <1>1, <1>2, <1>3, <1>4, <1>5, <1>6, <1>7, <1>8, <1>9, <1>10, <1>11, Zenon
          DEF Serve

\* A step of Close, by either goroutine.
LEMMA CloseInv == ASSUME NEW x \in Closers, Inv, Close(x) PROVE Inv'
  <1> USE DEF Inv, TypeOK, Hands, Phases, Once, Inside, NeverTwice,
          AllHeld, Closers
  <1>1. CASE EnterClose(x)
    BY <1>1, Zenon DEF EnterClose, MayClose
  <1>2. CASE AlreadyClosed(x)
    BY <1>2, Zenon DEF AlreadyClosed, MayClose
  <1>3. CASE TakeAll(x)
    BY <1>3, Zenon DEF TakeAll, Take
  <1>4. CASE CloseAll(x)
    BY <1>4, Zenon DEF CloseAll, CloseHand
  <1>5. CASE CloseConn(x)
    BY <1>5, Zenon DEF CloseConn
  <1> QED BY <1>1, <1>2, <1>3, <1>4, <1>5, Zenon DEF Close

LEMMA NextInv == Inv /\ [Next]_vars => Inv'
  <1> SUFFICES ASSUME Inv, [Next]_vars PROVE Inv'
    BY Zenon
  <1>1. CASE Serve
    BY <1>1, ServeInv, Zenon
  <1>2. CASE GuestGone
    BY <1>2, Zenon DEF GuestGone, Inv, TypeOK, Hands, Phases, Once, Inside, NeverTwice,
                AllHeld
  <1>3. ASSUME NEW x \in Closers, Close(x) PROVE Inv'
    BY <1>3, CloseInv, Zenon
  <1>4. CASE UNCHANGED vars
    BY <1>4
    DEF vars, Inv, TypeOK, Hands, Phases, Once, Inside, NeverTwice, AllHeld
  <1> QED BY <1>1, <1>2, <1>3, <1>4, Zenon DEF Next

LEMMA Invariance == Spec => []Inv
  <1> QED BY InitInv, NextInv, PTL DEF Spec

(* The types, in particular: what the table and the hands hold has been    *)
(* opened.                                                                 *)
THEOREM TypeCorrect == Spec => []TypeOK
  <1>1. Inv => TypeOK
    BY Zenon DEF Inv
  <1> QED BY <1>1, Invariance, PTL

(* A request never finds a closed file in the handle table, and no file is *)
(* closed twice, whoever closes it: maybeGC, handleRelease, or Close from  *)
(* either goroutine.                                                       *)
THEOREM FilesClosedOnce == Spec => []ClosedOnce
  <1>1. Inv => ClosedOnce
    BY Zenon DEF Inv, Hands, TableOpen, ClosedOnce
  <1> QED BY <1>1, Invariance, PTL

(* Nothing leaks while the mount is served.                                *)
THEOREM ServingKeepsFiles == Spec => []NoLeakWhileServing
  <1>1. Inv => NoLeakWhileServing
    BY DEF Inv, AllHeld, Phases, Once, Closers, NoLeakWhileServing
  <1> QED BY <1>1, Invariance, PTL

(* After Close has returned and serve has ended, the files still open are  *)
(* those in the table, which a request entered there after Close emptied   *)
(* it: nothing else can leak, whichever of the two ended first.            *)
LeftInTable == serve = "exit" /\ once = "done" => opened \ closed = table

THEOREM OnlyLateHandlesLeak == Spec => []LeftInTable
  <1>1. Inv => LeftInTable
    BY DEF Inv, AllHeld, Phases, Once, Inside, Closers, LeftInTable
  <1> QED BY <1>1, Invariance, PTL

(* A caller that closeOnce keeps waiting, serve or vmBackend.Close, waits  *)
(* for the other one, which is inside and whose steps wait for nothing.    *)
OtherInside ==
  \A x \in Closers : MayClose(x) /\ once = "running" =>
    \E y \in Closers \ {x} : Inside(y)

THEOREM NobodyWaitsAlone == Spec => []OtherInside
  <1>1. Inv => OtherInside
    BY Zenon DEF Inv, Once, Inside, Closers, MayClose, OtherInside
  <1> QED BY <1>1, Invariance, PTL

-----------------------------------------------------------------------------
Waiting == guest \in {"pinging", "waiting"}

Handling == serve \in {"gc", "drop", "handle", "insert", "created", "release", "send"}

Quiet == toHost = <<>> /\ toGuest = <<>> /\ ~Handling

(* At most one request is under way, in one place, and it is the one asked *)
(* last.  Between calls nothing is under way unless the port has closed,   *)
(* and then nothing is sent any more.                                      *)
InFlight ==
  /\ \/ toHost = <<>>
     \/ toHost = <<asked>> /\ toGuest = <<>> /\ ~Handling
  /\ \/ toGuest = <<>>
     \/ toGuest = <<asked>> /\ toHost = <<>> /\ ~Handling
  /\ Handling => current = asked
  /\ ~Waiting /\ port # "after" => Quiet

(* What request() waits for exists: while the connection is up, a request  *)
(* without an answer is on its way to the server, with it, or its response *)
(* is on the way back.                                                     *)
NoneDropped ==
  Waiting /\ connUp => toHost = <<asked>> \/ Handling \/ toGuest = <<asked>>

\* Both sides learn of an end of the connection only when it is down.
EndsKnown == port = "after" \/ serve = "exit" => ~connUp

ServeType ==
  serve \in {"read", "gc", "drop", "handle", "insert", "created", "release", "send",
             "exit"}

SessionInv == ServeType /\ InFlight /\ AnswersMatch /\ NoneDropped /\ EndsKnown

-----------------------------------------------------------------------------
(* Every step of a session is one of the server's, or leaves it alone. *)
LEMMA StepOfServer ==
  ASSUME [SessionNext]_sessionVars
  PROVE  [Next]_vars
<1>1. CASE Attach \/ Detach
  BY <1>1, Zenon DEF Attach, Detach
<1>2. CASE Sandboxfs
  BY <1>2, Zenon
  DEF Sandboxfs, Ping, FuseRequest, WriteRequest, SendRequest, ReadResponse, ReadFails, Retry
<1>3. CASE Daemon
  BY <1>3, Zenon DEF Daemon, TakeRequest, HandleRequest, SendResponse, EndServe, Next, Serve
<1>4. CASE \E x \in Closers : CloseStep(x)
  BY <1>4, Zenon DEF CloseStep, Next
<1>5. CASE MachineEnds
  BY <1>5, Zenon DEF MachineEnds, Next
<1>6. CASE UNCHANGED sessionVars
  BY <1>6, Zenon DEF sessionVars
<1> QED BY <1>1, <1>2, <1>3, <1>4, <1>5, <1>6, Zenon DEF SessionNext

(* A mount that is used by sandboxfs over the port is served as FsrpcServer*)
(* says; what is proved of that module holds of it.                        *)
THEOREM SessionServes == SessionSpec => Spec
<1>1. SessionInit => Init
  BY Zenon DEF SessionInit
<1>2. [SessionNext]_sessionVars => [Next]_vars
  BY StepOfServer, Zenon
<1> QED BY <1>1, <1>2, PTL DEF SessionSpec, Spec

(* No file is closed twice and no closed file is found in the table,       *)
(* whatever guest, server and StopVM do in whatever order.                 *)
THEOREM SessionFiles == SessionSpec => []ClosedOnce
BY SessionServes, FilesClosedOnce, PTL

(* Nor does one leak before StopVM closes the mount, whatever the guest    *)
(* opens, releases or leaves open.                                         *)
THEOREM SessionKeepsFiles == SessionSpec => []NoLeakWhileServing
BY SessionServes, ServingKeepsFiles, PTL

-----------------------------------------------------------------------------
LEMMA InFlightStep ==
  ASSUME SessionInv, [SessionNext]_sessionVars
  PROVE  SessionInv'
<1> USE DEF SessionInv, ServeType, InFlight, AnswersMatch, Quiet, Handling, Waiting,
        NoneDropped, EndsKnown
<1>1. CASE Attach
  BY <1>1, Zenon DEF Attach, vars
<1>2. CASE Detach
  BY <1>2, Zenon DEF Detach, vars
<1>3. CASE Ping
  BY <1>3 DEF Ping, SendRequest, vars
<1>4. CASE WriteRequest
  BY <1>4 DEF WriteRequest, SendRequest, vars
<1>5. CASE ReadResponse
  <2>1. toGuest = <<asked>> /\ toHost = <<>> /\ ~Handling
    BY <1>5, Zenon DEF ReadResponse
  <2>2. Head(<<asked>>) = asked /\ Tail(<<asked>>) = <<>>
    OBVIOUS
  <2>3. /\ toGuest' = <<>> /\ answer' = [asked |-> asked, got |-> asked]
        /\ guest' = "mounted" \/ guest' = "writing"
    BY <1>5, <2>1, <2>2, Zenon DEF ReadResponse
  <2>4. UNCHANGED <<connUp, serve, port, toHost, asked, current>>
    BY <1>5, Zenon DEF ReadResponse, vars
  <2> QED BY <2>1, <2>3, <2>4
<1>6. CASE ReadFails
  <2>1. /\ port = "after"
        /\ UNCHANGED <<connUp, serve, port, toHost, toGuest, asked, current, answer>>
    BY <1>6, Zenon DEF ReadFails, vars
  <2> QED BY <2>1, Zenon
<1>7. CASE Retry
  BY <1>7, Zenon DEF Retry, vars
<1>8. CASE TakeRequest
  <2>1. toHost = <<asked>> /\ toGuest = <<>>
    BY <1>8, Zenon DEF TakeRequest
  <2>2. Head(<<asked>>) = asked /\ Tail(<<asked>>) = <<>>
    OBVIOUS
  <2>3. current' = asked /\ toHost' = <<>> /\ toGuest' = <<>>
    BY <1>8, <2>1, <2>2, Zenon DEF TakeRequest
  <2>4. Waiting \/ port = "after"
    BY <2>1, Zenon
  <2>5. /\ serve = "read" /\ serve' = "gc"
        /\ UNCHANGED <<connUp, port, guest, asked, answer>>
    BY <1>8, Zenon DEF TakeRequest, ReadRequest
  <2> QED BY <2>3, <2>4, <2>5, Zenon
<1>9. CASE HandleRequest
  <2>1. Handling /\ Handling' /\ connUp' = connUp
    BY <1>9, Zenon
    DEF HandleRequest, Collect, CloseCollected, OtherRequest, OpenFile,
                ReleaseHandle, StatFails, InsertHandle, CloseReleased
  <2>2. UNCHANGED <<port, toHost, toGuest, guest, asked, current, answer>>
    BY <1>9, Zenon DEF HandleRequest, clientVars
  <2> QED BY <2>1, <2>2, Zenon
<1>10. CASE SendResponse
  BY <1>10 DEF SendResponse, Respond
<1>11. CASE EndServe
  BY <1>11, Zenon DEF EndServe, ServeEnds, clientVars
<1>12. ASSUME NEW x \in Closers, CloseStep(x) PROVE SessionInv'
  <2>1. serve' = serve /\ (connUp' = connUp \/ connUp' = FALSE)
    BY <1>12, Zenon
    DEF CloseStep, Close, EnterClose, AlreadyClosed, TakeAll, CloseAll, CloseConn
  <2>2. UNCHANGED <<port, toHost, toGuest, guest, asked, current, answer>>
    BY <1>12, Zenon DEF CloseStep, clientVars
  <2>3. CASE connUp' = connUp
    BY <2>1, <2>2, <2>3, Zenon
  <2>4. CASE connUp' = FALSE
    BY <2>1, <2>2, <2>4, Zenon
  <2> QED BY <2>1, <2>3, <2>4, Zenon
<1>13. CASE MachineEnds
  BY <1>13, Zenon DEF MachineEnds, GuestGone, vars
<1>14. CASE FuseRequest
  BY <1>14, Zenon DEF FuseRequest, vars
<1>15. CASE UNCHANGED sessionVars
  BY <1>15, Zenon DEF sessionVars, vars, clientVars
<1> QED BY <1>1, <1>2, <1>3, <1>4, <1>5, <1>6, <1>7, <1>8, <1>9, <1>10, <1>11, <1>12,
           <1>13, <1>14, <1>15, Zenon DEF SessionNext, Sandboxfs, Daemon

LEMMA SessionInvariance == SessionSpec => []SessionInv
<1>1. SessionInit => SessionInv
  BY DEF SessionInit, Init, SessionInv, ServeType, InFlight, AnswersMatch, Quiet,
         Handling, Waiting, NoneDropped, EndsKnown
<1>2. SessionInv /\ [SessionNext]_sessionVars => SessionInv'
  BY InFlightStep, Zenon
<1> QED BY <1>1, <1>2, PTL DEF SessionSpec

(* Every call of request() returns the answer to its own request.          *)
THEOREM AnswersTheorem == SessionSpec => []AnswersMatch
<1>1. SessionInv => AnswersMatch
  BY Zenon DEF SessionInv
<1> QED BY <1>1, SessionInvariance, PTL

(* request() never waits on an open connection for an answer that nobody   *)
(* will send: neither the server nor the port drops its request.           *)
THEOREM RequestsKept == SessionSpec => []NoneDropped
<1>1. SessionInv => NoneDropped
  BY Zenon DEF SessionInv
<1> QED BY <1>1, SessionInvariance, PTL
=============================================================================
