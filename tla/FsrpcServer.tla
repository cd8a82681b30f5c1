----------------------------- MODULE FsrpcServer ------------------------------
(***************************************************************************)
(* fsrpcServer (daemon/fsrpc_server.go): the goroutine that serves one     *)
(* FS-RPC mount, and Close, which vmBackend.Close calls from StopVM and    *)
(* serve calls when it returns.  The module is about the host's file       *)
(* descriptors: the handle table is guarded by the mount's mutex, but      *)
(* files are opened before they enter it and closed after they leave it.   *)
(* Inodes and paths are in FsrpcMount.                                     *)
(***************************************************************************)
EXTENDS Naturals, FiniteSets

CONSTANT Files   \* the files that may be opened, each once

Closers == {"serve", "stop"}

VARIABLES
  connUp,   \* the connection to the guest is open
  serve,    \* where the serve goroutine is
  table,    \* fsrpcMount.handles: the files in it
  opened,   \* files the daemon has opened
  closed,   \* files it has closed
  twice,    \* history: files closed a second time
  hand,     \* files each goroutine holds outside the table
  once,     \* closeOnce: "new", "running" or "done"
  closer    \* how far each goroutine is in Close

vars == <<connUp, serve, table, opened, closed, twice, hand, once, closer>>

TypeOK ==
  /\ connUp \in BOOLEAN
  /\ serve \in {"read", "gc", "drop", "handle", "insert", "created", "release", "send", "exit"}
  /\ opened \subseteq Files
  /\ table \subseteq opened /\ closed \subseteq opened /\ twice \subseteq closed
  /\ hand \in [Closers -> SUBSET opened]
  /\ once \in {"new", "running", "done"}
  /\ closer \in [Closers -> {"out", "take", "files", "conn", "done"}]

Init ==
  /\ connUp = TRUE
  /\ serve = "read"
  /\ table = {} /\ opened = {} /\ closed = {} /\ twice = {}
  /\ hand = [x \in Closers |-> {}]
  /\ once = "new"
  /\ closer = [x \in Closers |-> "out"]

\* handle.file.Close for all that x holds.
CloseHand(x) ==
  /\ closed' = closed \cup hand[x]
  /\ twice' = twice \cup (hand[x] \cap closed)
  /\ hand' = [hand EXCEPT ![x] = {}]

\* Entries leave the table, under the mutex, into x's hand.
Take(x, S) ==
  /\ table' = table \ S
  /\ hand' = [hand EXCEPT ![x] = S]

-----------------------------------------------------------------------------
(* serve: a request is read.  Some may have arrived before the connection  *)
(* was closed and be read from the buffer after it.                        *)
ReadRequest ==
  /\ serve = "read"
  /\ serve' = "gc"
  /\ UNCHANGED <<connUp, table, opened, closed, twice, hand, once, closer>>

\* maybeGC: idle and surplus handles are taken out of the table ...
Collect ==
  /\ serve = "gc"
  /\ \E S \in SUBSET table : Take("serve", S)
  /\ serve' = "drop"
  /\ UNCHANGED <<connUp, opened, closed, twice, once, closer>>

\* ... and closed after the unlock.
CloseCollected ==
  /\ serve = "drop"
  /\ CloseHand("serve")
  /\ serve' = "handle"
  /\ UNCHANGED <<connUp, table, opened, once, closer>>

\* handleOpen, handleCreate: os.OpenFile ...
OpenFile(f) ==
  /\ serve = "handle"
  /\ f \notin opened
  /\ opened' = opened \cup {f}
  /\ hand' = [hand EXCEPT !["serve"] = {f}]
  /\ serve' \in {"insert", "created"}
  /\ UNCHANGED <<connUp, table, closed, twice, once, closer>>

\* Mutant: the file is not closed.
StatFailsLeaks ==
  /\ serve = "created"
  /\ hand' = [hand EXCEPT !["serve"] = {}]
  /\ serve' = "send"
  /\ UNCHANGED <<connUp, table, opened, closed, twice, once, closer>>

\* handleCreate: Stat fails after the open; the file is closed again.
StatFails ==
  /\ serve = "created"
  /\ CloseHand("serve")
  /\ serve' = "send"
  /\ UNCHANGED <<connUp, table, opened, once, closer>>

\* ... and, under the mutex, the new entry in the table.
InsertHandle ==
  /\ serve \in {"insert", "created"}
  /\ table' = table \cup hand["serve"]
  /\ hand' = [hand EXCEPT !["serve"] = {}]
  /\ serve' = "send"
  /\ UNCHANGED <<connUp, opened, closed, twice, once, closer>>

\* handleRelease: closeHandle takes the entry ...
ReleaseHandle(f) ==
  /\ serve = "handle"
  /\ f \in table
  /\ Take("serve", {f})
  /\ serve' = "release"
  /\ UNCHANGED <<connUp, opened, closed, twice, once, closer>>

\* ... and closes the file after the unlock.
CloseReleased ==
  /\ serve = "release"
  /\ CloseHand("serve")
  /\ serve' = "send"
  /\ UNCHANGED <<connUp, table, opened, once, closer>>

\* Any other request, and any that fails.
OtherRequest ==
  /\ serve = "handle"
  /\ serve' = "send"
  /\ UNCHANGED <<connUp, table, opened, closed, twice, hand, once, closer>>

\* sendResponse
Respond ==
  /\ serve = "send"
  /\ connUp
  /\ serve' = "read"
  /\ UNCHANGED <<connUp, table, opened, closed, twice, hand, once, closer>>

\* The response cannot be sent, or no request can be read or decoded.
ServeEnds ==
  /\ \/ serve = "send" /\ ~connUp
     \/ serve = "read"
  /\ serve' = "exit"
  /\ UNCHANGED <<connUp, table, opened, closed, twice, hand, once, closer>>

-----------------------------------------------------------------------------
(* Close by x: vmBackend.Close at any time, serve as its last act.  One of *)
(* them runs the body of closeOnce and the other waits for it.             *)
MayClose(x) == closer[x] = "out" /\ (x = "serve" => serve = "exit")

EnterClose(x) ==
  /\ MayClose(x)
  /\ once = "new"
  /\ once' = "running"
  /\ closer' = [closer EXCEPT ![x] = "take"]
  /\ UNCHANGED <<connUp, serve, table, opened, closed, twice, hand>>

AlreadyClosed(x) ==
  /\ MayClose(x)
  /\ once = "done"
  /\ closer' = [closer EXCEPT ![x] = "done"]
  /\ UNCHANGED <<connUp, serve, table, opened, closed, twice, hand, once>>

\* Mutant: close walks the table without deleting the entries.
TakeAllKeeps(x) ==
  /\ closer[x] = "take"
  /\ hand' = [hand EXCEPT ![x] = table]
  /\ closer' = [closer EXCEPT ![x] = "files"]
  /\ UNCHANGED <<connUp, serve, table, opened, closed, twice, once>>

\* fsrpcMount.close, under the mutex.
TakeAll(x) ==
  /\ closer[x] = "take"
  /\ Take(x, table)
  /\ closer' = [closer EXCEPT ![x] = "files"]
  /\ UNCHANGED <<connUp, serve, opened, closed, twice, once>>

\* fsrpcMount.close, after the unlock.
CloseAll(x) ==
  /\ closer[x] = "files"
  /\ CloseHand(x)
  /\ closer' = [closer EXCEPT ![x] = "conn"]
  /\ UNCHANGED <<connUp, serve, table, opened, once>>

\* Mutant: a flag that is never reset in place of closeOnce.
CloseNeverDone(x) ==
  /\ closer[x] = "conn"
  /\ connUp' = FALSE
  /\ closer' = [closer EXCEPT ![x] = "done"]
  /\ UNCHANGED <<serve, table, opened, closed, twice, hand, once>>

\* Then the connection is closed, and closeOnce is done.
CloseConn(x) ==
  /\ closer[x] = "conn"
  /\ connUp' = FALSE
  /\ once' = "done"
  /\ closer' = [closer EXCEPT ![x] = "done"]
  /\ UNCHANGED <<serve, table, opened, closed, twice, hand>>

Close(x) == EnterClose(x) \/ AlreadyClosed(x) \/ TakeAll(x) \/ CloseAll(x) \/ CloseConn(x)

Serve ==
  \/ ReadRequest \/ Collect \/ CloseCollected
  \/ (\E f \in Files : OpenFile(f) \/ ReleaseHandle(f))
  \/ StatFails \/ InsertHandle \/ CloseReleased \/ OtherRequest
  \/ Respond \/ ServeEnds

\* QEMU goes away: the guest's end of the connection is closed.
GuestGone ==
  /\ connUp
  /\ connUp' = FALSE
  /\ UNCHANGED <<serve, table, opened, closed, twice, hand, once, closer>>

Next == Serve \/ GuestGone \/ \E x \in Closers : Close(x)

Spec == Init /\ [][Next]_vars

(* Go schedules both goroutines.  Requests read from the buffer after the  *)
(* connection is closed are finitely many, so serve meets its end.         *)
FairSpec ==
  /\ Spec
  /\ WF_vars(Serve)
  /\ SF_vars(~connUp /\ ServeEnds)
  /\ WF_vars(Close("serve"))
  /\ WF_vars(closer["stop"] # "out" /\ Close("stop"))

-----------------------------------------------------------------------------
(* A handle in the table is open: maybeGC, release and Close take an entry *)
(* out under the mutex before they close its file, so a request never      *)
(* finds a closed one.                                                     *)
TableOpen == table \cap closed = {}
NeverTwice == twice = {}

(* A file is closed once and not while the table still offers it, although *)
(* the collector, release and both callers of Close close files outside    *)
(* the mutex: a file is in one hand only.                                  *)
ClosedOnce == TableOpen /\ NeverTwice

(* Until Close has emptied the table, every open file is in the table or   *)
(* in the hands of the goroutine about to close it or enter it: nothing    *)
(* leaks while the mount is served.                                        *)
NoLeakWhileServing ==
  once = "new" => opened \ closed = table \cup hand["serve"]

(* After the connection is down, serve returns and its Close with it:      *)
(* closeOnce makes neither caller wait for ever.                           *)
CloseReturns ==
  /\ ~connUp ~> closer["serve"] = "done"
  /\ closer["stop"] # "out" ~> closer["stop"] = "done"
=============================================================================
