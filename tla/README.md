# Klitka in TLA+

Klitka runs commands in small virtual machines. A Go daemon starts one QEMU
process per machine and talks to an agent in the guest over a virtio serial
port. Clients (the TypeScript SDK and the Go CLI) reach the daemon by RPC. A
machine's traffic passes a proxy in the daemon, its shared directories an
FS-RPC server. This directory models the parts of that system where goroutines,
processes or messages meet, checks them with TLC, and proves with TLAPS, for
every value of the constants, much of what was checked.

Every definition is translated from the source; `PROJECT.json` gives, for each,
the file and lines it stands for.

## Inventory

| Part | Source | State | Operations | Module |
|---|---|---|---|---|
| virtio exec client | `daemon/virtio.go` | `nextID`, `reqs`, the channels of each request | startExec, sendStdin, sendResize, readLoop, dispatch, broadcastError, Close | `VirtioClient` |
| VM backend, calls | `daemon/vm_backend.go` | the select loops of Exec and ExecStream, the input goroutine | Exec, ExecStream | `VirtioClient` |
| port | `guest/src/protocol.zig`, QEMU chardev | frames in each direction, the connection | write and read of a frame | `VirtioPort` |
| guest agent | `guest/src/main.zig` | the one running command: its stdin, output, exit | main, handleExec, handleStdin | `Sandboxd` |
| host backend, calls | `daemon/vm.go`, `daemon/exec_helpers.go` | the command, its pipes or terminal, readers, input goroutine | Exec, ExecStream | `HostStream` |
| what a backend promises | `daemon/backend.go` | calls, their output, their results | begin, print, end, receive, return, fail | `ExecBackend` |
| VM backend, life | `daemon/vm_backend.go` | temp dir, listener, QEMU, virtiofsd processes, FS-RPC servers | newVMBackend, Close | `VmLifecycle` |
| service | `daemon/service.go`, `daemon/backend.go` | table of machines | StartVM, StopVM, backend choice; Exec, ExecStream | `VmLifecycle`, `ClientSession` |
| network manager | `daemon/network.go`, `daemon/strict_transport_darwin.go` | proxy, packet-filter anchors, `sync.Once` | newNetworkManager, Close, the clean-up of stale anchors | `VmLifecycle`, `SharedNetwork` |
| egress proxy | `daemon/network.go` | policy, names, connections, idle upstream connections | enforceHost, dialContext, plain requests, tunnels, Close | `EgressProxy` |
| TLS interception | `daemon/mitm.go` | CA files; intercepted connections | loadOrCreateCA, createMitmMount; serveMitm | `SharedNetwork`, `EgressProxy` |
| secrets | `daemon/secrets.go` | patterns of hosts | which request gets which value | `EgressProxy` |
| FS-RPC mount | `daemon/fsrpc_server.go` | inode tables, handle table, host tree | the twelve operations, both collectors, close | `FsrpcMount` |
| FS-RPC server | `daemon/fsrpc_server.go` | open files, who holds them, `closeOnce` | serve, maybeGC, Close | `FsrpcServer` |
| guest FS client | `guest/src/fs_rpc.zig`, `sandboxfs.zig` | request ids, the request under way | ping loop, request, FUSE loop | `FsrpcSession` |
| CLI, SDK | `cli/main.go`, `sdk/src/client.ts` | a session: calls, stream, output queue, exit promise | start, exec, shell, close, stop | `ClientSession` |
| daemon process | `cmd/klitka-daemon/main.go` | up or not | its end, a restart | `SharedNetwork`, `ClientSession` |

How they interact. An RPC call registers a request in `virtioClient.reqs`,
writes an `exec_request` to the port and waits in a select over the request's
three channels. One goroutine, `readLoop`, reads every frame of the machine and
dispatches it by request id. In the guest, `sandboxd` takes one command at a
time; while that command's stdin is open it also reads every frame that comes
and treats it as input. On the host backend a command is a child of the daemon,
with one goroutine per output. StopVM removes the machine from the table, then
closes the client, the FS-RPC servers, QEMU, virtiofsd, the directory and at
last the network. FS-RPC servers run one `serve` goroutine per mount; StopVM
calls their Close from another goroutine. The proxy serves each connection of
the guest in its own goroutine, and machines share the CA's files and the packet
filter with each other and with the next daemon.

What is hard here: `dispatch` and StopVM on the same channels; the order in
which a select takes output and exit; ids that wrap; several clients on a guest
that reads one stream of frames; a guest, a client or a daemon that dies at any
time; a start with a dozen steps that must be undone; timeouts that give up on
QEMU; open files that four code paths may close; inode tables over renames,
collections and a host tree that others change; answers that are matched by
order and not by id; names that resolve differently between the check and the
connection; files and filter rules that several machines write. `PROJECT.json`
lists these as hazards, each with the line where it bites and the properties
that cover it.

## Modules

**`VirtioPort`**: the serial port as two sequences of frames; the one to the
daemon is bounded (`WireCap`), the other only by what calls send. A frame
is a record with its kind, the request id and what the code reads from it; CBOR
and the length prefix are left out. `HostWrite` is `sendMessage`, `GuestWrite`
the guest's `FrameWriter`. When QEMU dies, what it had not passed on is lost.

**`Sandboxd`**: `main` and `handleExec` of the guest agent. `job` is empty in
the main loop and holds the running command in handleExec. One action for each
thing the loop does: start a command or fail to, relay output (not when the
writer is full), note the end of the output, the exit, take an input frame,
answer. `HandleStdin` takes any frame, as the code does; the write to the
command may fail.

**`VirtioClient`**: the daemon's end with the calls that use it. `reqs`, the
channels (`output` of capacity `OutputCap`, `exit` and `err` of capacity one)
and `nextID` (modulo `IdSpace`) are as in the code. `Lookup` is what dispatch
does under `mu`, `DeliverOutput`, `DeliverResult` and `CloseChannels` what it
does after it. `CloseRequests` and `CloseConn` are the two halves of Close. A
send to a closed channel, or a second close, sets `panicked`, and the daemon
stops.

**`VmExec`** composes the three. `Events` selects which of StopVM,
cancellation, death of QEMU and failure of handleExec a run considers.

**`HostStream`**: one call on the host backend, which shares nothing with other
calls. `main` is where the handler is, `reader` where the goroutine of each
output is; chunks are numbered in the order printed. `Wait` closes the pipes, so
readers may lose the end of the output. A child may outlive the command and keep
its pipes open.

**`ExecBackend`**: what both backends promise. A call returns once; what it has
received is a part, in order and without repetition, of what its own command
printed; a returned exit code is the command's. Output may be lost and a call
may fail. `VmExec` and `HostStream` each have a mapping `Backend` to it, and
`ImplementsBackend` is its specification under that mapping.

**`FsrpcMount`**: one mount with its host tree. A path is a sequence of names, a
file an object number, so that "the same file" can be said. Every request runs
`maybeGC` first, as `handle` does, and then one handler with its early returns.
Host programs may create and remove files (`HostStep`). `orderly`, chosen once,
says that they do not and that the guest renames only what it has looked up, as
the FUSE kernel does.

**`FsrpcServer`**: the same server seen from its goroutines. Here the subject is
the files: which are opened, in the table, in a goroutine's hand, closed. Each
locked section is one action, and files are closed outside it.

**`FsrpcSession`** composes it with sandboxfs and the port: the ping loop, one
FUSE request at a time, which becomes one FS-RPC request or, for a setattr, two,
and a client that compares neither id nor operation of the answer it reads.

**`VmLifecycle`**: a machine from StartVM to StopVM. `held` is the set of
resources a machine has (proxy, anchor, directory, listener, connection, host
root), `fsds` and `rpcs` count its virtiofsd processes and FS-RPC servers, and
`start`, `closing` and `stop` say where the three procedures are. Every step
that may fail has its failing action, with the cleanup the code does there.

**`SharedNetwork`**: starts that run side by side, and the daemons after each
other, on what they share: the two CA files (`Absent`, `Torn` while being
written, or of some start) and the anchors, with the clean-up under `sync.Once`.

**`EgressProxy`**: the connections of one machine. `pc` goes from the arrival of
a request over the check (`Refuse`, `Pass`) to the request upstream
(`RoundTrip`) or a tunnel (`Dial`, two copiers that read and write in turn). A
connection may bring several requests, intercepted or not: http.Server keeps it
after an answer ("keep"). `ChangeZone` changes what a name resolves to between
any two steps; `pool` has the idle upstream connections that are used again.
`CheckHost`, `MatchHost` and `LookupIPs` are the pure functions of the
policy.

**`ClientSession`**: clients (klitka exec, klitka shell, a program with the SDK)
against the four handlers of the service. `rpc` is the call a client waits for,
`stream` the messages on their way, `queue` and `settled` the SDK's output queue
and exit promise. Another process may stop the machine, a client may be killed,
the daemon may end.

**`VmExecProofs`**, **`HostStreamProofs`**, **`FsrpcSessionProofs`** (server and
session), **`FsrpcMountProofs`**, **`VmLifecycleProofs`**,
**`SharedNetworkProofs`**, **`EgressProxyProofs`** and **`ClientSessionProofs`**
hold the theorems. **`MCFsrpcMount`**, **`MCVmLifecycle`** and
**`MCEgressProxy`** define constants of the runs.

Definitions marked "Mutant" are faulty variants of the definition that follows
them. No specification uses them. They show that a property notices the fault:
each property of each passing run is violated when its mutant takes the place
of the original.

## Runs

### Passing

| Run | Instance | What it shows |
|---|---|---|
| `MCExecSafety` | an Exec and an ExecStream, ids modulo 2, 2 chunks into channels of 1; StopVM, cancellation, death, failing commands | answers go to their own call and in order (`OwnOutput`); no channel is closed twice or gets a result when closed (`ChannelOwnership`); a waiting call can be woken (`WaitersReachable`); the read loop does not block (`ReaderNeverBlocks`); a request is answered once, last (`AnswerIsLast`) |
| `MCExecLive` | an Exec and a terminal session, ids modulo 2, 2 exit codes; death, cancellation; fair | the VM backend implements `ExecBackend` (`ImplementsBackend`); an Exec that runs alone returns (`ExecReturns`); the death of QEMU wakes every call (`DeathWakesCalls`) |
| `MCHostStream` | an Exec, or an ExecStream over pipes or a terminal, 2 chunks, 2 inputs, 2 exit codes, a child that outlives the command; fair | the host backend implements `ExecBackend`; a client sees a prefix of each output (`PrefixReceived`), Exec all of it (`ExecComplete`); nothing outlives the call (`NothingLeft`); it returns (`CallReturns`) |
| `MCMount` | 2 names and `..`, depth 2, 3 inodes with a limit of 1, handle numbers modulo 3, 1 handle allowed; both modes; the guest alone, or with a host that creates and removes and a guest that renames what it never looked up | the two tables stay inverse and the root keeps its inode (`TablesInverse`), an open file's inode goes only with a change of its path (`OpenInodesKept`), handles stay distinct (`HandlesDistinct`), a read-only mount changes nothing (`ReadOnlyMount`); where the guest is `orderly`, inode numbers keep naming the same file (`InodeIdentity`) |
| `MCServer` | 3 files, ids up to 3; StopVM and the guest's end at any time; fair | `ClosedOnce`, `NoLeakWhileServing`, `CloseReturns`; every answer is the one to the request sent (`AnswersMatch`); a request that was written gets an answer, or sandboxfs ends, and one not yet written waits at most for the end of the machine (`AnswerOrEnd`) |
| `MCLifecycle` | 1 machine, every request with up to 2 mounts, every mode, 2 StopVMs, macOS; fair | `EnforcedWhileRunning`, `FailedStartLeavesNothing`, `StopLeavesNothing`, `TableComplete`, `CallsReturn` |
| `MCEgress` | 1 connection, 2 requests, plain or intercepted, CONNECTs apart, 3 policies, a secret, 1 name that changes any number of times; fair | what goes upstream is what the policy lets through (`PolicyHolds`), reaches a private address only through a name that has changed (`PrivateOnlyByChange`), carries the right secrets (`SecretsExact`), keeps to strict and synthetic modes (`ModesKept`); connections end unless a peer never reads or never answers (`TrafficEnds`) |
| `MCSharedNetwork` | 3 starts, 1 restart of the daemon at any step | `CaAgrees`, `RulesKept`, `StaleRulesGone` |
| `MCClient` | 1 client of each kind, 3 prints; fair | a client that ends by itself leaves no machine, a shell whose first message failed apart (`NoMachineLeft`); `NoFalseSuccess`, `OutputComplete`, `ClientEnds` |

### Where code and documentation disagree

Each of these runs (properties `StopLeavesDaemonUp`, `ClientsShareMachine`
and `PrivateNever`) checks one sentence of the documentation or of a test, and TLC
finds an execution of the code's model that breaks it.

| Run | Sentence | What happens |
|---|---|---|
| `MCStopPanic` | "vm B should continue working after vm A stop" (`tests/e2e_strict_concurrency_test.go:105`) | dispatch sends output to a channel that StopVM has just closed: a panic, in the process all machines share |
| `MCTwoClients` | "allows multiple SDK clients to connect to the same environments" (`README.md:5`) | the request of one client is read as input of another's session and lost |
| `MCDnsGuard` | "Prevents DNS rebinding attacks by resolving and verifying IP addresses on the host" (`README.md:16`) | enforceHost verifies the addresses of one lookup, dialContext connects to those of a second; the name changed in between. `PrivateOnlyByChange` is what does hold |

`ChannelOwnership` holds although `MCStopPanic` fails: only the send of output,
outside `mu`, can meet a closed channel.

The models show more of this kind that no run states. They are the conditions
under which the properties above hold, or the remainders they allow:

* The select of collectExecOutput and ExecStream may take the exit code while
  output is still buffered (`spec.md:159`: "`exec` returns buffered output");
  `ExecBackend` lets output be lost.
* A call that waits while its machine is stopped receives from closed channels
  for ever (`spec.md:330`: "All IPC calls return typed errors"). `ExecReturns`
  and `ClientEnds` do not cover it.
* An open in progress enters its file after Close has emptied the table
  (`fs-rpc.md:130`: "No lingering host FDs after VM stop."); Go's finalizer may
  close the file later, the daemon does not.
* The machine of a client that was killed stays in the table (`README.md:5`:
  "ensures resources are cleaned up even if the parent application crashes"), as
  does that of a shell whose first message failed (`cli/main.go:233`), and one
  whose QEMU has died. Machines of a daemon that ended run on; the next one
  removes their filter rules as stale, and `RulesKept` does not cover them.
* A tunnel is held for as long as a peer neither reads nor closes, and a request
  for as long as a server does not answer: the proxy sets no deadline.
  `TrafficEnds` has both as conditions.
* A setattr whose second request is not yet written when the mount is closed
  waits until the machine has ended.
* Two creations of the CA that overlap may leave a certificate and a key of
  different pairs; `CaAgrees` speaks of the others.
* The host backend cannot remove its own read-only copies and drops the error.
* The process of a cancelled stream goes on in the guest, and late input of an
  ended session ends the stdin of the next.

### Bounds, and why they are enough

* *Calls*: two. Every property is about one call, or one call against another,
  the read loop and StopVM. On the host backend calls share nothing: one.
* `IdSpace` 2 makes ids wrap after one request and pass through 0; the code's
  is 2^32. With as many calls as ids, no two calls in progress share an id; a
  collision needs 2^32 requests during one call (`FreshIds` in the proofs).
  `MaxId` 3 does the same for FS-RPC.
* `OutputCap` 1 (32 in the code) with `MaxOut` 2 makes output overflow.
  `WireCap` bounds the frames on their way to the daemon (256 KiB in the code).
  In `MCExecLive`, with two exit codes, a command prints once; the order of
  chunks is in `MCExecSafety` and in the theorems.
* *Mount*: `MaxIno` and `MaxObj` bound what is ever numbered; `MaxInodes` and
  `MaxHandles` are below it so that both collectors run; `LastFH` makes handle
  numbers wrap. One run has the guest with and without company. Depth 2 is needed to rename a directory with known entries.
* *Machines*: in `VmLifecycle` they share only the table and the mode, so one
  machine shows all a machine does. In `SharedNetwork` three starts let one be
  in the clean-up, one wait for it and one run. The theorems are for any number.
* *Proxy*: connections share only the idle pool and the names, and one
  connection with two requests uses what its first request left there.
  `MaxChanging` 1 lets one name change, as often as it may. The
  theorems are for any number of connections, policies and names.
* *Clients*: they share the daemon only through its end; the theorems are for
  any number.

`CHECK_DEADLOCK FALSE` stands where everything may be finished: all calls
returned, the machine stopped, the client gone. Mounts serve for ever, and there
deadlock is checked.

### Fairness

Weak fairness for the goroutines of the daemon (Go schedules every goroutine
that can run) and for the loop of sandboxd (which polls at least every 100 ms).
A guest process is assumed to end only after it has met the end of its input,
and its output to end only after the process. Clients owe nothing: no call, no
input, no end of input. QEMU need not react to signals; the waits on it have
timeouts, which is what `CallsReturn` rests on; pfctl and the other short
commands of the host are run without one, and are assumed to end. In `FsrpcServer` the end of
`serve` has strong fairness once the connection is down, because the requests
still in its buffer are finitely many; in `FsrpcSession` the guest's process is
scheduled and its driver hears of the connection and of its end.

On the host, os/exec kills a command whose context has ended, and a client reads
what it is sent or leaves. Nothing is assumed of a command whose input is open
or of a child that outlives it. In `EgressProxy` lookups and dials have
timeouts; nothing is assumed of guests and servers, which need neither answer,
read nor close, and `TrafficEnds` says of whom something is needed. In `ClientSession` a
command ends as long as its machine is in the table, and nothing is assumed of
it once another has stopped the machine under it.

## Proofs

TLAPS checks every theorem with the SMT, Zenon and LS4 backends. The only
assumptions are those of the modules on their constants: sizes are natural
numbers, `IdSpace` is positive, the sets of calls do not overlap, requests are
requests, patterns and addresses are such, and the host's tree is a tree
(`TreeAssumption`: directories above what exists, no hard links). Some results
have a hypothesis of their own, named below. `TypeCorrect` in `VmExecProofs`,
`FsrpcSessionProofs` and `VmLifecycleProofs` gives the types; the other
invariants below include them.

* `VmExecProofs!ChannelsOwned`: `ChannelOwnership`. It is not inductive by
  itself. `Ownership` adds `Entries` (a request in `reqs` has open channels and
  is the request of the call it is filed under) and `InHand` (a request in
  dispatch's hand with a final message is no longer in `reqs`, and its channels
  are open until dispatch closes them). Whoever removes an entry under `mu` is
  then the only one to close it.
* `VmExecProofs!ReaderGoesOn`: `ReaderNeverBlocks`, from `Ownership` and `Room`:
  a call that is in `reqs`, or has not begun, has nothing in its result
  channels. Taking the entry out of `reqs` is what entitles dispatch to its one
  send.
* `VmExecProofs!NoneForgotten`: `WaitersReachable`, under `FreshIds`: the id
  startExec is about to give has no entry and belongs to no call that is yet to
  send. `Waiting` adds that the entry at the id of such a call is its own or
  none, because SendRequestFails deletes by id. `FreshIds` holds in every state
  of `MCExecSafety`'s instance, and is false where there are fewer ids than
  calls.
* `VmExecProofs!OwnOutputTheorem` (`OwnOutput`), `AnswerTheorem`
  (`AnswerIsLast`), `ReachableTheorem` (`WaitersReachable` without `FreshIds`)
  and `RefinementTheorem` (`ImplementsBackend`), under `FewCalls`: a machine has
  at most `IdSpace` calls in its life, 2^32 in the code. Beyond that the code
  gives ids twice, and the output of two calls may mix; nothing else is assumed,
  and `MCExecSafety` and `MCExecLive` are instances where ids do wrap to 0.
  The argument follows a command's id around. `FewIds` counts the calls begun, so
  that startExec gives every id once (`UnusedIds`) and 0, where the counter
  starts, last (`ZeroLast`). On that, `OneCallPerId` is inductive; its parts are
  `Ownership` and four more. `Identified`: an id is one call's, and its
  exec_request is in one place, the port or sandboxd's hand. `Answered`: an answer is on the port only when its command is over, carries its code, and
  no frame of its id follows. `Routed`: what dispatch and the channels hold for a
  call bears its id, although dispatch works on an entry it took earlier, outside
  `mu`. `Ordered`: chunks of an id are ascending from the call's own buffer over
  its channel and dispatch to the port, and none is ahead of what was printed.
  For the refinement `Untouched` adds that nothing is printed under an id before
  its request is sent; then registering a call, a print, an end, a receive, a
  return and a failure are the steps of `ExecBackend`, and all others stutter.
* `VmExecProofs!OnlyStopPanics` and `UpWithoutStop`, for any calls and ids: the
  other side of the finding of `MCStopPanic`. `Intact` says that until Close
  begins dispatch has nothing in hand for closed channels; with
  `ChannelOwnership` the one misuse left is output sent after Close has closed
  its channels. Where nobody stops the machine `StopLeavesDaemonUp` holds.
* `VmExecProofs!StrandedTheorem` and `NothingLostTheorem`, under `FewCalls`: what
  `DeathWakesCalls` and `ExecReturns` need of the state. `Informed`: dispatch
  closes the channels of a call only when it has told it. `Farewell`: once
  readLoop has returned nothing can be written, and who waits has been told, also
  a call that registered while readLoop was on its way out. `Tracked`: on a
  running machine without sessions the request of a call in `reqs` is on the
  port, in sandboxd's hand or answered. With a session it is false, which is the
  finding of `MCTwoClients`.
* `HostStreamProofs!PrefixTheorem`, `NothingLeftTheorem`, `ExecCompleteTheorem`,
  from `HandlerInv` (what the handler's step says of the command and its
  readers), `ChunkInv` (what a reader has taken, holds and has sent) and
  `ExecInv` (a copying goroutine of Exec ends only when nothing more can be
  printed).
* `HostStreamProofs!RefinementTheorem`: `ImplementsBackend`. Initial states map
  to initial states, and each step to a step of `ExecBackend` or to a stutter:
  Call begins, Prints prints, a process that ends ends, SendChunk is a receive,
  SendExit returns, all others leave the mapped state alone.
* `HostStreamProofs!NotStuckTheorem` and `DrainTheorem`: what `CallReturns` needs
  of the state. Once the command has ended (for Exec and terminals, its children
  too) the handler can go on, or all the readers it waits for can; `JoinInv` adds
  that the outputs are closed before the handler waits. Each step of a reader
  lowers `LeftToRead`, the chunks not taken and the place in its loop, and
  nothing raises it during the wait.
* `FsrpcSessionProofs!FilesClosedOnce` (`ClosedOnce`) and `ServingKeepsFiles`
  (`NoLeakWhileServing`). `Hands` says that the table and the hands of the two
  goroutines are disjoint and hold no closed file, `Phases` when a hand may hold
  files at all, `Once` that one goroutine at most is inside `closeOnce`.
  `SessionServes` shows that a session is a behaviour of the server, so the
  session has these too (`SessionFiles`, `SessionKeepsFiles`).
* `FsrpcSessionProofs!OnlyLateHandlesLeak`: when serve and Close have ended, the
  open files are those in the table, which a request entered after Close had
  emptied it. `AllHeld` is the invariant: an open file is in the table or in a
  hand. This bounds what the remainder outside `NoLeakWhileServing` can be.
* `FsrpcSessionProofs!NobodyWaitsAlone` and `RequestsKept`: what `CloseReturns`
  and `AnswerOrEnd` need of the state. Who waits for `closeOnce` waits for
  another who is inside; a request without an answer is on the connection or
  with the server as long as the connection is up.
* `FsrpcSessionProofs!AnswersTheorem`: `AnswersMatch`, from `InFlight`: at most
  one request is under way, in one place, and it is the one asked last.
* `FsrpcMountProofs!TablesTheorem` (`TablesInverse`), `HandlesTheorem`
  (`HandlesDistinct`), `ReadOnlyTheorem` (`ReadOnlyMount`) and
  `OpenInodesTheorem` (`OpenInodesKept`), for any tree, depth, names, limits and
  flags, with the host changing the tree at will. The invariant `Inv` is `Sound`
  of the tables (inverse to each other, numbers below `nextIno`, the root at 1),
  `Distinct` of the handles, `WellFormed` of the tree (directories above what
  exists, one path per file) and that a read-only mount has only read. Every helper
  of the source has its lemma: ensureInode, removePathMappingLocked, remapPath
  over a whole directory, and both collectors keep it.
* `FsrpcMountProofs!IdentityTheorem`: `InodeIdentity`, when the host leaves the
  tree alone and the guest renames only names it has looked up (`orderly`).
  Without either it is false:
  ensureInode goes by path, and remapPath moves only what the tables know.
  `Identity` adds that mapped paths exist, so that a name that is made has no
  number yet, and that handles are on numbers already given.
* `VmLifecycleProofs!PolicyEnforced`: `EnforcedWhileRunning`. `NetworkKept` says
  that the network is up from the end of newNetworkManager until StartVM fails
  or the machine's backend is closed; `QemuPhases` that QEMU runs only between
  its start and the end of Close's first wait; `StopsStarted` that StopVM only
  ever has a machine that was started.
* `VmLifecycleProofs!FailuresUndone`, `StopsComplete`, `TableTheorem` and
  `StrictNeverOnHost`. What a failed start or a stop leaves is not inductive: it
  needs what is held at every step before. `Footprint` says it, machine by
  machine, by the place of StartVM and Close; `StopOwns` says that one StopVM at
  most has a machine. A step of one machine's calls leaves the footprint of the
  others alone (`OthersSame`, `SameFootprint`).
* `VmLifecycleProofs!CallsAdvance` and `NeverBlocked`: what `CallsReturn` needs of
  the state. `StartLeft`, `CloseLeft` and `ServersLeft`, in this order, measure
  what is left of a StartVM, a Close and the machine's file servers. Every step
  of the daemon for a machine lowers the measure, and only the StopVM that takes
  the machine from the table raises it, once; `Bounded` keeps the last part a
  natural number. So no fallback or retry can loop.
* `SharedNetworkProofs!RulesTheorem`, `StaleTheorem` and `CaTheorem`. `Filter`:
  one start at most is in the clean-up, inside Once. `Loaded`: nobody gets past
  Once before the clean-up has ended well. `Swept`: until then an earlier
  daemon's anchor is on the list to flush. `Files`: the key file is made last
  and by the start that made the certificate.
* `SharedNetworkProofs!OnceTheorem` and `CaPermanent`: a start that waits in Once
  waits for one that is in the clean-up, also after failures and restarts; and a
  CA whose key is on disk is never written again, unless two creations have
  overlapped.
* `EgressProxyProofs!PolicyTheorem`, `PrivateTheorem` (`PrivateOnlyByChange`),
  `SecretsTheorem` and `ModesTheorem`. `Cleared` says what a connection about to
  send has behind it, although names and other connections move on in between;
  with `Vetted`, that a name which has not changed since has public addresses
  only. `PoolSound` says what is known of the idle connections it may use. That
  matchHost computes what `PolicyHolds` says of a pattern is part of the first.
* `EgressProxyProofs!TunnelTheorem` and `StoppedTheorem`: what `TrafficEnds`
  needs of the state, from `EndsOf`: both goroutines of a tunnel run, or one has
  ended and closed both sides. So when a side has ended a goroutine can end, or
  is caught writing what it read there; and after Stop every step of a
  connection lowers its place, what its goroutines have left or its open side.
* `ClientSessionProofs!MachineTheorem` (`NoMachineLeft`, with the shell that
  never began as its one exception) and `SuccessTheorem`
  (`NoFalseSuccess`). `Table` says which call is at the daemon at each place and
  what an answer means for the table; `Results` and `Travelling` that an exit
  message on its way, and every code a client has taken from one, is the code
  the command ended with.
* `ClientSessionProofs!OutputTheorem`: `OutputComplete`, for any amount of
  output. `Flow` relates four places: what was shown, the queue, the messages on
  the stream and what was printed. While a session reads, the stream continues
  exactly where the queue ends, and an exit message comes only behind the last
  chunk; so a session told of exit code 0 lacks nothing.
* `ClientSessionProofs!WaitTheorem`: what `ClientEnds` needs of the state.
  `SessionOf` ties the call, the loop, the queue and the consumer of a client
  together, `Closing` says that a stream that is read ends with an exit message
  or an error, or that the daemon which owes it runs. A consumer of `AsyncQueue`
  never waits beside an item or on a closed queue.

Only model-checked: liveness (`ExecReturns`, `DeathWakesCalls`, `CallReturns`,
`CloseReturns`, `AnswerOrEnd`, `CallsReturn`, `TrafficEnds` and `ClientEnds`).
Fairness and ENABLED are out of the prover's reach. For each of them the
theorems above prove, for every value of the constants, the part that is about
states and steps: who waits has something to wait for, and, where a wait or a
call takes several steps, a measure that they lower. That the steps that remain
are taken is fairness, and is checked by TLC on the instances of the runs. Every
safety property of a passing run is the statement of a theorem.

## What the models leave out

* Frames are atomic. `FrameReader` keeps a partial frame in a buffer that
  handleExec drops when it returns; a command that ends in the middle of a
  frame would desynchronise the port.
* Service.Exec looks the machine up before it calls the backend. In `VmExec` a
  call may start at any time, which includes the lookup just before StopVM.
* In `FsrpcMount` a path below a symbolic link resolves to nothing. What
  `os.Rename` accepts is modelled from POSIX (`CanRename`).
* A request that cannot be written is one result, "failed": Exec returns the
  error, ExecStream prints it and exits with 127. readLoop would also end at a
  frame it cannot decode; sandboxd sends none.
* `StopLeavesNothing` counts what the daemon acquired for a machine, not the
  idle connections of the proxy's transport, nor a file that an FS-RPC request
  opened while the server was closing.
* Times: the collectors' idle limits are a choice to collect or not, and a
  timeout may occur whenever the wait is not over.
* In `EgressProxy` a name is a sequence of ASCII labels with a spelling (case,
  blanks, one final dot), an address its family and whether it is private.
  net/http maps other names to ASCII after enforceHost has seen them; they, and
  names with several final dots, are outside. Headers, bodies, counters and the texts
  of refusals are left out; so are the contents of certificates and the cache of
  certificateForHost, which only saves work.
* QEMU arguments, asset paths, packet-filter rule texts, log lines and messages.

Not modelled, and why:

* the guest's CBOR codec (`guest/src/cbor.zig`) and the FUSE structures and
  operation by operation translation of `sandboxfs.zig`: sequential conversions
  without shared state; the models carry decoded messages;
* the guest's init script and image, the listeners and debug wrappers of the
  daemon (`daemon/server*.go`), the protocol definitions and the code generated
  from them: input and output, or generated;
* of the CLI, flag parsing, the stdin goroutine, window sizes, the terminal's
  raw mode (which an `os.Exit` does not restore) and the WSL bridge; of the SDK,
  the conversion of options;
* of the host backend, the rewriting of guest paths in commands: string
  processing;
* a second daemon on the same socket: the socket's file is outside the models.

## What would come next

Byte-level framing of the port; the process of a cancelled stream as a property;
a second kind of id space in which calls give their ids back, so that the
theorems of `VmExecProofs` need only that ids of calls in progress differ.
