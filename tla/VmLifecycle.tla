----------------------------- MODULE VmLifecycle ------------------------------
(***************************************************************************)
(* The life of the daemon's machines: Service.StartVM and Service.StopVM   *)
(* (daemon/service.go), newVM, which falls back to the host backend        *)
(* (daemon/backend.go), newVMBackend and vmBackend.Close                   *)
(* (daemon/vm_backend.go), and the network manager around them             *)
(* (daemon/network.go).  The state is what each machine holds on the host: *)
(* processes, sockets, directories, the proxy and the packet filter.       *)
(***************************************************************************)
EXTENDS Naturals

CONSTANTS
  Vms,        \* the machines, one for each call of StartVM
  Stops,      \* the calls of StopVM
  Requests,   \* what a machine may be started with, a subset of Request
  MaxMounts,  \* bound: mounts of one machine
  Darwin      \* strict egress uses the packet filter

Request == [net : {"none", "compat", "strict"}, fs : {"virtiofs", "fsrpc"},
            mounts : 0 .. MaxMounts, ro : BOOLEAN]

ASSUME LifecycleAssumption ==
  MaxMounts \in Nat /\ Requests \subseteq Request /\ Darwin \in BOOLEAN

VARIABLES
  mode,         \* KLITKA_BACKEND
  req,          \* the StartVMRequest of each machine
  vms,          \* Service.vms
  start,        \* where StartVM is
  why,          \* the error of newVMBackend
  backend,      \* the ExecBackend: the machine's or the host's
  closing,      \* how far vmBackend.Close is
  stop,         \* where each StopVM is, and for which machine
  held,         \* what the daemon holds for a machine
  fsds,         \* virtiofsd processes running
  rpcs,         \* FS-RPC servers started and not yet closed
  qemu,         \* the QEMU process
  waiter,       \* the goroutine that fills waitCh has been started
  flushFailed   \* history: the packet filter rules could not be removed

netVars == <<held, flushFailed>>
procVars == <<fsds, rpcs, qemu, waiter>>
vars == <<mode, req, vms, start, why, backend, closing, stop, netVars, procVars>>

Resources == {"proxy", "anchor", "dir", "listener", "conn", "lateConn", "root"}
StartSteps == {"idle", "network", "strict", "mode", "assets", "mounts", "qemu", "fsrpc",
               "accept", "closing", "fallback", "host", "undone", "register", "ok", "failed"}

TypeOK ==
  /\ mode \in {"auto", "host", "vm"}
  /\ req \in [Vms -> Requests]
  /\ vms \subseteq Vms
  /\ start \in [Vms -> StartSteps]
  /\ why \in [Vms -> {"none", "unavailable", "other"}]
  /\ backend \in [Vms -> {"none", "vm", "host"}]
  /\ closing \in [Vms -> {"no", "conns", "term", "kill", "fsds", "done"}]
  /\ stop \in [Stops -> [at : {"idle", "backend", "ok", "error", "notfound"}, vm : Vms]]
  /\ held \in [Vms -> SUBSET Resources]
  /\ fsds \in [Vms -> 0 .. MaxMounts]
  /\ rpcs \in [Vms -> 0 .. MaxMounts]
  /\ qemu \in [Vms -> {"none", "running", "killed", "dead"}]
  /\ waiter \in [Vms -> BOOLEAN]
  /\ flushFailed \subseteq Vms

Init ==
  /\ mode \in {"auto", "host", "vm"}
  /\ req \in [Vms -> Requests]
  /\ vms = {}
  /\ start = [v \in Vms |-> "idle"]
  /\ why = [v \in Vms |-> "none"]
  /\ backend = [v \in Vms |-> "none"]
  /\ closing = [v \in Vms |-> "no"]
  /\ stop \in [Stops -> [at : {"idle"}, vm : Vms]]
  /\ held = [v \in Vms |-> {}]
  /\ fsds = [v \in Vms |-> 0]
  /\ rpcs = [v \in Vms |-> 0]
  /\ qemu = [v \in Vms |-> "none"]
  /\ waiter = [v \in Vms |-> FALSE]
  /\ flushFailed = {}

-----------------------------------------------------------------------------
\* StartVM of v goes from one step to the next.
Goes(v, from, to) == start[v] = from /\ start' = [start EXCEPT ![v] = to]

\* The daemon releases the resources R of v and acquires A.
Trades(v, R, A) == held' = [held EXCEPT ![v] = (@ \ R) \cup A]

(* networkManager.Close: the packet filter's anchor is flushed, which      *)
(* pfctl may refuse, and the proxy is stopped.                             *)
NetworkClose(v) ==
  \/ Trades(v, {"anchor", "proxy"}, {}) /\ UNCHANGED flushFailed
  \/ /\ "anchor" \in held[v]
     /\ Trades(v, {"proxy"}, {})
     /\ flushFailed' = flushFailed \cup {v}

(* os.RemoveAll of a host backend's root.  A read-only mount is a copy     *)
(* there that makeReadOnly has made read-only, directories too; unless the *)
(* daemon is root, what is in them cannot be removed, and the error is     *)
(* ignored.                                                                *)
Unremovable(v) == backend[v] = "host" /\ req[v].ro /\ req[v].mounts > 0
RootLeft(v) == IF req[v].ro /\ req[v].mounts > 0 THEN {{}, {"root"}} ELSE {{}}

\* What only some steps of StartVM change.
others == <<mode, req, vms, stop>>

-----------------------------------------------------------------------------
(* StartVM: newNetworkManager.                                             *)
StartVM(v) ==
  /\ Goes(v, "idle", "network")
  /\ UNCHANGED <<others, why, backend, closing, netVars, procVars>>

\* The policy is refused, or newProxyServer fails and closes its listener.
NetworkRefused(v) ==
  /\ Goes(v, "network", "failed")
  /\ UNCHANGED <<others, why, backend, closing, netVars, procVars>>

NewProxyServer(v) ==
  /\ Goes(v, "network", IF req[v].net = "strict" THEN "strict" ELSE "mode")
  /\ Trades(v, {}, IF req[v].net = "none" THEN {} ELSE {"proxy"})
  /\ UNCHANGED <<others, why, backend, closing, flushFailed, procVars>>

StrictTransport(v) ==
  /\ Goes(v, "strict", "mode")
  /\ Trades(v, {}, IF Darwin THEN {"anchor"} ELSE {})
  /\ UNCHANGED <<others, why, backend, closing, flushFailed, procVars>>

StrictTransportFails(v) ==
  /\ Goes(v, "strict", "failed")
  /\ Trades(v, {"proxy"}, {})
  /\ UNCHANGED <<others, why, backend, closing, flushFailed, procVars>>

(* newVM chooses the backend.                                              *)
ChooseBackend(v) ==
  /\ mode = "host" => req[v].net # "strict"
  /\ Goes(v, "mode", IF mode = "host" THEN "host" ELSE "assets")
  /\ UNCHANGED <<others, why, backend, closing, netVars, procVars>>

RefuseStrictOnHost(v) ==
  /\ mode = "host" /\ req[v].net = "strict"
  /\ Goes(v, "mode", "failed")
  /\ NetworkClose(v)
  /\ UNCHANGED <<others, why, backend, closing, procVars>>

-----------------------------------------------------------------------------
(* newVMBackend.  Until QEMU is started, failures undo by hand.            *)
CreateTempDir(v) ==
  /\ Goes(v, "assets", "mounts")
  /\ Trades(v, {}, {"dir", "listener"})
  /\ UNCHANGED <<others, why, backend, closing, flushFailed, procVars>>

\* No guest image or no QEMU: unavailable.  No directory or socket: other.
AssetsMissing(v) ==
  /\ Goes(v, "assets", "fallback")
  /\ \E e \in {"unavailable", "other"} : why' = [why EXCEPT ![v] = e]
  /\ UNCHANGED <<others, backend, closing, netVars, procVars>>

UsesFsds(v) == req[v].fs = "virtiofs"

\* prepareVirtioFSMounts: one virtiofsd for each mount.
StartFsd(v) ==
  /\ start[v] = "mounts" /\ UsesFsds(v)
  /\ fsds[v] < req[v].mounts
  /\ fsds' = [fsds EXCEPT ![v] = @ + 1]
  /\ UNCHANGED <<others, start, why, backend, closing, netVars, rpcs, qemu, waiter>>

(* The CA mount, the filesystem backend or a mount is refused, or a        *)
(* virtiofsd does not start: those running are killed.  Only a missing     *)
(* virtiofsd makes the backend unavailable.                                *)
MountsRefused(v) ==
  /\ Goes(v, "mounts", "fallback")
  /\ fsds[v] = 0 \/ fsds[v] < req[v].mounts
  /\ \/ why' = [why EXCEPT ![v] = "other"]
     \/ /\ UsesFsds(v) /\ req[v].mounts > 0 /\ fsds[v] = 0
        /\ why' = [why EXCEPT ![v] = "unavailable"]
  /\ fsds' = [fsds EXCEPT ![v] = 0]
  /\ Trades(v, {"dir", "listener"}, {})
  /\ UNCHANGED <<others, backend, closing, flushFailed, rpcs, qemu, waiter>>

MountsPrepared(v) ==
  /\ Goes(v, "mounts", "qemu")
  /\ UsesFsds(v) => fsds[v] = req[v].mounts
  /\ UNCHANGED <<others, why, backend, closing, netVars, procVars>>

StartQemu(v) ==
  /\ Goes(v, "qemu", "fsrpc")
  /\ qemu' = [qemu EXCEPT ![v] = "running"]
  /\ UNCHANGED <<others, why, backend, closing, netVars, fsds, rpcs, waiter>>

(* From here a failure closes the listener and calls vmBackend.Close.      *)
Abandon(v, from, late) ==
  /\ Goes(v, from, "closing")
  /\ why' = [why EXCEPT ![v] = "other"]
  /\ closing' = [closing EXCEPT ![v] = "conns"]
  /\ Trades(v, {"listener"}, late)
  /\ UNCHANGED <<others, backend, flushFailed>>

QemuNotStarted(v) ==
  Abandon(v, "qemu", {}) /\ UNCHANGED procVars

\* startFSRPCServers: one connection and one server for each mount.
DialMount(v) ==
  /\ start[v] = "fsrpc" /\ ~UsesFsds(v)
  /\ rpcs[v] < req[v].mounts
  /\ qemu[v] = "running"
  /\ rpcs' = [rpcs EXCEPT ![v] = @ + 1]
  /\ UNCHANGED <<others, start, why, backend, closing, netVars, fsds, qemu, waiter>>

\* dialUnixSocket gives up: the servers started so far are closed.
DialTimesOut(v) ==
  /\ ~UsesFsds(v) /\ rpcs[v] < req[v].mounts
  /\ Abandon(v, "fsrpc", {})
  /\ rpcs' = [rpcs EXCEPT ![v] = 0]
  /\ UNCHANGED <<fsds, qemu, waiter>>

\* Only now is somebody waiting for QEMU to end.
ServersStarted(v) ==
  /\ Goes(v, "fsrpc", "accept")
  /\ ~UsesFsds(v) => rpcs[v] = req[v].mounts
  /\ waiter' = [waiter EXCEPT ![v] = TRUE]
  /\ UNCHANGED <<others, why, backend, closing, netVars, fsds, rpcs, qemu>>

Accept(v) ==
  /\ Goes(v, "accept", "register")
  /\ Trades(v, {"listener"}, {"conn"})
  /\ backend' = [backend EXCEPT ![v] = "vm"]
  /\ UNCHANGED <<others, why, closing, flushFailed, procVars>>

(* acceptWithTimeout gives up.  Its goroutine may have accepted all the    *)
(* same; nobody takes that connection from the channel.                    *)
AcceptTimesOut(v) ==
  /\ \E late \in {{}, {"lateConn"}} : Abandon(v, "accept", late)
  /\ UNCHANGED procVars

-----------------------------------------------------------------------------
(* vmBackend.Close, called by StartVM or by the StopVM that took the       *)
(* machine out of the table: connections, QEMU, virtiofsd, directory.      *)
Closes(v, from, to) == closing[v] = from /\ closing' = [closing EXCEPT ![v] = to]
closeOthers == <<others, start, why, backend, flushFailed>>

CloseConns(v) ==
  /\ Closes(v, "conns", IF qemu[v] = "none" THEN "fsds" ELSE "term")
  /\ Trades(v, {"conn"}, {})
  /\ rpcs' = [rpcs EXCEPT ![v] = 0]
  /\ UNCHANGED <<closeOthers, fsds, qemu, waiter>>

QemuReaped(v) ==
  /\ closing[v] \in {"term", "kill"}
  /\ closing' = [closing EXCEPT ![v] = "fsds"]
  /\ waiter[v] /\ qemu[v] = "dead"
  /\ UNCHANGED <<closeOthers, held, procVars>>

\* Mutant: Close waits for waitCh as long as it takes.
TermNeverTimesOut(v) ==
  /\ Closes(v, "term", "kill")
  /\ waiter[v] /\ qemu[v] = "dead"
  /\ UNCHANGED <<closeOthers, held, procVars>>

\* QEMU has not ended on SIGTERM, or nobody waits for it: SIGKILL.
TermTimesOut(v) ==
  /\ Closes(v, "term", "kill")
  /\ qemu' = [qemu EXCEPT ![v] = IF @ = "running" THEN "killed" ELSE @]
  /\ UNCHANGED <<closeOthers, held, fsds, rpcs, waiter>>

KillTimesOut(v) ==
  /\ Closes(v, "kill", "fsds")
  /\ UNCHANGED <<closeOthers, held, procVars>>

\* SIGTERM and, after the timeout, SIGKILL.
StopFsd(v) ==
  /\ closing[v] = "fsds" /\ fsds[v] > 0
  /\ fsds' = [fsds EXCEPT ![v] = @ - 1]
  /\ UNCHANGED <<closeOthers, closing, held, rpcs, qemu, waiter>>

\* Mutant: the processes of the mounts are not waited for.
RemoveDirAtOnce(v) ==
  /\ Closes(v, "fsds", "done")
  /\ Trades(v, {"dir"}, {})
  /\ UNCHANGED <<closeOthers, procVars>>

RemoveDir(v) ==
  /\ fsds[v] = 0
  /\ Closes(v, "fsds", "done")
  /\ Trades(v, {"dir"}, {})
  /\ UNCHANGED <<closeOthers, procVars>>

-----------------------------------------------------------------------------
(* newVM after newVMBackend has failed.                                    *)
BackendClosed(v) ==
  /\ closing[v] = "done"
  /\ Goes(v, "closing", "fallback")
  /\ UNCHANGED <<others, why, backend, closing, netVars, procVars>>

MayFallBack(v) ==
  mode = "auto" /\ why[v] = "unavailable" /\ req[v].net # "strict"

FallBackToHost(v) ==
  /\ MayFallBack(v)
  /\ Goes(v, "fallback", "host")
  /\ UNCHANGED <<others, why, backend, closing, netVars, procVars>>

\* Mutant: the network manager is not closed.
GiveUpKeepsNetwork(v) ==
  /\ ~MayFallBack(v)
  /\ Goes(v, "fallback", "failed")
  /\ UNCHANGED <<others, why, backend, closing, netVars, procVars>>

GiveUp(v) ==
  /\ ~MayFallBack(v)
  /\ Goes(v, "fallback", "failed")
  /\ NetworkClose(v)
  /\ UNCHANGED <<others, why, backend, closing, procVars>>

NewHostBackend(v) ==
  /\ Goes(v, "host", "register")
  /\ Trades(v, {}, {"root"})
  /\ backend' = [backend EXCEPT ![v] = "host"]
  /\ UNCHANGED <<others, why, closing, flushFailed, procVars>>

\* buildMounts fails: the root directory is removed again.
HostBackendFails(v) ==
  /\ Goes(v, "host", "undone")
  /\ \E left \in RootLeft(v) : Trades(v, {}, left)
  /\ UNCHANGED <<others, why, backend, closing, flushFailed, procVars>>

HostBackendFailed(v) ==
  /\ Goes(v, "undone", "failed")
  /\ NetworkClose(v)
  /\ UNCHANGED <<others, why, backend, closing, procVars>>

\* StartVM enters the machine in the table and answers.
RegisterVM(v) ==
  /\ Goes(v, "register", "ok")
  /\ vms' = vms \cup {v}
  /\ UNCHANGED <<mode, req, stop, why, backend, closing, netVars, procVars>>

-----------------------------------------------------------------------------
\* Mutant: the machine leaves the table only when it has been closed.
StopKeepsEntry(s) ==
  LET v == stop[s].vm
  IN /\ stop[s].at = "idle" /\ v \in vms
     /\ stop' = [stop EXCEPT ![s].at = "backend"]
     /\ Closes(v, "no", IF backend[v] = "vm" THEN "conns" ELSE "done")
     /\ Trades(v, {"root"}, {})
     /\ UNCHANGED <<mode, req, vms, start, why, backend, flushFailed, procVars>>

(* StopVM: the machine is taken out of the table, under mu, and its        *)
(* backend's Close begins.  HostBackend.Close only removes its root.       *)
StopVM(s) ==
  LET v == stop[s].vm
  IN /\ stop[s].at = "idle" /\ v \in vms
     /\ stop' = [stop EXCEPT ![s].at = "backend"]
     /\ vms' = vms \ {v}
     /\ Closes(v, "no", IF backend[v] = "vm" THEN "conns" ELSE "done")
     /\ \E left \in IF backend[v] = "host" THEN RootLeft(v) ELSE {{}} :
          Trades(v, {"root"}, left)
     /\ UNCHANGED <<mode, req, start, why, backend, flushFailed, procVars>>

\* The client has the id from StartVM, but the machine is not in the table.
StopVMNotFound(s) ==
  /\ stop[s].at = "idle" /\ start[stop[s].vm] = "ok" /\ stop[s].vm \notin vms
  /\ stop' = [stop EXCEPT ![s].at = "notfound"]
  /\ UNCHANGED <<mode, req, vms, start, why, backend, closing, netVars, procVars>>

\* Mutant: the network is closed before the machine is down.
StopNetworkFirst(s) ==
  /\ stop[s].at = "backend"
  /\ NetworkClose(stop[s].vm)
  /\ stop' = [stop EXCEPT ![s].at = IF flushFailed' = flushFailed THEN "ok" ELSE "error"]
  /\ UNCHANGED <<mode, req, vms, start, why, backend, closing, procVars>>

\* The backend is closed: the network manager follows, and StopVM answers.
StopNetwork(s) ==
  /\ stop[s].at = "backend" /\ closing[stop[s].vm] = "done"
  /\ NetworkClose(stop[s].vm)
  /\ stop' = [stop EXCEPT ![s].at = IF flushFailed' = flushFailed THEN "ok" ELSE "error"]
  /\ UNCHANGED <<mode, req, vms, start, why, backend, closing, procVars>>

-----------------------------------------------------------------------------
(* Around the daemon: QEMU ends by itself or after SIGTERM, a killed       *)
(* process is gone in the end, and clients go away.                        *)
QemuEnds(v) ==
  /\ qemu[v] \in {"running", "killed"}
  /\ qemu' = [qemu EXCEPT ![v] = "dead"]
  /\ UNCHANGED <<others, start, why, backend, closing, netVars, fsds, rpcs, waiter>>

Network(v) ==
  \/ NetworkRefused(v) \/ NewProxyServer(v)
  \/ StrictTransport(v) \/ StrictTransportFails(v)
  \/ ChooseBackend(v) \/ RefuseStrictOnHost(v)

NewVMBackend(v) ==
  \/ CreateTempDir(v) \/ AssetsMissing(v)
  \/ StartFsd(v) \/ MountsRefused(v) \/ MountsPrepared(v)
  \/ StartQemu(v) \/ QemuNotStarted(v)
  \/ DialMount(v) \/ DialTimesOut(v) \/ ServersStarted(v)
  \/ Accept(v) \/ AcceptTimesOut(v)

BackendClose(v) ==
  \/ CloseConns(v) \/ QemuReaped(v) \/ TermTimesOut(v) \/ KillTimesOut(v)
  \/ StopFsd(v) \/ RemoveDir(v)

Finish(v) ==
  \/ BackendClosed(v) \/ FallBackToHost(v) \/ GiveUp(v)
  \/ NewHostBackend(v) \/ HostBackendFails(v) \/ HostBackendFailed(v)
  \/ RegisterVM(v)

Daemon(v) == Network(v) \/ NewVMBackend(v) \/ BackendClose(v) \/ Finish(v)

Stop(s) == StopVM(s) \/ StopVMNotFound(s) \/ StopNetwork(s)

Next ==
  \/ \E v \in Vms : StartVM(v) \/ Daemon(v) \/ QemuEnds(v)
  \/ \E s \in Stops : Stop(s)

Spec == Init /\ [][Next]_vars

(* The goroutines of StartVM and StopVM run on.  Their waits for QEMU and  *)
(* its sockets have timeouts; those for pfctl and other short commands of  *)
(* the host have none, and these are taken to end.  No client need ask for *)
(* anything, and QEMU need not end.                                        *)
FairSpec ==
  /\ Spec
  /\ \A v \in Vms : WF_vars(Daemon(v))
  /\ \A s \in Stops : WF_vars(StopNetwork(s))

-----------------------------------------------------------------------------
(* No guest runs outside its network policy: while QEMU runs, the proxy    *)
(* and, for strict egress, the packet filter are up, whatever fails in     *)
(* StartVM and however StopVM and its timeouts go (newVM builds the        *)
(* network first, StopVM closes it last).                                  *)
EnforcedWhileRunning ==
  \A v \in Vms : qemu[v] = "running" =>
    /\ req[v].net # "none" => "proxy" \in held[v]
    /\ req[v].net = "strict" /\ Darwin => "anchor" \in held[v]

NoProcess(v) == fsds[v] = 0 /\ rpcs[v] = 0 /\ qemu[v] # "running"

(* A StartVM that fails, at whatever step, has undone the steps before:    *)
(* no process runs and no directory, listener, proxy or filter rule is     *)
(* left.  (Left may be the rules pfctl refused to flush, whose error newVM *)
(* drops, a connection accepted too late, whose other end is dead, and a   *)
(* host root that cannot be removed.)                                      *)
FailedStartLeavesNothing ==
  \A v \in Vms : start[v] = "failed" =>
    /\ NoProcess(v)
    /\ held[v] \subseteq {"lateConn"} \cup (IF v \in flushFailed THEN {"anchor"} ELSE {})
                           \cup UNION RootLeft(v)

(* When StopVM answers without an error nothing the daemon acquired for    *)
(* the machine is left: no process, port, directory, proxy listener or     *)
(* filter rule, but a host root that cannot be removed.  (What goes on     *)
(* inside the proxy and the FS-RPC servers, idle connections to servers    *)
(* and files opened late, is not counted here.)                            *)
StopLeavesNothing ==
  \A s \in Stops : stop[s].at = "ok" =>
    /\ NoProcess(stop[s].vm)
    /\ held[stop[s].vm] \subseteq (IF Unremovable(stop[s].vm) THEN {"root"} ELSE {})

(* A call that finds a machine in the table finds all of it: its backend   *)
(* is complete and nobody has begun to close it.                           *)
TableComplete ==
  \A v \in vms :
    /\ closing[v] = "no"
    /\ req[v].net # "none" => "proxy" \in held[v]
    /\ IF backend[v] = "vm"
       THEN {"conn", "dir"} \subseteq held[v] /\ fsds[v] + rpcs[v] = req[v].mounts
       ELSE "root" \in held[v]

(* StartVM and StopVM answer, although QEMU may ignore signals and, before *)
(* ServersStarted, nobody would report its end: provided that the commands *)
(* they run, pfctl above all, end.                                         *)
CallsReturn ==
  /\ \A v \in Vms : start[v] = "network" ~> start[v] \in {"ok", "failed"}
  /\ \A s \in Stops : stop[s].at = "backend" ~> stop[s].at \in {"ok", "error"}
=============================================================================
