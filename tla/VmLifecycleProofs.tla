-------------------------- MODULE VmLifecycleProofs ---------------------------
(***************************************************************************)
(* Proofs about VmLifecycle, for any machines, StopVM calls and requests:  *)
(* its type invariant, that no guest runs outside its network policy, and  *)
(* what a failed start, a stop and a machine in the table have and leave,  *)
(* and that every step of a call brings it nearer to its end.              *)
(***************************************************************************)
EXTENDS VmLifecycle, TLAPS

\* The network manager of v is up.
NetworkUp(v) ==
  /\ req[v].net # "none" => "proxy" \in held[v]
  /\ req[v].net = "strict" /\ Darwin => "anchor" \in held[v]

\* The steps of StartVM after newNetworkManager that keep the network.
Built == {"mode", "assets", "mounts", "qemu", "fsrpc", "accept", "closing",
          "fallback", "host", "undone", "register"}

(* The network is up from the end of newNetworkManager until StartVM fails *)
(* or, for a machine that was started, until its backend is closed.        *)
NetworkKept ==
  \A v \in Vms :
    /\ start[v] = "strict" /\ req[v].net # "none" => "proxy" \in held[v]
    /\ start[v] \in Built => NetworkUp(v)
    /\ start[v] = "ok" /\ closing[v] # "done" => NetworkUp(v)

(* QEMU runs only between StartQemu and the end of Close's first wait.     *)
QemuPhases ==
  \A v \in Vms :
    /\ start[v] \in {"register", "ok"} <=> backend[v] # "none"
    /\ qemu[v] = "running" =>
         /\ start[v] \in {"fsrpc", "accept", "closing", "register", "ok"}
         /\ closing[v] \in {"no", "conns", "term"}
         /\ backend[v] # "host"
    /\ start[v] \in {"idle", "network", "strict", "mode", "assets", "mounts", "qemu",
                    "fsrpc", "accept"} => closing[v] = "no"

(* StopVM closes only machines that were started.                          *)
StopsStarted ==
  /\ \A v \in vms : start[v] = "ok"
  /\ \A s \in Stops : stop[s].at # "idle" => start[stop[s].vm] = "ok"

Inv == TypeOK /\ NetworkKept /\ QemuPhases /\ StopsStarted

-----------------------------------------------------------------------------
LEMMA TypeInit == Init => TypeOK
  <1> SUFFICES ASSUME Init PROVE TypeOK
    BY Zenon
  <1>1. 0 \in 0 .. MaxMounts
    BY LifecycleAssumption
  <1>2. stop \in [Stops -> [at : {"idle", "backend", "ok", "error", "notfound"}, vm : Vms]]
    BY Zenon DEF Init
  <1> QED BY <1>1, <1>2, Zenon DEF Init, TypeOK, Resources, StartSteps

LEMMA TypeNetwork ==
  ASSUME TypeOK, NEW v \in Vms, Network(v)
  PROVE  TypeOK'
  <1>1. CASE NetworkRefused(v)
    BY <1>1, Zenon DEF TypeOK, NetworkRefused, Goes, others, netVars, procVars, StartSteps
  <1>2. CASE NewProxyServer(v)
    BY <1>2, Zenon DEF TypeOK, NewProxyServer, Goes, Trades, others, procVars,
                StartSteps, Resources
  <1>3. CASE StrictTransport(v)
    BY <1>3, Zenon DEF TypeOK, StrictTransport, Goes, Trades, others, procVars,
                StartSteps, Resources
  <1>4. CASE StrictTransportFails(v)
    BY <1>4, Zenon DEF TypeOK, StrictTransportFails, Goes, Trades, others, procVars,
                StartSteps, Resources
  <1>5. CASE ChooseBackend(v)
    BY <1>5, Zenon DEF TypeOK, ChooseBackend, Goes, others, netVars, procVars, StartSteps
  <1>6. CASE RefuseStrictOnHost(v)
    BY <1>6 DEF TypeOK, RefuseStrictOnHost, Goes, NetworkClose, Trades, others,
                procVars, StartSteps
  <1> QED BY <1>1, <1>2, <1>3, <1>4, <1>5, <1>6, Zenon DEF Network

LEMMA TypeNewVMBackend ==
  ASSUME TypeOK, NEW v \in Vms, NewVMBackend(v)
  PROVE  TypeOK'
  <1>0. /\ req[v].mounts \in 0 .. MaxMounts /\ fsds[v] \in 0 .. MaxMounts
        /\ rpcs[v] \in 0 .. MaxMounts /\ MaxMounts \in Nat
    BY LifecycleAssumption DEF TypeOK, Request
  <1>1. CASE CreateTempDir(v)
    BY <1>1, Zenon DEF TypeOK, CreateTempDir, Goes, Trades, others, procVars,
                StartSteps, Resources
  <1>2. CASE AssetsMissing(v)
    BY <1>2 DEF TypeOK, AssetsMissing, Goes, others, netVars, procVars, StartSteps
  <1>3. CASE StartFsd(v)
    <2>1. fsds[v] + 1 \in 0 .. MaxMounts
      BY <1>0, <1>3 DEF StartFsd
    <2>2. fsds' \in [Vms -> 0 .. MaxMounts]
      BY <1>3, <2>1, Zenon DEF StartFsd, TypeOK
    <2> QED BY <1>3, <2>2, Zenon DEF TypeOK, StartFsd, others, netVars
  <1>4. CASE MountsRefused(v)
    BY <1>0, <1>4 DEF TypeOK, MountsRefused, Goes, Trades, others, StartSteps
  <1>5. CASE MountsPrepared(v)
    BY <1>5, Zenon DEF TypeOK, MountsPrepared, Goes, others, netVars, procVars, StartSteps
  <1>6. CASE StartQemu(v)
    BY <1>6, Zenon DEF TypeOK, StartQemu, Goes, others, netVars, StartSteps
  <1>7. CASE QemuNotStarted(v)
    BY <1>7, Zenon DEF TypeOK, QemuNotStarted, Abandon, Goes, Trades, others, procVars,
                StartSteps
  <1>8. CASE DialMount(v)
    <2>1. rpcs[v] + 1 \in 0 .. MaxMounts
      BY <1>0, <1>8 DEF DialMount
    <2>2. rpcs' \in [Vms -> 0 .. MaxMounts]
      BY <1>8, <2>1, Zenon DEF DialMount, TypeOK
    <2> QED BY <1>8, <2>2, Zenon DEF TypeOK, DialMount, others, netVars
  <1>9. CASE DialTimesOut(v)
    BY <1>0, <1>9 DEF TypeOK, DialTimesOut, Abandon, Goes, Trades, others, StartSteps
  <1>10. CASE ServersStarted(v)
    BY <1>10, Zenon DEF TypeOK, ServersStarted, Goes, others, netVars, StartSteps
  <1>11. CASE Accept(v)
    BY <1>11, Zenon
    DEF TypeOK, Accept, Goes, Trades, others, procVars, StartSteps, Resources
  <1>12. CASE AcceptTimesOut(v)
    BY <1>12 DEF TypeOK, AcceptTimesOut, Abandon, Goes, Trades, others,
                 procVars, StartSteps, Resources
  <1> QED BY <1>1, <1>2, <1>3, <1>4, <1>5, <1>6, <1>7, <1>8, <1>9, <1>10, <1>11, <1>12, Zenon
          DEF NewVMBackend

LEMMA TypeBackendClose ==
  ASSUME TypeOK, NEW v \in Vms, BackendClose(v)
  PROVE  TypeOK'
  <1>0. fsds[v] \in 0 .. MaxMounts /\ MaxMounts \in Nat
    BY LifecycleAssumption, Zenon DEF TypeOK
  <1>1. CASE CloseConns(v)
    BY <1>0, <1>1 DEF TypeOK, CloseConns, Closes, Trades, closeOthers, others
  <1>2. CASE QemuReaped(v)
    BY <1>2, Zenon DEF TypeOK, QemuReaped, closeOthers, others, procVars
  <1>3. CASE TermTimesOut(v)
    BY <1>3, Zenon DEF TypeOK, TermTimesOut, Closes, closeOthers, others
  <1>4. CASE KillTimesOut(v)
    BY <1>4, Zenon DEF TypeOK, KillTimesOut, Closes, closeOthers, others, procVars
  <1>5. CASE StopFsd(v)
    <2>1. fsds[v] - 1 \in 0 .. MaxMounts
      BY <1>0, <1>5 DEF StopFsd
    <2>2. fsds' \in [Vms -> 0 .. MaxMounts]
      BY <1>5, <2>1, Zenon DEF StopFsd, TypeOK
    <2> QED BY <1>5, <2>2, Zenon DEF TypeOK, StopFsd, closeOthers, others
  <1>6. CASE RemoveDir(v)
    BY <1>6, Zenon DEF TypeOK, RemoveDir, Closes, Trades, closeOthers, others, procVars
  <1> QED BY <1>1, <1>2, <1>3, <1>4, <1>5, <1>6, Zenon DEF BackendClose

LEMMA TypeFinish ==
  ASSUME TypeOK, NEW v \in Vms, Finish(v)
  PROVE  TypeOK'
  <1>1. CASE BackendClosed(v)
    BY <1>1, Zenon DEF TypeOK, BackendClosed, Goes, others, netVars, procVars, StartSteps
  <1>2. CASE FallBackToHost(v)
    BY <1>2, Zenon DEF TypeOK, FallBackToHost, Goes, others, netVars, procVars, StartSteps
  <1>3. CASE GiveUp(v)
    BY <1>3 DEF TypeOK, GiveUp, Goes, NetworkClose, Trades, others, procVars, StartSteps
  <1>4. CASE NewHostBackend(v)
    BY <1>4, Zenon DEF TypeOK, NewHostBackend, Goes, Trades, others, procVars,
                StartSteps, Resources
  <1>5. CASE HostBackendFails(v)
    BY <1>5 DEF TypeOK, HostBackendFails, RootLeft, Goes, Trades, others,
                procVars, StartSteps, Resources
  <1>6. CASE HostBackendFailed(v)
    BY <1>6 DEF TypeOK, HostBackendFailed, Goes, NetworkClose, Trades, others,
                procVars, StartSteps
  <1>7. CASE RegisterVM(v)
    BY <1>7, Zenon DEF TypeOK, RegisterVM, Goes, netVars, procVars, StartSteps
  <1> QED BY <1>1, <1>2, <1>3, <1>4, <1>5, <1>6, <1>7, Zenon DEF Finish

LEMMA TypeStop ==
  ASSUME TypeOK, NEW s \in Stops, Stop(s)
  PROVE  TypeOK'
  <1>0. stop[s] \in [at : {"idle", "backend", "ok", "error", "notfound"}, vm : Vms]
    BY Zenon DEF TypeOK
  <1>1. CASE StopVM(s)
    <2>1. stop' \in [Stops -> [at : {"idle", "backend", "ok", "error", "notfound"}, vm : Vms]]
      BY <1>0, <1>1, Zenon DEF StopVM, TypeOK
    <2>2. held' \in [Vms -> SUBSET Resources]
      BY <1>0, <1>1 DEF StopVM, TypeOK, Trades, RootLeft, Resources
    <2> QED BY <1>0, <1>1, <2>1, <2>2, Zenon DEF TypeOK, StopVM, Closes, procVars
  <1>2. CASE StopVMNotFound(s)
    BY <1>0, <1>2, Zenon DEF TypeOK, StopVMNotFound, netVars, procVars
  <1>3. CASE StopNetwork(s)
    <2>1. stop' \in [Stops -> [at : {"idle", "backend", "ok", "error", "notfound"}, vm : Vms]]
      BY <1>0, <1>3, Zenon DEF StopNetwork, TypeOK
    <2>2. held' \in [Vms -> SUBSET Resources] /\ flushFailed' \subseteq Vms
      BY <1>0, <1>3 DEF StopNetwork, NetworkClose, TypeOK, Trades
    <2> QED BY <1>3, <2>1, <2>2, Zenon DEF TypeOK, StopNetwork, procVars
  <1> QED BY <1>1, <1>2, <1>3, Zenon DEF Stop

LEMMA TypeStep == TypeOK /\ [Next]_vars => TypeOK'
  <1> SUFFICES ASSUME TypeOK, [Next]_vars PROVE TypeOK'
    BY Zenon
  <1>1. CASE UNCHANGED vars
    BY <1>1, Zenon DEF TypeOK, vars, netVars, procVars
  <1>2. CASE \E v \in Vms : StartVM(v)
    BY <1>2 DEF TypeOK, StartVM, Goes, others, netVars, procVars, StartSteps
  <1>3. CASE \E v \in Vms : Daemon(v)
    BY <1>3, TypeNetwork, TypeNewVMBackend, TypeBackendClose, TypeFinish, Zenon DEF Daemon
  <1>4. CASE \E v \in Vms : QemuEnds(v)
    BY <1>4 DEF TypeOK, QemuEnds, others, netVars
  <1>5. CASE \E s \in Stops : Stop(s)
    BY <1>5, TypeStop, Zenon
  <1> QED BY <1>1, <1>2, <1>3, <1>4, <1>5, Zenon DEF Next

(* Every reachable state is well typed: with the guards of                 *)
(* prepareVirtioFSMounts and startFSRPCServers no machine has more servers *)
(* than mounts.                                                            *)
THEOREM TypeCorrect == Spec => []TypeOK
  BY TypeInit, TypeStep, PTL DEF Spec

-----------------------------------------------------------------------------
LEMMA InvInit == Init => Inv
  <1> SUFFICES ASSUME Init PROVE Inv
    BY Zenon
  <1>1. NetworkKept /\ QemuPhases
    BY Zenon DEF Init, NetworkKept, QemuPhases, NetworkUp, Built
  <1>2. StopsStarted
    BY Zenon DEF Init, StopsStarted
  <1> QED BY <1>1, <1>2, TypeInit, Zenon DEF Inv

LEMMA InvNetwork ==
  ASSUME Inv, NEW v \in Vms, Network(v)
  PROVE  NetworkKept' /\ QemuPhases' /\ StopsStarted'
  <1> USE DEF Inv, TypeOK
  <1>1. CASE NetworkRefused(v)
    BY <1>1 DEF NetworkRefused, Goes, others, netVars, procVars, NetworkKept,
                QemuPhases, StopsStarted, NetworkUp, Built
  <1>2. CASE NewProxyServer(v)
    BY <1>2 DEF NewProxyServer, Goes, Trades, others, procVars, NetworkKept,
                QemuPhases, StopsStarted, NetworkUp, Built
  <1>3. CASE StrictTransport(v)
    BY <1>3 DEF StrictTransport, Goes, Trades, others, procVars, NetworkKept,
                QemuPhases, StopsStarted, NetworkUp, Built
  <1>4. CASE StrictTransportFails(v)
    BY <1>4 DEF StrictTransportFails, Goes, Trades, others, procVars,
                NetworkKept, QemuPhases, StopsStarted, NetworkUp, Built
  <1>5. CASE ChooseBackend(v)
    BY <1>5 DEF ChooseBackend, Goes, others, netVars, procVars, NetworkKept,
                QemuPhases, StopsStarted, NetworkUp, Built
  <1>6. CASE RefuseStrictOnHost(v)
    BY <1>6 DEF RefuseStrictOnHost, Goes, NetworkClose, Trades, others,
                procVars, NetworkKept, QemuPhases, StopsStarted, NetworkUp,
                Built
  <1> QED BY <1>1, <1>2, <1>3, <1>4, <1>5, <1>6, Zenon DEF Network

LEMMA InvNewVMBackend ==
  ASSUME Inv, NEW v \in Vms, NewVMBackend(v)
  PROVE  NetworkKept' /\ QemuPhases' /\ StopsStarted'
  <1> USE DEF Inv, TypeOK
  <1>1. CASE CreateTempDir(v)
    BY <1>1 DEF CreateTempDir, Goes, Trades, others, procVars, NetworkKept,
                QemuPhases, StopsStarted, NetworkUp, Built
  <1>2. CASE AssetsMissing(v)
    BY <1>2 DEF AssetsMissing, Goes, others, netVars, procVars, NetworkKept,
                QemuPhases, StopsStarted, NetworkUp, Built
  <1>3. CASE StartFsd(v)
    BY <1>3, Zenon DEF StartFsd, others, netVars, NetworkKept, QemuPhases,
                StopsStarted, NetworkUp, Built
  <1>4. CASE MountsRefused(v)
    BY <1>4 DEF MountsRefused, Goes, Trades, others, NetworkKept, QemuPhases,
                StopsStarted, NetworkUp, Built
  <1>5. CASE MountsPrepared(v)
    BY <1>5 DEF MountsPrepared, Goes, others, netVars, procVars, NetworkKept,
                QemuPhases, StopsStarted, NetworkUp, Built
  <1>6. CASE StartQemu(v)
    BY <1>6 DEF StartQemu, Goes, others, netVars, NetworkKept, QemuPhases,
                StopsStarted, NetworkUp, Built
  <1>7. CASE QemuNotStarted(v)
    BY <1>7 DEF QemuNotStarted, Abandon, Goes, Trades, others, procVars,
                NetworkKept, QemuPhases, StopsStarted, NetworkUp, Built
  <1>8. CASE DialMount(v)
    BY <1>8, Zenon DEF DialMount, others, netVars, NetworkKept, QemuPhases,
                StopsStarted, NetworkUp, Built
  <1>9. CASE DialTimesOut(v)
    BY <1>9 DEF DialTimesOut, Abandon, Goes, Trades, others, NetworkKept,
                QemuPhases, StopsStarted, NetworkUp, Built
  <1>10. CASE ServersStarted(v)
    BY <1>10 DEF ServersStarted, Goes, others, netVars, NetworkKept, QemuPhases,
                 StopsStarted, NetworkUp, Built
  <1>11. CASE Accept(v)
    BY <1>11 DEF Accept, Goes, Trades, others, procVars, NetworkKept,
                 QemuPhases, StopsStarted, NetworkUp, Built
  <1>12. CASE AcceptTimesOut(v)
    BY <1>12 DEF AcceptTimesOut, Abandon, Goes, Trades, others, procVars,
                 NetworkKept, QemuPhases, StopsStarted, NetworkUp, Built
  <1> QED BY <1>1, <1>2, <1>3, <1>4, <1>5, <1>6, <1>7, <1>8, <1>9, <1>10, <1>11, <1>12, Zenon
          DEF NewVMBackend

LEMMA InvBackendClose ==
  ASSUME Inv, NEW v \in Vms, BackendClose(v)
  PROVE  NetworkKept' /\ QemuPhases' /\ StopsStarted'
  <1> USE DEF Inv, TypeOK
  <1>1. CASE CloseConns(v)
    BY <1>1 DEF CloseConns, Closes, Trades, closeOthers, others, NetworkKept,
                QemuPhases, StopsStarted, NetworkUp, Built
  <1>2. CASE QemuReaped(v)
    BY <1>2 DEF QemuReaped, closeOthers, others, procVars, NetworkKept,
                QemuPhases, StopsStarted, NetworkUp, Built
  <1>3. CASE TermTimesOut(v)
    BY <1>3 DEF TermTimesOut, Closes, closeOthers, others, NetworkKept,
                QemuPhases, StopsStarted, NetworkUp, Built
  <1>4. CASE KillTimesOut(v)
    BY <1>4 DEF KillTimesOut, Closes, closeOthers, others, procVars,
                NetworkKept, QemuPhases, StopsStarted, NetworkUp, Built
  <1>5. CASE StopFsd(v)
    BY <1>5, Zenon DEF StopFsd, closeOthers, others, NetworkKept, QemuPhases,
                StopsStarted, NetworkUp, Built
  <1>6. CASE RemoveDir(v)
    BY <1>6 DEF RemoveDir, Closes, Trades, closeOthers, others, procVars,
                NetworkKept, QemuPhases, StopsStarted, NetworkUp, Built
  <1> QED BY <1>1, <1>2, <1>3, <1>4, <1>5, <1>6, Zenon DEF BackendClose

LEMMA InvFinish ==
  ASSUME Inv, NEW v \in Vms, Finish(v)
  PROVE  NetworkKept' /\ QemuPhases' /\ StopsStarted'
  <1> USE DEF Inv, TypeOK
  <1>1. CASE BackendClosed(v)
    BY <1>1 DEF BackendClosed, Goes, others, netVars, procVars, NetworkKept,
                QemuPhases, StopsStarted, NetworkUp, Built
  <1>2. CASE FallBackToHost(v)
    BY <1>2 DEF FallBackToHost, Goes, others, netVars, procVars, NetworkKept,
                QemuPhases, StopsStarted, NetworkUp, Built
  <1>3. CASE GiveUp(v)
    BY <1>3 DEF GiveUp, Goes, NetworkClose, Trades, others, procVars,
                NetworkKept, QemuPhases, StopsStarted, NetworkUp, Built
  <1>4. CASE NewHostBackend(v)
    BY <1>4 DEF NewHostBackend, Goes, Trades, others, procVars, NetworkKept,
                QemuPhases, StopsStarted, NetworkUp, Built
  <1>5. CASE HostBackendFails(v)
    BY <1>5 DEF HostBackendFails, Goes, Trades, RootLeft, others, procVars,
                NetworkKept, QemuPhases, StopsStarted, NetworkUp, Built
  <1>6. CASE HostBackendFailed(v)
    BY <1>6 DEF HostBackendFailed, Goes, NetworkClose, Trades, others, procVars,
                NetworkKept, QemuPhases, StopsStarted, NetworkUp, Built
  <1>7. CASE RegisterVM(v)
    BY <1>7 DEF RegisterVM, Goes, netVars, procVars, NetworkKept, QemuPhases,
                StopsStarted, NetworkUp, Built
  <1> QED BY <1>1, <1>2, <1>3, <1>4, <1>5, <1>6, <1>7, Zenon DEF Finish

LEMMA InvStop ==
  ASSUME Inv, NEW s \in Stops, Stop(s)
  PROVE  NetworkKept' /\ QemuPhases' /\ StopsStarted'
  <1> USE DEF Inv, TypeOK
  <1>1. CASE StopVM(s)
    <2> DEFINE w == stop[s].vm
    <2>1. w \in Vms /\ start[w] = "ok" /\ closing[w] = "no"
      BY <1>1, Zenon DEF StopVM, StopsStarted, Closes
    <2>2. \A v \in Vms \ {w} : held'[v] = held[v] /\ closing'[v] = closing[v]
      BY <1>1 DEF StopVM, Closes, Trades
    <2>3. closing'[w] = IF backend[w] = "vm" THEN "conns" ELSE "done"
      BY <1>1, <2>1, Zenon DEF StopVM, Closes
    <2>4. held[w] \ {"root"} \subseteq held'[w]
      BY <1>1, <2>1 DEF StopVM, Trades
    <2>5. UNCHANGED <<req, start, backend, qemu>>
      BY <1>1, Zenon DEF StopVM, procVars
    <2>6. NetworkKept'
      BY <2>1, <2>2, <2>4, <2>5 DEF NetworkKept, NetworkUp, Built
    <2>7. QemuPhases'
      BY <2>1, <2>2, <2>3, <2>5 DEF QemuPhases
    <2>8. StopsStarted'
      BY <1>1, <2>1, <2>5 DEF StopVM, StopsStarted
    <2> QED BY <2>6, <2>7, <2>8, Zenon
  <1>2. CASE StopVMNotFound(s)
    BY <1>2 DEF StopVMNotFound, netVars, procVars, NetworkKept, QemuPhases,
                StopsStarted, NetworkUp, Built
  <1>3. CASE StopNetwork(s)
    <2> DEFINE w == stop[s].vm
    <2>1. w \in Vms /\ start[w] = "ok" /\ closing[w] = "done"
      BY <1>3, Zenon DEF StopNetwork, StopsStarted
    <2>2. \A v \in Vms \ {w} : held'[v] = held[v]
      BY <1>3 DEF StopNetwork, NetworkClose, Trades
    <2>3. UNCHANGED <<req, vms, start, backend, closing, qemu>>
      BY <1>3, Zenon DEF StopNetwork, procVars
    <2>4. NetworkKept'
      BY <2>1, <2>2, <2>3, Zenon DEF NetworkKept, NetworkUp, Built
    <2>5. QemuPhases'
      BY <2>3, Zenon DEF QemuPhases
    <2>6. \A t \in Stops : stop'[t].vm = stop[t].vm /\ (t # s => stop'[t] = stop[t])
      BY <1>3 DEF StopNetwork
    <2>7. StopsStarted'
      BY <2>1, <2>3, <2>6 DEF StopsStarted
    <2> QED BY <2>4, <2>5, <2>7, Zenon
  <1> QED BY <1>1, <1>2, <1>3, Zenon DEF Stop

LEMMA InvStep == Inv /\ [Next]_vars => Inv'
  <1> SUFFICES ASSUME Inv, [Next]_vars PROVE NetworkKept' /\ QemuPhases' /\ StopsStarted'
    BY TypeStep, Zenon DEF Inv
  <1>1. CASE UNCHANGED vars
    BY <1>1, Zenon DEF Inv, vars, netVars, procVars, NetworkKept, QemuPhases,
                StopsStarted, NetworkUp
  <1>2. CASE \E v \in Vms : StartVM(v)
    BY <1>2 DEF Inv, TypeOK, StartVM, Goes, others, netVars, procVars,
                NetworkKept, QemuPhases, StopsStarted, NetworkUp, Built
  <1>3. CASE \E v \in Vms : Daemon(v)
    BY <1>3, InvNetwork, InvNewVMBackend, InvBackendClose, InvFinish, Zenon DEF Daemon
  <1>4. CASE \E v \in Vms : QemuEnds(v)
    BY <1>4 DEF Inv, TypeOK, QemuEnds, others, netVars,
                NetworkKept, QemuPhases, StopsStarted, NetworkUp, Built
  <1>5. CASE \E s \in Stops : Stop(s)
    BY <1>5, InvStop, Zenon
  <1> QED BY <1>1, <1>2, <1>3, <1>4, <1>5, Zenon DEF Next

(* While QEMU runs, the proxy and the packet filter its request asks for   *)
(* are up: through every failure of StartVM and every interleaving of      *)
(* StopVM's timeouts with the end of QEMU.                                 *)
THEOREM PolicyEnforced == Spec => []EnforcedWhileRunning
  <1>1. Inv => EnforcedWhileRunning
    BY Zenon DEF Inv, NetworkKept, QemuPhases, NetworkUp, Built, EnforcedWhileRunning
  <1> QED BY <1>1, InvInit, InvStep, PTL DEF Spec

-----------------------------------------------------------------------------
(* What is left of a machine, by where StartVM and Close are.  The         *)
(* properties about failed starts and stopped machines are not inductive:  *)
(* they need what the daemon holds at every step before.                   *)
NetRes == {"proxy", "anchor"}
RootMay(v) == IF req[v].ro /\ req[v].mounts > 0 THEN {"root"} ELSE {}

\* What newNetworkManager has built so far.
BeforeBackend(v) ==
  start[v] \in {"idle", "network", "strict", "mode", "assets"} =>
    /\ fsds[v] = 0 /\ rpcs[v] = 0
    /\ held[v] \subseteq NetRes
    /\ start[v] \in {"idle", "network"} => held[v] = {}
    /\ start[v] = "strict" => held[v] \subseteq {"proxy"}

\* What newVMBackend has built so far.
InBackend(v) ==
  /\ start[v] \in {"mounts", "qemu", "fsrpc", "accept"} =>
       "dir" \in held[v] /\ held[v] \subseteq NetRes \cup {"dir", "listener"}
  /\ start[v] = "mounts" => rpcs[v] = 0 /\ (UsesFsds(v) \/ fsds[v] = 0)
  /\ start[v] \in {"qemu", "fsrpc"} =>
       IF UsesFsds(v) THEN fsds[v] = req[v].mounts /\ rpcs[v] = 0 ELSE fsds[v] = 0
  /\ start[v] = "qemu" => rpcs[v] = 0
  /\ start[v] = "accept" => fsds[v] + rpcs[v] = req[v].mounts

\* What newVMBackend leaves when it fails, and newVM after it.
AfterFailure(v) ==
  /\ start[v] \in {"fallback", "host", "undone", "failed"} => fsds[v] = 0 /\ rpcs[v] = 0
  /\ start[v] = "closing" => why[v] = "other" /\ closing[v] # "no"
  /\ start[v] = "fallback" =>
       held[v] \subseteq NetRes \cup (IF why[v] = "other" THEN {"lateConn"} ELSE {})
  /\ start[v] = "fallback" /\ why[v] # "other" => closing[v] = "no"
  /\ start[v] \in {"host", "undone"} => req[v].net # "strict" /\ closing[v] = "no"
  /\ start[v] = "host" => held[v] \subseteq NetRes
  /\ start[v] = "undone" => held[v] \subseteq NetRes \cup RootMay(v)
  /\ start[v] = "failed" =>
       held[v] \subseteq {"lateConn"} \cup (IF v \in flushFailed THEN {"anchor"} ELSE {})
                           \cup RootMay(v)

\* How far Close is tells what is left of a backend.
WhileClosing(v) ==
  closing[v] # "no" =>
    /\ start[v] \in {"closing", "fallback", "failed", "ok"}
    /\ start[v] \in {"closing", "ok"} =>
         held[v] \subseteq NetRes
            \cup (IF start[v] = "closing" THEN {"lateConn"} ELSE {})
            \cup (IF backend[v] = "host" THEN RootMay(v)
                  ELSE IF closing[v] = "conns" THEN {"conn", "dir"}
                  ELSE IF closing[v] = "done" THEN {} ELSE {"dir"})
    /\ closing[v] # "conns" => rpcs[v] = 0
    /\ closing[v] = "done" => fsds[v] = 0
    /\ backend[v] = "host" => closing[v] = "done"

\* The backend is as newVM returned it.
Complete(v) ==
  IF backend[v] = "vm"
  THEN /\ {"conn", "dir"} \subseteq held[v]
       /\ held[v] \subseteq NetRes \cup {"conn", "dir"}
       /\ fsds[v] + rpcs[v] = req[v].mounts
  ELSE /\ "root" \in held[v] /\ held[v] \subseteq NetRes \cup {"root"}
       /\ fsds[v] = 0 /\ rpcs[v] = 0

\* A machine that nobody has begun to close is complete, and in the table.
InTable(v) ==
  /\ start[v] = "register" => closing[v] = "no" /\ Complete(v)
  /\ start[v] = "ok" /\ closing[v] = "no" => Complete(v)
  /\ start[v] = "ok" => (closing[v] = "no" <=> v \in vms)
  /\ v \in flushFailed => start[v] = "failed" \/ (start[v] = "ok" /\ closing[v] = "done")
  /\ backend[v] = "host" => req[v].net # "strict"

Footprint(v) ==
  BeforeBackend(v) /\ InBackend(v) /\ AfterFailure(v) /\ WhileClosing(v) /\ InTable(v)

(* One StopVM has each machine that is closed, and only it flushes rules.  *)
Took(s) == stop[s].at \in {"backend", "ok", "error"}
StopOwns ==
  /\ \A s, t \in Stops : Took(s) /\ Took(t) /\ stop[s].vm = stop[t].vm => s = t
  /\ \A s \in Stops :
       /\ Took(s) => closing[stop[s].vm] # "no"
       /\ stop[s].at \in {"ok", "error"} => closing[stop[s].vm] = "done"
       /\ stop[s].at = "backend" => stop[s].vm \notin flushFailed
       /\ stop[s].at = "ok" => held[stop[s].vm] \cap NetRes = {}

FullInv == Inv /\ (\A v \in Vms : Footprint(v)) /\ StopOwns

(* What the invariant says of one machine, without quantifiers.            *)
Typed ==
  /\ req \in [Vms -> Requests] /\ start \in [Vms -> StartSteps]
  /\ why \in [Vms -> {"none", "unavailable", "other"}]
  /\ backend \in [Vms -> {"none", "vm", "host"}]
  /\ closing \in [Vms -> {"no", "conns", "term", "kill", "fsds", "done"}]
  /\ held \in [Vms -> SUBSET Resources]
  /\ fsds \in [Vms -> 0 .. MaxMounts] /\ rpcs \in [Vms -> 0 .. MaxMounts]

At(v) ==
  /\ Footprint(v)
  /\ start[v] \in {"register", "ok"} <=> backend[v] # "none"
  /\ start[v] \in {"idle", "network", "strict", "mode", "assets", "mounts", "qemu",
                    "fsrpc", "accept"} => closing[v] = "no"
  /\ v \in vms => start[v] = "ok"

LEMMA FullInvAt ==
  ASSUME FullInv
  PROVE  Typed /\ \A v \in Vms : At(v)
  BY Zenon DEF FullInv, Inv, TypeOK, QemuPhases, StopsStarted, Typed, At

\* A step of one machine's calls leaves the others alone.
Same(w) ==
  /\ start'[w] = start[w] /\ why'[w] = why[w] /\ backend'[w] = backend[w]
  /\ closing'[w] = closing[w] /\ held'[w] = held[w]
  /\ fsds'[w] = fsds[w] /\ rpcs'[w] = rpcs[w] /\ req'[w] = req[w]
  /\ w \in vms' <=> w \in vms
  /\ w \in flushFailed' <=> w \in flushFailed

LEMMA SameFootprint ==
  ASSUME NEW w \in Vms, Footprint(w), Same(w)
  PROVE  Footprint(w)'
  BY SMTT(30) DEF Same, Footprint, BeforeBackend, InBackend, AfterFailure, WhileClosing, InTable,
         Complete, RootMay, UsesFsds

LEMMA OthersSame ==
  ASSUME FullInv, NEW v \in Vms, Daemon(v), NEW w \in Vms, w # v
  PROVE  Same(w)
  <1>0. Typed
    BY FullInvAt, Zenon
  <1> USE <1>0 DEF Typed, Same, Goes, Trades, others, netVars, procVars
  <1>1. CASE Network(v)
    BY <1>1 DEF Network, NetworkRefused, NewProxyServer, StrictTransport,
                StrictTransportFails, ChooseBackend, RefuseStrictOnHost, NetworkClose
  <1>2. CASE NewVMBackend(v)
    BY <1>2 DEF NewVMBackend, CreateTempDir, AssetsMissing, StartFsd, MountsRefused,
                MountsPrepared, StartQemu, QemuNotStarted, DialMount, DialTimesOut,
                ServersStarted, Accept, AcceptTimesOut, Abandon
  <1>3. CASE BackendClose(v)
    BY <1>3 DEF BackendClose, CloseConns, QemuReaped, TermTimesOut, KillTimesOut, StopFsd,
                RemoveDir, Closes, closeOthers
  <1>4. CASE Finish(v)
    BY <1>4 DEF Finish, BackendClosed, FallBackToHost, GiveUp, NewHostBackend,
                HostBackendFails, HostBackendFailed, RegisterVM, NetworkClose
  <1> HIDE DEF Same
  <1> QED BY <1>1, <1>2, <1>3, <1>4, Zenon DEF Daemon

LEMMA FootprintNetwork ==
  ASSUME FullInv, NEW v \in Vms, Network(v)
  PROVE  Footprint(v)'
  <1>0. Typed /\ At(v)
    BY FullInvAt, Zenon
  <1> USE <1>0 DEF Typed, At, Footprint, BeforeBackend, InBackend, AfterFailure,
                  WhileClosing, InTable, Complete, NetRes, RootMay, UsesFsds
  <1>1. CASE NetworkRefused(v)
    BY <1>1, Zenon DEF NetworkRefused, Goes, others, netVars, procVars
  <1>2. CASE NewProxyServer(v)
    BY <1>2 DEF NewProxyServer, Goes, Trades, others, procVars
  <1>3. CASE StrictTransport(v)
    BY <1>3 DEF StrictTransport, Goes, Trades, others, procVars
  <1>4. CASE StrictTransportFails(v)
    BY <1>4 DEF StrictTransportFails, Goes, Trades, others, procVars
  <1>5. CASE ChooseBackend(v)
    BY <1>5 DEF ChooseBackend, Goes, others, netVars, procVars
  <1>6. CASE RefuseStrictOnHost(v)
    BY <1>6, SMTT(30) DEF RefuseStrictOnHost, Goes, NetworkClose, others, procVars,
               Trades
  <1> HIDE DEF Footprint, At
  <1> QED BY <1>1, <1>2, <1>3, <1>4, <1>5, <1>6, Zenon DEF Network

LEMMA FootprintNewVMBackend ==
  ASSUME FullInv, NEW v \in Vms, NewVMBackend(v)
  PROVE  Footprint(v)'
  <1>0. Typed /\ At(v)
    BY FullInvAt, Zenon
  <1> USE <1>0 DEF Typed, At, Footprint, BeforeBackend, InBackend, AfterFailure,
                  WhileClosing, InTable, Complete, NetRes, RootMay, UsesFsds
  <1>1. CASE CreateTempDir(v)
    BY <1>1 DEF CreateTempDir, Goes, Trades, others, procVars
  <1>2. CASE AssetsMissing(v)
    BY <1>2 DEF AssetsMissing, Goes, others, netVars, procVars
  <1>3. CASE StartFsd(v)
    BY <1>3, Zenon DEF StartFsd, others, netVars
  <1>4. CASE MountsRefused(v)
    BY <1>4 DEF MountsRefused, Goes, Trades, others
  <1>5. CASE MountsPrepared(v)
    BY <1>5 DEF MountsPrepared, Goes, others, netVars, procVars
  <1>6. CASE StartQemu(v)
    BY <1>6 DEF StartQemu, Goes, others, netVars
  <1>7. CASE QemuNotStarted(v)
    BY <1>7 DEF QemuNotStarted, Abandon, procVars, Goes, Trades, others
  <1>8. CASE DialMount(v)
    BY <1>8, Zenon DEF DialMount, others, netVars
  <1>9. CASE DialTimesOut(v)
    BY <1>9 DEF DialTimesOut, Abandon, Goes, Trades, others
  <1>10. CASE ServersStarted(v)
    <2>1. start[v] = "fsrpc" /\ start'[v] = "accept"
      BY <1>10 DEF ServersStarted, Goes
    <2>2. /\ UNCHANGED <<req, vms, why, backend, closing, held, flushFailed, fsds, rpcs>>
          /\ ~UsesFsds(v) => rpcs[v] = req[v].mounts
      BY <1>10, Zenon DEF ServersStarted, others, netVars
    <2>3. fsds[v] + rpcs[v] = req[v].mounts
      BY <2>1, <2>2
    <2> QED BY <2>1, <2>2, <2>3, Zenon
  <1>11. CASE Accept(v)
    BY <1>11 DEF Accept, Goes, Trades, others, procVars
  <1>12. CASE AcceptTimesOut(v)
    BY <1>12, SMTT(30) DEF AcceptTimesOut, Abandon, procVars, Goes, Trades, others
  <1> HIDE DEF Footprint, At
  <1> QED BY <1>1, <1>2, <1>3, <1>4, <1>5, <1>6, <1>7, <1>8, <1>9, <1>10,
            <1>11, <1>12, Zenon DEF NewVMBackend

LEMMA FootprintBackendClose ==
  ASSUME FullInv, NEW v \in Vms, BackendClose(v)
  PROVE  Footprint(v)'
  <1>0. Typed /\ At(v)
    BY FullInvAt, Zenon
  <1> USE <1>0 DEF Typed, At, Footprint, BeforeBackend, InBackend, AfterFailure,
                  WhileClosing, InTable, Complete, NetRes, RootMay, UsesFsds
  <1>1. CASE CloseConns(v)
    BY <1>1 DEF CloseConns, Trades, Closes, closeOthers, others
  <1>2. CASE QemuReaped(v)
    BY <1>2 DEF QemuReaped, closeOthers, procVars, others
  <1>3. CASE TermTimesOut(v)
    BY <1>3 DEF TermTimesOut, Closes, closeOthers, others
  <1>4. CASE KillTimesOut(v)
    BY <1>4 DEF KillTimesOut, Closes, closeOthers, procVars, others
  <1>5. CASE StopFsd(v)
    BY <1>5, SMTT(30) DEF StopFsd, closeOthers, others
  <1>6. CASE RemoveDir(v)
    BY <1>6 DEF RemoveDir, Trades, Closes, closeOthers, procVars, others
  <1> HIDE DEF Footprint, At
  <1> QED BY <1>1, <1>2, <1>3, <1>4, <1>5, <1>6, Zenon DEF BackendClose

LEMMA FootprintFinish ==
  ASSUME FullInv, NEW v \in Vms, Finish(v)
  PROVE  Footprint(v)'
  <1>0. Typed /\ At(v)
    BY FullInvAt, Zenon
  <1> USE <1>0 DEF Typed, At, Footprint, BeforeBackend, InBackend, AfterFailure,
                  WhileClosing, InTable, Complete, NetRes, RootMay, UsesFsds
  <1>1. CASE BackendClosed(v)
    BY <1>1 DEF BackendClosed, Goes, others, netVars, procVars
  <1>2. CASE FallBackToHost(v)
    BY <1>2, Zenon DEF FallBackToHost, Goes, others, netVars, procVars, MayFallBack
  <1>3. CASE GiveUp(v)
    BY <1>3, SMTT(30) DEF GiveUp, Goes, NetworkClose, others, procVars, MayFallBack,
               Trades
  <1>4. CASE NewHostBackend(v)
    BY <1>4 DEF NewHostBackend, Goes, Trades, others, procVars
  <1>5. CASE HostBackendFails(v)
    BY <1>5, SMTT(30) DEF HostBackendFails, Goes, Trades, others, procVars, RootLeft
  <1>6. CASE HostBackendFailed(v)
    BY <1>6, SMTT(30) DEF HostBackendFailed, Goes, NetworkClose, others, procVars,
               Trades
  <1>7. CASE RegisterVM(v)
    BY <1>7 DEF RegisterVM, Goes, netVars, procVars
  <1> HIDE DEF Footprint, At
  <1> QED BY <1>1, <1>2, <1>3, <1>4, <1>5, <1>6, <1>7, Zenon DEF Finish

LEMMA FootprintStop ==
  ASSUME FullInv, NEW s \in Stops, Stop(s), NEW w \in Vms
  PROVE  Footprint(w)'
  <1>a. PICK v \in Vms : v = stop[s].vm
    BY Zenon DEF FullInv, Inv, TypeOK
  <1>b. stop[s].at # "idle" => start[v] = "ok"
    BY <1>a, Zenon DEF FullInv, Inv, StopsStarted
  <1>0. Typed /\ At(v) /\ At(w)
    BY <1>a, FullInvAt, Zenon
  <1>c. Footprint(w)
    BY <1>0, Zenon DEF At
  <1>1. CASE StopVM(s)
    <2>1. v \in vms /\ start[v] = "ok" /\ closing[v] = "no"
      BY <1>0, <1>a, <1>1, Zenon DEF StopVM, Closes, At
    <2>2. /\ vms' = vms \ {v}
          /\ closing' = [closing EXCEPT ![v] = IF backend[v] = "vm" THEN "conns" ELSE "done"]
          /\ UNCHANGED <<req, start, why, backend, flushFailed, fsds, rpcs>>
      BY <1>a, <1>1, Zenon DEF StopVM, Closes, procVars
    <2>3. /\ \A u \in Vms \ {v} : held'[u] = held[u]
          /\ held'[v] \subseteq
               (held[v] \ {"root"}) \cup (IF backend[v] = "host" THEN RootMay(v) ELSE {})
      BY <1>0, <1>a, <1>1 DEF StopVM, Trades, RootLeft, RootMay, Typed
    <2>4. CASE w = v
      <3>1. Complete(v) /\ v \notin flushFailed
        BY <1>0, <2>1, Zenon DEF At, Footprint, InTable
      <3>2. closing'[v] = IF backend[v] = "vm" THEN "conns" ELSE "done"
        BY <1>0, <1>a, <2>2, Zenon DEF Typed
      <3>3. BeforeBackend(v)' /\ InBackend(v)' /\ AfterFailure(v)'
        BY <2>1, <2>2, Zenon DEF BeforeBackend, InBackend, AfterFailure
      <3>4. InTable(v)'
        BY <1>0, <2>1, <2>2, <3>1, <3>2, SMTT(30) DEF InTable, At, Footprint
      <3>5. backend[v] \in {"vm", "host"}
        BY <1>0, <1>a, <2>1, Zenon DEF Typed, At
      <3>6. WhileClosing(v)'
        BY <2>1, <2>2, <2>3, <3>1, <3>2, <3>5 DEF WhileClosing, Complete, RootMay, NetRes
      <3> QED BY <2>4, <3>3, <3>4, <3>6, Zenon DEF Footprint
    <2>5. CASE w # v
      <3>1. Same(w)
        BY <1>0, <2>2, <2>3, <2>5, Zenon DEF Same, Typed
      <3> QED BY <1>c, <3>1, SameFootprint, Zenon
    <2> QED BY <2>4, <2>5, Zenon
  <1>2. CASE StopVMNotFound(s)
    <2>1. Same(w)
      BY <1>2, Zenon DEF StopVMNotFound, netVars, procVars, Same
    <2> QED BY <1>c, <2>1, SameFootprint, Zenon
  <1>3. CASE StopNetwork(s)
    <2>1. start[v] = "ok" /\ closing[v] = "done"
      BY <1>a, <1>3, <1>b, Zenon DEF StopNetwork
    <2>2. /\ UNCHANGED <<req, vms, start, why, backend, closing, fsds, rpcs>>
          /\ flushFailed \subseteq flushFailed' /\ flushFailed' \subseteq flushFailed \cup {v}
          /\ \A u \in Vms \ {v} : held'[u] = held[u]
          /\ held'[v] \subseteq held[v]
      BY <1>0, <1>a, <1>3 DEF StopNetwork, NetworkClose, Trades, procVars, Typed
    <2>3. CASE w = v
      <3>1. BeforeBackend(v)' /\ InBackend(v)' /\ AfterFailure(v)'
        BY <2>1, <2>2, Zenon DEF BeforeBackend, InBackend, AfterFailure
      <3>2. InTable(v)'
        BY <1>0, <2>1, <2>2, Zenon DEF At, Footprint, InTable
      <3>3. WhileClosing(v)'
        BY <1>0, <2>1, <2>2, Zenon DEF At, Footprint, WhileClosing, RootMay
      <3> QED BY <2>3, <3>1, <3>2, <3>3, Zenon DEF Footprint
    <2>4. CASE w # v
      <3>1. Same(w)
        BY <2>2, <2>4, Zenon DEF Same
      <3> QED BY <1>c, <3>1, SameFootprint, Zenon
    <2> QED BY <2>3, <2>4, Zenon
  <1> QED BY <1>1, <1>2, <1>3, Zenon DEF Stop

LEMMA FootprintStep ==
  ASSUME FullInv, [Next]_vars, NEW w \in Vms
  PROVE  Footprint(w)'
  <1>1. CASE UNCHANGED vars
    BY <1>1, SameFootprint, Zenon DEF FullInv, vars, netVars, procVars, Same
  <1>2. ASSUME NEW v \in Vms, StartVM(v) PROVE Footprint(w)'
    <2>0. Typed /\ At(v) /\ At(w)
      BY FullInvAt, Zenon
    <2>1. CASE w = v
      BY <1>2, <2>0, <2>1
      DEF Typed, At, StartVM, Goes, others, netVars, procVars, Footprint,
                BeforeBackend, InBackend, AfterFailure, WhileClosing, InTable, Complete
    <2>2. CASE w # v
      <3>1. Same(w)
        BY <1>2, <2>0, <2>2, Zenon DEF Typed, StartVM, Goes, others, netVars, procVars, Same
      <3> QED BY <2>0, <3>1, SameFootprint, Zenon DEF At
    <2> QED BY <2>1, <2>2, Zenon
  <1>3. ASSUME NEW v \in Vms, Daemon(v) PROVE Footprint(w)'
    <2>1. CASE w = v
      BY <1>3, <2>1, FootprintNetwork, FootprintNewVMBackend, FootprintBackendClose,
         FootprintFinish, Zenon DEF Daemon
    <2>2. CASE w # v
      BY <1>3, <2>2, OthersSame, SameFootprint, Zenon DEF FullInv
    <2> QED BY <2>1, <2>2, Zenon
  <1>4. CASE \E v \in Vms : QemuEnds(v)
    BY <1>4, SameFootprint, Zenon DEF FullInv, QemuEnds, others, netVars, Same
  <1>5. CASE \E s \in Stops : Stop(s)
    BY <1>5, FootprintStop, Zenon
  <1> QED BY <1>1, <1>2, <1>3, <1>4, <1>5, Zenon DEF Next

\* StartVM is done with a machine before any StopVM has it.
LEMMA OwnsStart ==
  ASSUME FullInv, NEW v \in Vms, start[v] # "ok", UNCHANGED stop,
         \A w \in Vms \ {v} : Same(w)
  PROVE  StopOwns'
  <1>1. \A s \in Stops : Took(s) => stop[s].vm \in Vms \ {v}
    BY DEF FullInv, Inv, TypeOK, StopsStarted, Took
  <1> QED BY <1>1 DEF FullInv, StopOwns, Took, Same

LEMMA OwnsDaemon ==
  ASSUME FullInv, NEW v \in Vms, Daemon(v)
  PROVE  StopOwns'
  <1>0. \A w \in Vms \ {v} : Same(w)
    BY OthersSame, Zenon
  <1>1. CASE Network(v)
    <2>1. start[v] # "ok" /\ UNCHANGED stop
      BY <1>1, Zenon DEF Network, NetworkRefused, NewProxyServer, StrictTransport,
                  StrictTransportFails, ChooseBackend, RefuseStrictOnHost, Goes, others
    <2> QED BY <1>0, <2>1, OwnsStart, Zenon
  <1>2. CASE NewVMBackend(v)
    <2>1. start[v] # "ok" /\ UNCHANGED stop
      BY <1>2, Zenon
      DEF NewVMBackend, CreateTempDir, AssetsMissing, StartFsd, MountsRefused,
                  MountsPrepared, StartQemu, QemuNotStarted, DialMount, DialTimesOut,
                  ServersStarted, Accept, AcceptTimesOut, Abandon, Goes, others
    <2> QED BY <1>0, <2>1, OwnsStart, Zenon
  <1>3. CASE Finish(v)
    <2>1. start[v] # "ok" /\ UNCHANGED stop
      BY <1>3, Zenon DEF Finish, BackendClosed, FallBackToHost, GiveUp, NewHostBackend,
                  HostBackendFails, HostBackendFailed, RegisterVM, Goes, others
    <2> QED BY <1>0, <2>1, OwnsStart, Zenon
  <1>4. CASE BackendClose(v)
    <2>1. /\ UNCHANGED <<stop, flushFailed>>
          /\ closing[v] # "done" /\ closing'[v] # "no"
          /\ held'[v] \subseteq held[v]
      <3>1. Typed
        BY FullInvAt, Zenon
      <3> QED BY <1>4, <3>1 DEF BackendClose, CloseConns, QemuReaped, TermTimesOut,
                KillTimesOut, StopFsd, RemoveDir, Closes, Trades, closeOthers, others,
                netVars, procVars, Typed
    <2>2. \A s \in Stops : stop[s].vm \in Vms
      BY Zenon DEF FullInv, Inv, TypeOK
    <2>3. StopOwns
      BY Zenon DEF FullInv
    <2>4. ASSUME NEW s \in Stops
          PROVE  /\ Took(s) => closing'[stop[s].vm] # "no"
                 /\ closing[stop[s].vm] = "done" => closing'[stop[s].vm] = "done"
                 /\ held'[stop[s].vm] \subseteq held[stop[s].vm]
      <3>1. CASE stop[s].vm = v
        BY <2>1, <3>1, Zenon
      <3>2. CASE stop[s].vm # v
        BY <1>0, <2>2, <2>3, <3>2, SMTT(30) DEF StopOwns, Same
      <3> QED BY <3>1, <3>2, Zenon
    <2> QED BY <2>1, <2>3, <2>4, Zenon DEF StopOwns, Took
  <1> QED BY <1>1, <1>2, <1>3, <1>4, Zenon DEF Daemon

LEMMA OwnsStop ==
  ASSUME FullInv, NEW s \in Stops, Stop(s)
  PROVE  StopOwns'
  <1>t. /\ stop \in [Stops -> [at : {"idle", "backend", "ok", "error", "notfound"}, vm : Vms]]
        /\ closing \in [Vms -> {"no", "conns", "term", "kill", "fsds", "done"}]
        /\ held \in [Vms -> SUBSET Resources]
    BY Zenon DEF FullInv, Inv, TypeOK
  <1>o. StopOwns
    BY Zenon DEF FullInv
  <1>i. \A t \in vms : start[t] = "ok"
    BY Zenon DEF FullInv, Inv, StopsStarted
  <1>f. \A t \in Vms : InTable(t)
    BY Zenon DEF FullInv, Footprint
  <1> USE <1>t, <1>o DEF StopOwns, Took
  <1> DEFINE v == stop[s].vm
  <1>0. v \in Vms
    BY Zenon
  <1>1. CASE StopVM(s)
    <2>1. v \in vms /\ start[v] = "ok" /\ closing[v] = "no"
      BY <1>1, <1>i, Zenon DEF StopVM, Closes
    <2>2. /\ closing' = [closing EXCEPT ![v] = IF backend[v] = "vm" THEN "conns" ELSE "done"]
          /\ UNCHANGED flushFailed
          /\ \A u \in Vms \ {v} : held'[u] = held[u]
      BY <1>0, <1>1, Zenon DEF StopVM, Closes, Trades
    <2>3. /\ stop'[s].at = "backend" /\ stop'[s].vm = v
          /\ \A t \in Stops \ {s} : stop'[t] = stop[t]
      BY <1>1, Zenon DEF StopVM
    <2>4. v \notin flushFailed
      BY <1>0, <1>f, <2>1, Zenon DEF InTable
    <2>5. \A t \in Stops : Took(t) => stop[t].vm # v
      BY <2>1, Zenon
    <2>6. closing'[v] # "no"
      BY <1>0, <2>2, Zenon
    <2>7. ASSUME NEW t \in Stops, t # s, Took(t)
          PROVE  /\ closing'[stop[t].vm] = closing[stop[t].vm]
                 /\ held'[stop[t].vm] = held[stop[t].vm]
      BY <2>2, <2>5, <2>7, Zenon
    <2>8. ASSUME NEW t \in Stops, NEW u \in Stops, Took(t)', Took(u)',
                 stop'[t].vm = stop'[u].vm
          PROVE  t = u
      BY <2>3, <2>5, <2>8, SMTT(30)
    <2>9. ASSUME NEW t \in Stops
          PROVE  /\ Took(t)' => closing'[stop'[t].vm] # "no"
                 /\ stop'[t].at \in {"ok", "error"} => closing'[stop'[t].vm] = "done"
                 /\ stop'[t].at = "backend" => stop'[t].vm \notin flushFailed'
                 /\ stop'[t].at = "ok" => held'[stop'[t].vm] \cap NetRes = {}
      BY <2>2, <2>3, <2>4, <2>6, <2>7
    <2> QED BY <2>8, <2>9, Zenon
  <1>2. CASE StopVMNotFound(s)
    <2>1. UNCHANGED <<closing, held, flushFailed>>
      BY <1>2, Zenon DEF StopVMNotFound, netVars
    <2>2. /\ stop'[s].at = "notfound" /\ \A t \in Stops \ {s} : stop'[t] = stop[t]
      BY <1>2, Zenon DEF StopVMNotFound
    <2> QED BY <2>1, <2>2, SMTT(30)
  <1>3. CASE StopNetwork(s)
    <2>1. /\ UNCHANGED closing
          /\ \A u \in Vms \ {v} : held'[u] = held[u]
          /\ closing[v] = "done" /\ stop[s].at = "backend" /\ v \notin flushFailed
      BY <1>0, <1>3, Zenon DEF StopNetwork, NetworkClose, Trades
    <2>2. /\ stop'[s].at = (IF flushFailed' = flushFailed THEN "ok" ELSE "error")
          /\ stop'[s].vm = v
          /\ \A t \in Stops \ {s} : stop'[t] = stop[t]
      BY <1>3, Zenon DEF StopNetwork
    <2>3. \A t \in Stops \ {s} : Took(t) => stop[t].vm # v
      BY <2>1, Zenon
    <2>4. \/ held'[v] \cap NetRes = {} /\ flushFailed' = flushFailed
          \/ flushFailed' = flushFailed \cup {v}
      BY <1>0, <1>3 DEF StopNetwork, NetworkClose, Trades, NetRes
    <2>5. v \in flushFailed' => stop'[s].at = "error"
      BY <2>1, <2>2, Zenon
    <2>6. stop'[s].at = "ok" => held'[v] \cap NetRes = {}
      BY <2>1, <2>2, <2>4, Zenon
    <2>7. ASSUME NEW t \in Stops, t # s, Took(t)
          PROVE  /\ held'[stop[t].vm] = held[stop[t].vm]
                 /\ stop[t].vm \in flushFailed' <=> stop[t].vm \in flushFailed
      BY <2>1, <2>3, <2>4, <2>7, Zenon
    <2>8. ASSUME NEW t \in Stops, NEW u \in Stops, Took(t)', Took(u)',
                 stop'[t].vm = stop'[u].vm
          PROVE  t = u
      BY <2>2, <2>3, <2>8
    <2>9. ASSUME NEW t \in Stops
          PROVE  /\ Took(t)' => closing'[stop'[t].vm] # "no"
                 /\ stop'[t].at \in {"ok", "error"} => closing'[stop'[t].vm] = "done"
                 /\ stop'[t].at = "backend" => stop'[t].vm \notin flushFailed'
                 /\ stop'[t].at = "ok" => held'[stop'[t].vm] \cap NetRes = {}
      BY <2>1, <2>2, <2>5, <2>6, <2>7, SMTT(30)
    <2> QED BY <2>8, <2>9, Zenon
  <1> HIDE DEF StopOwns
  <1> QED BY <1>1, <1>2, <1>3, Zenon DEF Stop

LEMMA OwnsStep ==
  ASSUME FullInv, [Next]_vars
  PROVE  StopOwns'
  <1>1. CASE UNCHANGED vars
    BY <1>1, Zenon DEF FullInv, vars, netVars, StopOwns, Took
  <1>2. CASE \E v \in Vms : StartVM(v)
    <2>1. UNCHANGED <<stop, closing, held, flushFailed>>
      BY <1>2, Zenon DEF StartVM, others, netVars
    <2> QED BY <2>1, Zenon DEF FullInv, StopOwns, Took
  <1>3. CASE \E v \in Vms : Daemon(v)
    BY <1>3, OwnsDaemon, Zenon
  <1>4. CASE \E v \in Vms : QemuEnds(v)
    <2>1. UNCHANGED <<stop, closing, held, flushFailed>>
      BY <1>4, Zenon DEF QemuEnds, others, netVars
    <2> QED BY <2>1, Zenon DEF FullInv, StopOwns, Took
  <1>5. CASE \E s \in Stops : Stop(s)
    BY <1>5, OwnsStop, Zenon
  <1> QED BY <1>1, <1>2, <1>3, <1>4, <1>5, Zenon DEF Next

LEMMA FullInvHolds == Spec => []FullInv
  <1>1. Init => FullInv
    <2> SUFFICES ASSUME Init PROVE FullInv
      BY Zenon
    <2>1. ASSUME NEW v \in Vms PROVE Footprint(v)
      BY Zenon
      DEF Init, Footprint, BeforeBackend, InBackend, AfterFailure, WhileClosing, InTable
    <2>2. StopOwns
      BY Zenon DEF Init, StopOwns, Took
    <2> QED BY <2>1, <2>2, InvInit, Zenon DEF FullInv
  <1>2. FullInv /\ [Next]_vars => FullInv'
    BY InvStep, FootprintStep, OwnsStep, Zenon DEF FullInv
  <1> QED BY <1>1, <1>2, PTL DEF Spec

-----------------------------------------------------------------------------
LEMMA LeftRoot ==
  ASSUME NEW v
  PROVE  UNION RootLeft(v) = RootMay(v)
  BY Zenon DEF RootLeft, RootMay

(* A StartVM that fails, at whatever step and after whatever fallback, has *)
(* undone the steps before.                                                *)
THEOREM FailuresUndone == Spec => []FailedStartLeavesNothing
  <1>1. FullInv => FailedStartLeavesNothing
    BY LeftRoot, Zenon DEF FullInv, Inv, QemuPhases, Footprint, AfterFailure, NoProcess,
       FailedStartLeavesNothing
  <1> QED BY <1>1, FullInvHolds, PTL

(* When StopVM answers without an error nothing of the machine is left,    *)
(* although two calls may stop the same machine and QEMU may ignore        *)
(* signals.                                                                *)
THEOREM StopsComplete == Spec => []StopLeavesNothing
  <1>1. FullInv => StopLeavesNothing
    <2> SUFFICES ASSUME FullInv, NEW s \in Stops, stop[s].at = "ok"
                 PROVE  /\ NoProcess(stop[s].vm)
                        /\ held[stop[s].vm] \subseteq
                             (IF Unremovable(stop[s].vm) THEN {"root"} ELSE {})
      BY Zenon DEF StopLeavesNothing
    <2> DEFINE v == stop[s].vm
    <2>1. v \in Vms /\ start[v] = "ok" /\ closing[v] = "done" /\ held[v] \cap NetRes = {}
      BY Zenon DEF FullInv, Inv, TypeOK, StopsStarted, StopOwns
    <2>2. NoProcess(v)
      BY <2>1, Zenon DEF FullInv, Inv, QemuPhases, Footprint, WhileClosing, NoProcess
    <2>3. held[v] \subseteq (IF backend[v] = "host" THEN RootMay(v) ELSE {})
      BY <2>1, Zenon DEF FullInv, Footprint, WhileClosing
    <2> QED BY <2>2, <2>3, Zenon DEF Unremovable, RootMay
  <1> QED BY <1>1, FullInvHolds, PTL

(* A call that finds a machine in the table finds all of it.               *)
THEOREM TableTheorem == Spec => []TableComplete
  <1>1. FullInv => TableComplete
    <2> SUFFICES ASSUME FullInv, NEW v \in vms
                 PROVE  /\ closing[v] = "no"
                        /\ req[v].net # "none" => "proxy" \in held[v]
                        /\ IF backend[v] = "vm"
                           THEN /\ {"conn", "dir"} \subseteq held[v]
                                /\ fsds[v] + rpcs[v] = req[v].mounts
                           ELSE "root" \in held[v]
      BY Zenon DEF TableComplete
    <2>1. v \in Vms /\ start[v] = "ok"
      BY Zenon DEF FullInv, Inv, TypeOK, StopsStarted
    <2>2. closing[v] = "no" /\ Complete(v)
      BY <2>1, Zenon DEF FullInv, Footprint, InTable
    <2> QED BY <2>1, <2>2, Zenon DEF FullInv, Inv, NetworkKept, NetworkUp, Complete
  <1> QED BY <1>1, FullInvHolds, PTL

(* "strict egress requires VM backend": the fallback of newVM never runs a *)
(* machine with strict egress on the host.                                 *)
THEOREM StrictNeverOnHost ==
  Spec => [](\A v \in Vms : backend[v] = "host" => req[v].net # "strict")
  <1>1. FullInv => \A v \in Vms : backend[v] = "host" => req[v].net # "strict"
    BY Zenon DEF FullInv, Footprint, InTable
  <1> QED BY <1>1, FullInvHolds, PTL

-----------------------------------------------------------------------------
(* Why StartVM and StopVM return.  What is left of them is ordered: first  *)
(* by the step StartVM is at, then by how far Close is, then by the        *)
(* servers still to start or to stop.                                      *)
StartLeft(v) ==
  CASE start[v] = "idle" -> 14 [] start[v] = "network" -> 13
    [] start[v] = "strict" -> 12 [] start[v] = "mode" -> 11
    [] start[v] = "assets" -> 10 [] start[v] = "mounts" -> 9
    [] start[v] = "qemu" -> 8 [] start[v] = "fsrpc" -> 7
    [] start[v] = "accept" -> 6 [] start[v] = "closing" -> 5
    [] start[v] = "fallback" -> 4 [] start[v] = "host" -> 3
    [] start[v] = "undone" -> 2 [] start[v] = "register" -> 1
    [] OTHER -> 0

CloseLeft(v) ==
  CASE closing[v] = "conns" -> 4 [] closing[v] = "term" -> 3
    [] closing[v] = "kill" -> 2 [] closing[v] = "fsds" -> 1
    [] OTHER -> 0

ServersLeft(v) ==
  CASE start[v] = "mounts" -> req[v].mounts - fsds[v]
    [] start[v] = "fsrpc" -> req[v].mounts - rpcs[v]
    [] OTHER -> fsds[v]

LessLeft(v) ==
  \/ StartLeft(v)' < StartLeft(v)
  \/ StartLeft(v)' = StartLeft(v) /\ CloseLeft(v)' < CloseLeft(v)
  \/ /\ StartLeft(v)' = StartLeft(v) /\ CloseLeft(v)' = CloseLeft(v)
     /\ ServersLeft(v)' < ServersLeft(v)

AsMuchLeft(v) ==
  /\ StartLeft(v)' = StartLeft(v) /\ CloseLeft(v)' = CloseLeft(v)
  /\ ServersLeft(v)' = ServersLeft(v)

(* Every step of the goroutine that starts or closes a machine leaves less *)
(* to do, and nothing but the StopVM that takes it from the table adds to  *)
(* it: no failure, timeout or fallback of newVM leads back to an earlier   *)
(* step.                                                                   *)
Advance ==
  \A v \in Vms :
    /\ Daemon(v) => LessLeft(v)
    /\ \/ LessLeft(v) \/ AsMuchLeft(v)
       \/ \E s \in Stops : StopVM(s) /\ stop[s].vm = v

(* Nor is the goroutine ever without a step to take: there are not more    *)
(* servers than mounts, and whoever waits for a Close has begun it.        *)
Unblocked ==
  /\ \A v \in Vms :
       /\ ServersLeft(v) \in Nat
       /\ start[v] = "closing" => closing[v] # "no"
  /\ \A s \in Stops : stop[s].at = "backend" => closing[stop[s].vm] # "no"

Bounded(v) ==
  /\ start[v] = "mounts" => fsds[v] <= req[v].mounts
  /\ start[v] = "fsrpc" => rpcs[v] <= req[v].mounts

LEMMA Counts ==
  ASSUME FullInv, NEW v \in Vms
  PROVE  req[v].mounts \in Nat /\ fsds[v] \in Nat /\ rpcs[v] \in Nat
  <1>1. /\ req[v].mounts \in 0 .. MaxMounts /\ fsds[v] \in 0 .. MaxMounts
        /\ rpcs[v] \in 0 .. MaxMounts /\ MaxMounts \in Nat
    BY LifecycleAssumption DEF FullInv, Inv, TypeOK, Request
  <1> QED BY <1>1

LEMMA BoundedDaemon ==
  ASSUME FullInv, NEW v \in Vms, Daemon(v), Bounded(v)
  PROVE  Bounded(v)'
  <1>0. Typed /\ At(v) /\ req[v].mounts \in Nat /\ fsds[v] \in Nat /\ rpcs[v] \in Nat
    BY FullInvAt, Counts, Zenon
  <1>1. CASE Network(v)
    <2>1. start'[v] # "mounts" /\ start'[v] # "fsrpc"
      BY <1>0, <1>1 DEF Typed, Network, NetworkRefused, NewProxyServer, StrictTransport,
                 StrictTransportFails, ChooseBackend, RefuseStrictOnHost, Goes
    <2> QED BY <2>1, Zenon DEF Bounded
  <1>2. CASE NewVMBackend(v)
    <2>0. req' = req
      BY <1>2, Zenon
      DEF NewVMBackend, CreateTempDir, AssetsMissing, StartFsd, MountsRefused,
                  MountsPrepared, StartQemu, QemuNotStarted, DialMount, DialTimesOut,
                  ServersStarted, Accept, AcceptTimesOut, Abandon, others
    <2>1. CASE CreateTempDir(v)
      BY <1>0, <2>0, <2>1 DEF Typed, At, Footprint, BeforeBackend, CreateTempDir, Goes,
                 procVars, Bounded
    <2>2. CASE StartFsd(v)
      BY <1>0, <2>0, <2>2 DEF Typed, StartFsd, Bounded
    <2>3. CASE StartQemu(v)
      BY <1>0, <2>0, <2>3 DEF Typed, At, Footprint, InBackend, StartQemu, Goes, Bounded
    <2>4. CASE DialMount(v)
      BY <1>0, <2>0, <2>4 DEF Typed, DialMount, Bounded
    <2>5. CASE \/ AssetsMissing(v) \/ MountsRefused(v) \/ MountsPrepared(v)
               \/ QemuNotStarted(v) \/ DialTimesOut(v) \/ ServersStarted(v)
               \/ Accept(v) \/ AcceptTimesOut(v)
      <3>1. start'[v] # "mounts" /\ start'[v] # "fsrpc"
        BY <1>0, <2>5 DEF Typed, AssetsMissing, MountsRefused, MountsPrepared, QemuNotStarted,
                   DialTimesOut, ServersStarted, Accept, AcceptTimesOut, Abandon, Goes
      <3> QED BY <3>1, Zenon DEF Bounded
    <2> QED BY <1>2, <2>1, <2>2, <2>3, <2>4, <2>5, Zenon DEF NewVMBackend
  <1>3. CASE BackendClose(v)
    <2>1. closing[v] # "no" /\ start' = start
      BY <1>3, Zenon DEF BackendClose, CloseConns, QemuReaped, TermTimesOut, KillTimesOut,
                  StopFsd, RemoveDir, Closes, closeOthers
    <2> QED BY <1>0, <2>1, Zenon DEF At, Bounded
  <1>4. CASE Finish(v)
    <2>1. start'[v] # "mounts" /\ start'[v] # "fsrpc"
      BY <1>0, <1>4 DEF Typed, Finish, BackendClosed, FallBackToHost, GiveUp, NewHostBackend,
                 HostBackendFails, HostBackendFailed, RegisterVM, Goes
    <2> QED BY <2>1, Zenon DEF Bounded
  <1> QED BY <1>1, <1>2, <1>3, <1>4, Zenon DEF Daemon

\* Where a step leaves a machine's calls and servers alone.
Rests(w) ==
  /\ start'[w] = start[w] /\ closing'[w] = closing[w] /\ req'[w] = req[w]
  /\ fsds'[w] = fsds[w] /\ rpcs'[w] = rpcs[w]

LEMMA OtherSteps ==
  ASSUME FullInv, [Next]_vars, NEW w \in Vms, ~Daemon(w)
  PROVE  \/ Rests(w)
         \/ StartVM(w)
         \/ \E s \in Stops : StopVM(s) /\ stop[s].vm = w
  <1>0. Typed
    BY FullInvAt, Zenon
  <1>1. CASE UNCHANGED vars
    BY <1>1, Zenon DEF vars, procVars, Rests
  <1>2. ASSUME NEW v \in Vms, StartVM(v), v # w PROVE Rests(w)
    BY <1>0, <1>2, Zenon DEF Typed, StartVM, Goes, others, procVars, Rests
  <1>3. ASSUME NEW v \in Vms, Daemon(v), v # w PROVE Rests(w)
    BY <1>3, OthersSame, Zenon DEF Same, Rests
  <1>4. ASSUME NEW v \in Vms, QemuEnds(v) PROVE Rests(w)
    BY <1>4, Zenon DEF QemuEnds, others, Rests
  <1>5. ASSUME NEW s \in Stops, StopVM(s), stop[s].vm # w PROVE Rests(w)
    BY <1>0, <1>5, Zenon DEF Typed, StopVM, Closes, procVars, Rests
  <1>6. ASSUME NEW s \in Stops, StopVMNotFound(s) \/ StopNetwork(s) PROVE Rests(w)
    BY <1>6, Zenon DEF StopVMNotFound, StopNetwork, procVars, Rests
  <1> QED BY <1>1, <1>2, <1>3, <1>4, <1>5, <1>6, Zenon DEF Next, Stop

LEMMA BoundedStep ==
  ASSUME FullInv, \A v \in Vms : Bounded(v), [Next]_vars
  PROVE  (\A v \in Vms : Bounded(v))'
  <1> SUFFICES ASSUME NEW w \in Vms PROVE Bounded(w)'
    BY Zenon
  <1>0. Typed
    BY FullInvAt, Zenon
  <1>1. CASE Daemon(w)
    BY <1>1, BoundedDaemon, Zenon
  <1>2. CASE Rests(w)
    BY <1>2, Zenon DEF Rests, Bounded
  <1>3. CASE StartVM(w)
    BY <1>0, <1>3, Zenon DEF Typed, StartVM, Goes, Bounded
  <1>4. ASSUME NEW s \in Stops, StopVM(s) PROVE Bounded(w)'
    BY <1>4, Zenon DEF StopVM, procVars, Bounded
  <1> QED BY <1>1, <1>2, <1>3, <1>4, OtherSteps, Zenon

LEMMA AlwaysBounded == Spec => [](FullInv /\ \A v \in Vms : Bounded(v))
  <1>1. Init => \A v \in Vms : Bounded(v)
    BY Zenon DEF Init, Bounded
  <1>2. FullInv /\ (\A v \in Vms : Bounded(v)) /\ [Next]_vars => (\A v \in Vms : Bounded(v))'
    BY BoundedStep, Zenon
  <1> QED BY <1>1, <1>2, FullInvHolds, PTL DEF Spec

(* StartVM and StopVM always have a step to take.                          *)
THEOREM NeverBlocked == Spec => []Unblocked
  <1>1. FullInv /\ (\A v \in Vms : Bounded(v)) => Unblocked
    <2> SUFFICES ASSUME FullInv, \A v \in Vms : Bounded(v) PROVE Unblocked
      BY Zenon
    <2>1. ASSUME NEW v \in Vms PROVE ServersLeft(v) \in Nat
      BY Counts DEF ServersLeft, Bounded
    <2>2. ASSUME NEW v \in Vms, start[v] = "closing" PROVE closing[v] # "no"
      BY <2>2, Zenon DEF FullInv, Footprint, AfterFailure
    <2>3. ASSUME NEW s \in Stops, stop[s].at = "backend" PROVE closing[stop[s].vm] # "no"
      BY <2>3, Zenon DEF FullInv, StopOwns, Took
    <2> QED BY <2>1, <2>2, <2>3, Zenon DEF Unblocked
  <1> QED BY <1>1, AlwaysBounded, PTL

-----------------------------------------------------------------------------
\* A step of StartVM to a later one.
LEMMA GoesOn ==
  ASSUME Typed, NEW v \in Vms, Daemon(v), start'[v] # start[v]
  PROVE  StartLeft(v)' < StartLeft(v)
  <1>1. CASE Network(v)
    BY <1>1 DEF Typed, Network, NetworkRefused, NewProxyServer, StrictTransport,
               StrictTransportFails, ChooseBackend, RefuseStrictOnHost, Goes, StartLeft
  <1>2. CASE NewVMBackend(v)
    BY <1>2 DEF Typed, NewVMBackend, CreateTempDir, AssetsMissing, StartFsd, MountsRefused,
               MountsPrepared, StartQemu, QemuNotStarted, DialMount, DialTimesOut,
               ServersStarted, Accept, AcceptTimesOut, Abandon, Goes, StartLeft
  <1>3. CASE BackendClose(v)
    BY <1>3, Zenon DEF BackendClose, CloseConns, QemuReaped, TermTimesOut, KillTimesOut,
               StopFsd, RemoveDir, closeOthers
  <1>4. CASE Finish(v)
    BY <1>4 DEF Typed, Finish, BackendClosed, FallBackToHost, GiveUp, NewHostBackend,
               HostBackendFails, HostBackendFailed, RegisterVM, Goes, StartLeft
  <1> QED BY <1>1, <1>2, <1>3, <1>4, Zenon DEF Daemon

\* A step within one: one more server, or a step of Close.
LEMMA WithinStep ==
  ASSUME FullInv, NEW v \in Vms, Daemon(v), start'[v] = start[v]
  PROVE  LessLeft(v)
  <1>0. Typed /\ At(v) /\ req[v].mounts \in Nat /\ fsds[v] \in Nat /\ rpcs[v] \in Nat
    BY FullInvAt, Counts, Zenon
  <1>1. StartLeft(v)' = StartLeft(v)
    BY Zenon DEF StartLeft
  <1>2. CASE StartFsd(v) \/ DialMount(v)
    <2>1. req' = req /\ closing' = closing
      BY <1>2, Zenon DEF StartFsd, DialMount, others
    <2>2. CloseLeft(v)' = CloseLeft(v)
      BY <2>1, Zenon DEF CloseLeft
    <2>3. ServersLeft(v)' < ServersLeft(v)
      BY <1>0, <1>2, <2>1 DEF Typed, StartFsd, DialMount, ServersLeft
    <2> QED BY <1>1, <2>2, <2>3, Zenon DEF LessLeft
  <1>3. CASE StopFsd(v)
    <2>1. closing' = closing /\ closing[v] = "fsds"
      BY <1>3, Zenon DEF StopFsd
    <2>2. CloseLeft(v)' = CloseLeft(v)
      BY <2>1, Zenon DEF CloseLeft
    <2>3. start[v] # "mounts" /\ start[v] # "fsrpc"
      BY <1>0, <2>1, Zenon DEF At
    <2>4. fsds'[v] = fsds[v] - 1
      BY <1>0, <1>3, Zenon DEF Typed, StopFsd
    <2>5. ServersLeft(v)' < ServersLeft(v)
      BY <1>0, <2>3, <2>4 DEF ServersLeft
    <2> QED BY <1>1, <2>2, <2>5, Zenon DEF LessLeft
  <1>4. CASE \/ CloseConns(v) \/ QemuReaped(v) \/ TermTimesOut(v) \/ KillTimesOut(v)
             \/ RemoveDir(v)
    <2>1. CloseLeft(v)' < CloseLeft(v)
      BY <1>0, <1>4 DEF Typed, CloseConns, QemuReaped, TermTimesOut, KillTimesOut, RemoveDir,
                 Closes, CloseLeft
    <2> QED BY <1>1, <2>1, Zenon DEF LessLeft
  <1>5. CASE Network(v) \/ Finish(v)
    <2>1. start'[v] # start[v]
      BY <1>0, <1>5
      DEF Typed, Network, NetworkRefused, NewProxyServer, StrictTransport,
          StrictTransportFails, ChooseBackend, RefuseStrictOnHost, Finish, BackendClosed,
          FallBackToHost, GiveUp, NewHostBackend, HostBackendFails, HostBackendFailed,
          RegisterVM, Goes
    <2> QED BY <2>1, Zenon
  <1>6. CASE \/ CreateTempDir(v) \/ AssetsMissing(v) \/ MountsRefused(v) \/ MountsPrepared(v)
             \/ StartQemu(v) \/ QemuNotStarted(v) \/ DialTimesOut(v) \/ ServersStarted(v)
             \/ Accept(v) \/ AcceptTimesOut(v)
    <2>1. start'[v] # start[v]
      BY <1>0, <1>6
      DEF Typed, CreateTempDir, AssetsMissing, MountsRefused, MountsPrepared, StartQemu,
          QemuNotStarted, DialTimesOut, ServersStarted, Accept, AcceptTimesOut, Abandon, Goes
    <2> QED BY <2>1, Zenon
  <1> QED BY <1>2, <1>3, <1>4, <1>5, <1>6, Zenon DEF Daemon, NewVMBackend, BackendClose

LEMMA RestsAsMuch ==
  ASSUME NEW v \in Vms, Rests(v)
  PROVE  AsMuchLeft(v)
  <1>1. StartLeft(v)' = StartLeft(v)
    BY Zenon DEF Rests, StartLeft
  <1>2. CloseLeft(v)' = CloseLeft(v)
    BY Zenon DEF Rests, CloseLeft
  <1>3. ServersLeft(v)' = ServersLeft(v)
    BY Zenon DEF Rests, ServersLeft
  <1> QED BY <1>1, <1>2, <1>3, Zenon DEF AsMuchLeft

(* What a call has left to do only gets less, from StartVM to its answer   *)
(* and from the StopVM that takes a machine to its own.                    *)
THEOREM CallsAdvance == Spec => [][Advance]_vars
  <1>1. FullInv /\ [Next]_vars => [Advance]_vars
    <2> SUFFICES ASSUME FullInv, [Next]_vars, NEW v \in Vms
                 PROVE  /\ Daemon(v) => LessLeft(v)
                        /\ \/ LessLeft(v) \/ AsMuchLeft(v)
                           \/ \E s \in Stops : StopVM(s) /\ stop[s].vm = v
      BY Zenon DEF Advance
    <2>0. Typed
      BY FullInvAt, Zenon
    <2>1. CASE Daemon(v)
      <3>1. CASE start'[v] = start[v]
        BY <2>1, <3>1, WithinStep, Zenon
      <3>2. CASE start'[v] # start[v]
        BY <2>0, <2>1, <3>2, GoesOn, Zenon DEF LessLeft
      <3> QED BY <3>1, <3>2, Zenon
    <2>2. CASE StartVM(v)
      <3>1. start[v] = "idle" /\ start'[v] = "network"
        BY <2>0, <2>2, Zenon DEF Typed, StartVM, Goes
      <3>2. StartLeft(v)' < StartLeft(v)
        BY <3>1 DEF StartLeft
      <3> QED BY <2>1, <3>2, Zenon DEF LessLeft
    <2>3. CASE Rests(v)
      BY <2>1, <2>3, RestsAsMuch, Zenon
    <2> QED BY <2>1, <2>2, <2>3, OtherSteps, Zenon
  <1> QED BY <1>1, FullInvHolds, PTL DEF Spec
=============================================================================
