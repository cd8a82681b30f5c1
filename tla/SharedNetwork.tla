--------------------------- MODULE SharedNetwork ---------------------------
(***************************************************************************)
(* What the machines of one host share through the network manager         *)
(* (daemon/network.go), between starts that run at the same time and       *)
(* between one daemon and the next:                                        *)
(*                                                                         *)
(*  - the interception CA, a certificate file and a key file in the user's *)
(*    configuration directory (daemon/mitm.go), which loadOrCreateCA reads *)
(*    or creates without a lock, and whose certificate createMitmMount     *)
(*    copies into the guest at a later step of the same start;             *)
(*  - the packet filter's anchors (daemon/strict_transport_darwin.go): the *)
(*    first strict start of a daemon flushes what an earlier daemon left,  *)
(*    under a sync.Once whose error is kept, and every strict machine then *)
(*    loads rules under an anchor of its own.                              *)
(*                                                                         *)
(* A daemon that exits or is killed (cmd/klitka-daemon/main.go) closes no  *)
(* machine, so files and anchors stay as they are at that instant.  Each   *)
(* element of Vms is one StartVM call; its identifier is a fresh UUID.     *)
(***************************************************************************)
EXTENDS Naturals, FiniteSets

CONSTANTS Vms,          \* the StartVM calls, over all daemons
          MaxRestarts   \* how often a daemon is started again

ASSUME RestartsAssumption == MaxRestarts \in Nat

VARIABLES restarts,
          once,      \* strictPFPrepareOnce
          prepErr,   \* strictPFPrepareErr # nil
          stale,     \* anchors cleanupStalePFAnchors has still to flush
          anchors,   \* anchors that have rules in the packet filter
          cert,      \* ca.crt
          key,       \* ca.key
          pc,        \* where each start or machine is
          wants,     \* what its request asks for
          pair,      \* the mitmCA of its proxy: whose certificate, whose key
          guest,     \* the certificate its guest was given to trust
          raced      \* history: two creations of the CA have overlapped

vars == <<restarts, once, prepErr, stale, anchors, cert, key, pc, wants, pair,
          guest, raced>>

-----------------------------------------------------------------------------
(* A file holds what one start wrote, named after it; a write in progress, *)
(* or one that did not finish, leaves a file no parser accepts.            *)
Absent == "absent"
Torn == "torn"
None == [cert |-> Absent, key |-> Absent]
Content == Vms \cup {Absent, Torn}

ASSUME VmsAssumption == Absent \notin Vms /\ Torn \notin Vms

Nothing == [secrets |-> FALSE, strict |-> FALSE]
Wants == [secrets : BOOLEAN, strict : BOOLEAN] \ {Nothing}

Creating == {"openCert", "writeCert", "openKey", "writeKey"}
LoadingCA == {"ca", "readCert", "readKey"} \cup Creating
Preparing == {"list", "flush"}
Starting == LoadingCA \cup Preparing \cup {"prepare", "apply", "mount"}
Places == Starting \cup {"idle", "running", "closing", "gone", "past"}

Init == /\ restarts = 0
        /\ once = "new" /\ prepErr = FALSE /\ stale = {} /\ anchors = {}
        /\ cert = Absent /\ key = Absent
        /\ pc = [v \in Vms |-> "idle"]
        /\ wants = [v \in Vms |-> Nothing]
        /\ pair = [v \in Vms |-> None]
        /\ guest = [v \in Vms |-> Absent]
        /\ raced = FALSE

At(v, place) == pc[v] = place
Goto(v, place) == pc' = [pc EXCEPT ![v] = place]

filter == <<once, prepErr, stale, anchors>>
files == <<cert, key>>
machine == <<wants, pair, guest>>

(* A start that failed, or a machine that is closed, is forgotten.         *)
Forget(v) == /\ wants' = [wants EXCEPT ![v] = Nothing]
             /\ pair' = [pair EXCEPT ![v] = None]
             /\ guest' = [guest EXCEPT ![v] = Absent]
End(v) == Goto(v, "gone") /\ Forget(v)

(* newNetworkManager after the proxy has its CA: a strict machine goes on  *)
(* to the packet filter, any other to the backend.                         *)
AfterProxy(v) == IF wants[v].strict THEN "prepare" ELSE "mount"

(* newProxyServer: with secrets the proxy needs the CA.                    *)
Begin(v) ==
  /\ At(v, "idle")
  /\ \E w \in Wants :
       /\ wants' = [wants EXCEPT ![v] = w]
       /\ Goto(v, IF w.secrets THEN "ca" ELSE "prepare")
  /\ UNCHANGED <<restarts, filter, files, pair, guest, raced>>

-----------------------------------------------------------------------------
(* loadOrCreateCA.  No step removes a file, so the two fileExists calls    *)
(* answer as one look at both files would.                                 *)
CheckFiles(v) ==
  /\ At(v, "ca")
  /\ IF cert # Absent /\ key # Absent
       THEN Goto(v, "readCert") /\ UNCHANGED raced
       ELSE /\ Goto(v, "openCert")
            /\ raced' = (raced \/ \E w \in Vms \ {v} : pc[w] \in Creating)
  /\ UNCHANGED <<restarts, filter, files, machine>>

ReadCertificate(v) ==
  /\ At(v, "readCert")
  /\ \/ cert = Torn /\ End(v)
     \/ /\ cert # Torn /\ Goto(v, "readKey")
        /\ pair' = [pair EXCEPT ![v].cert = cert]
        /\ UNCHANGED <<wants, guest>>
  /\ UNCHANGED <<restarts, filter, files, raced>>

ReadPrivateKey(v) ==
  /\ At(v, "readKey")
  /\ \/ key = Torn /\ End(v)
     \/ /\ key # Torn /\ Goto(v, AfterProxy(v))
        /\ pair' = [pair EXCEPT ![v].key = key]
        /\ UNCHANGED <<wants, guest>>
  /\ UNCHANGED <<restarts, filter, files, raced>>

(* Mutant of OpenCert: a certificate file that exists is kept.             *)
KeepsCertificate(v) ==
  /\ At(v, "openCert")
  /\ cert' = IF cert = Absent THEN Torn ELSE cert
  /\ Goto(v, IF cert = Absent THEN "writeCert" ELSE "openKey")
  /\ UNCHANGED <<restarts, filter, key, machine, raced>>

(* os.WriteFile truncates the file it opens and then writes it.            *)
OpenCert(v) ==
  /\ At(v, "openCert")
  /\ cert' = Torn
  /\ Goto(v, "writeCert")
  /\ UNCHANGED <<restarts, filter, key, machine, raced>>

WriteCert(v) ==
  /\ At(v, "writeCert")
  /\ cert' = v
  /\ Goto(v, "openKey")
  /\ UNCHANGED <<restarts, filter, key, machine, raced>>

OpenKey(v) ==
  /\ At(v, "openKey")
  /\ key' = Torn
  /\ Goto(v, "writeKey")
  /\ UNCHANGED <<restarts, filter, cert, machine, raced>>

(* The new CA is used from memory.                                         *)
WriteKey(v) ==
  /\ At(v, "writeKey")
  /\ key' = v
  /\ pair' = [pair EXCEPT ![v] = [cert |-> v, key |-> v]]
  /\ Goto(v, AfterProxy(v))
  /\ UNCHANGED <<restarts, filter, cert, wants, guest, raced>>

(* Any file operation or key generation may fail: the start ends and       *)
(* leaves the files as they are.                                           *)
CAFails(v) ==
  /\ pc[v] \in LoadingCA
  /\ End(v)
  /\ UNCHANGED <<restarts, filter, files, raced>>

-----------------------------------------------------------------------------
(* newNetworkManager: the error of the clean-up, which is kept, refuses    *)
(* every strict start of this daemon.                                      *)
Prepared(v, failed) == \/ failed /\ End(v)
                       \/ ~failed /\ Goto(v, "apply") /\ UNCHANGED machine

(* Mutant of Prepare: every strict start cleans up.                        *)
PreparesEachTime(v) ==
  /\ At(v, "prepare")
  /\ once # "busy" /\ once' = "busy" /\ Goto(v, "list")
  /\ UNCHANGED <<restarts, prepErr, stale, anchors, files, machine, raced>>

(* prepareStrictTransportDarwin.  The first caller runs the clean-up; the  *)
(* others wait in Once.Do until it is over.                                *)
Prepare(v) ==
  /\ At(v, "prepare")
  /\ \/ /\ once = "new" /\ once' = "busy"
        /\ Goto(v, "list") /\ UNCHANGED machine
     \/ once = "done" /\ Prepared(v, prepErr) /\ UNCHANGED once
  /\ UNCHANGED <<restarts, prepErr, stale, anchors, files, raced>>

(* cleanupStalePFAnchors: pfctl -E, then the list of anchors.              *)
ListAnchors(v) ==
  /\ At(v, "list")
  /\ stale' = anchors
  /\ Goto(v, "flush")
  /\ UNCHANGED <<restarts, once, prepErr, anchors, files, machine, raced>>

(* Either command failing ends the clean-up with its error.                *)
CleanupFails(v) ==
  /\ At(v, "list")
  /\ prepErr' = TRUE /\ once' = "done"
  /\ Prepared(v, TRUE)
  /\ UNCHANGED <<restarts, stale, anchors, files, raced>>

FlushStale(v) ==
  /\ At(v, "flush")
  /\ \E a \in stale : stale' = stale \ {a} /\ anchors' = anchors \ {a}
  /\ UNCHANGED <<restarts, once, prepErr, files, pc, machine, raced>>

(* Mutant of FlushStaleFails: the error of a flush is not joined.          *)
FlushErrorLost(v) ==
  /\ At(v, "flush")
  /\ \E a \in stale : stale' = stale \ {a}
  /\ UNCHANGED <<restarts, once, prepErr, anchors, files, pc, machine, raced>>

(* A flush that fails is joined to the result; the loop goes on.           *)
FlushStaleFails(v) ==
  /\ At(v, "flush")
  /\ \E a \in stale : stale' = stale \ {a}
  /\ prepErr' = TRUE
  /\ UNCHANGED <<restarts, once, anchors, files, pc, machine, raced>>

CleanupEnds(v) ==
  /\ At(v, "flush") /\ stale = {}
  /\ once' = "done"
  /\ Prepared(v, prepErr)
  /\ UNCHANGED <<restarts, prepErr, stale, anchors, files, raced>>

-----------------------------------------------------------------------------
(* newStrictTransportEnforcer: enable the filter and load the anchor.      *)
Apply(v) ==
  /\ At(v, "apply")
  /\ anchors' = anchors \cup {v}
  /\ Goto(v, "mount")
  /\ UNCHANGED <<restarts, once, prepErr, stale, files, machine, raced>>

(* A failed command ends the start; the enforcer it closes has no rules.   *)
ApplyFails(v) ==
  /\ At(v, "apply")
  /\ End(v)
  /\ UNCHANGED <<restarts, filter, files, raced>>

(* newVMBackend: createMitmMount copies the certificate file as it is now. *)
MountCA(v) ==
  /\ At(v, "mount")
  /\ guest' = IF wants[v].secrets THEN [guest EXCEPT ![v] = cert] ELSE guest
  /\ Goto(v, "running")
  /\ UNCHANGED <<restarts, filter, files, wants, pair, raced>>

(* The backend fails to start, or StopVM ends the machine: newVM or        *)
(* StopVM closes the network manager.                                      *)
Close(v) ==
  /\ pc[v] \in {"mount", "running"}
  /\ Goto(v, IF wants[v].strict THEN "closing" ELSE "gone")
  /\ Forget(v)
  /\ UNCHANGED <<restarts, filter, files, raced>>

(* pfTransportEnforcer.Close flushes the machine's anchor; the command may *)
(* fail, and is not tried again.                                           *)
FlushOwn(v) ==
  /\ At(v, "closing")
  /\ anchors' \in {anchors, anchors \ {v}}
  /\ Goto(v, "gone")
  /\ UNCHANGED <<restarts, once, prepErr, stale, files, machine, raced>>

-----------------------------------------------------------------------------
(* main: on a signal the daemon closes its HTTP server and returns; a      *)
(* crash does not even that.  Nothing of a machine is closed; another      *)
(* daemon starts with nothing in memory.  To it the machines that run on   *)
(* are "past": it knows of their anchors only, and takes them for stale.   *)
RestartDaemon ==
  /\ restarts < MaxRestarts
  /\ restarts' = restarts + 1
  /\ once' = "new" /\ prepErr' = FALSE /\ stale' = {}
  /\ pc' = [v \in Vms |-> IF pc[v] = "idle" THEN "idle" ELSE "past"]
  /\ wants' = [v \in Vms |-> Nothing]
  /\ pair' = [v \in Vms |-> None]
  /\ guest' = [v \in Vms |-> Absent]
  /\ UNCHANGED <<anchors, files, raced>>

StartStep(v) ==
  \/ CheckFiles(v) \/ ReadCertificate(v) \/ ReadPrivateKey(v)
  \/ OpenCert(v) \/ WriteCert(v) \/ OpenKey(v) \/ WriteKey(v) \/ CAFails(v)
  \/ Prepare(v) \/ ListAnchors(v) \/ CleanupFails(v)
  \/ FlushStale(v) \/ FlushStaleFails(v) \/ CleanupEnds(v)
  \/ Apply(v) \/ ApplyFails(v) \/ MountCA(v) \/ FlushOwn(v)

Next == \/ \E v \in Vms : Begin(v) \/ StartStep(v) \/ Close(v)
        \/ RestartDaemon

Spec == Init /\ [][Next]_vars

-----------------------------------------------------------------------------
TypeOK == /\ restarts \in 0..MaxRestarts
          /\ once \in {"new", "busy", "done"} /\ prepErr \in BOOLEAN
          /\ stale \subseteq Vms /\ anchors \subseteq Vms
          /\ cert \in Content /\ key \in Content
          /\ pc \in [Vms -> Places]
          /\ wants \in [Vms -> [secrets : BOOLEAN, strict : BOOLEAN]]
          /\ pair \in [Vms -> [cert : Content, key : Content]]
          /\ guest \in [Vms -> Content]
          /\ raced \in BOOLEAN

Strict(v) == wants[v].strict /\ pc[v] \in {"mount", "running"}

(* Unless two creations overlapped, a running machine that injects secrets *)
(* has a CA whose certificate belongs to its key, and its guest trusts     *)
(* that certificate - also when an earlier daemon died between the writes. *)
CaAgrees ==
  raced \/ \A v \in Vms :
    pc[v] = "running" /\ wants[v].secrets =>
      pair[v].cert = pair[v].key /\ guest[v] = pair[v].cert

(* From the moment its rules are loaded until it is closed or its daemon   *)
(* ends a strict machine keeps them: no other start's clean-up of stale    *)
(* anchors takes them (the order sync.Once imposes).  The clean-up of the  *)
(* next daemon does take those of a machine its predecessor left running.  *)
RulesKept == \A v \in Vms : Strict(v) => v \in anchors

(* No strict machine starts while rules of an earlier daemon are loaded:   *)
(* a clean-up that failed anywhere refuses it.                             *)
StaleRulesGone ==
  (\E v \in Vms : Strict(v)) => \A w \in anchors : pc[w] # "past"
=============================================================================
