------------------------- MODULE SharedNetworkProofs -------------------------
(***************************************************************************)
(* Proofs about SharedNetwork, for any set of starts and any number of     *)
(* daemon restarts: who cleans up, what is loaded when, and which CA the   *)
(* machines use.                                                           *)
(***************************************************************************)
EXTENDS SharedNetwork, TLAPS

(* The clean-up of stale anchors is run by at most one start, inside Once. *)
Filter ==
  /\ \A v \in Vms : pc[v] \in Preparing => once = "busy"
  /\ \A v, w \in Vms : pc[v] \in Preparing /\ pc[w] \in Preparing => v = w
  /\ once = "new" => ~prepErr

(* Nobody gets past Once before the clean-up has ended without an error.   *)
Loaded ==
  \A v \in Vms :
    /\ pc[v] = "apply" \/ Strict(v) => once = "done" /\ ~prepErr
    /\ Strict(v) => v \in anchors

(* As long as nothing failed, an earlier daemon's anchor is on the list;   *)
(* after the clean-up there is none.                                       *)
Swept ==
  ~prepErr => \A a \in anchors : pc[a] = "past" =>
    /\ once # "done"
    /\ \A v \in Vms : pc[v] = "flush" => a \in stale

(* Without overlapping creations: the key file is made last and by the     *)
(* start that made the certificate, and no file changes after it.          *)
Secured == {"prepare", "list", "flush", "apply", "mount", "running"}
Files ==
  raced \/
    /\ \A v, w \in Vms : pc[v] \in Creating /\ pc[w] \in Creating => v = w
    /\ \A v \in Vms :
         /\ pc[v] \in {"openCert", "writeCert", "openKey"} => key = Absent
         /\ pc[v] \in {"openKey", "writeKey"} => cert = v
         /\ pc[v] = "writeKey" => key = Torn
         /\ pc[v] \in {"readCert", "readKey"} => key # Absent
         /\ pc[v] = "readKey" => pair[v].cert = cert
         /\ pc[v] \in Secured /\ wants[v].secrets =>
              key \in Vms /\ pair[v] = [cert |-> key, key |-> key]
         /\ pc[v] = "running" /\ wants[v].secrets => guest[v] = cert
    /\ key # Absent => cert \in Vms
    /\ key \in Vms => cert = key

Inv == TypeOK /\ Filter /\ Loaded /\ Swept /\ Files

(* The values a start has before it begins and after it ends are typed.    *)
LEMMA Initials == /\ Nothing \in [secrets : BOOLEAN, strict : BOOLEAN]
                  /\ None \in [cert : Content, key : Content]
                  /\ Absent \in Content /\ Torn \in Content
<1>1. FALSE \in BOOLEAN
  BY Zenon
<1>q. QED BY <1>1, Zenon DEF Nothing, None, Content

(* A start that ends leaves every variable typed.                          *)
LEMMA EndTyped ==
  ASSUME TypeOK, NEW v \in Vms, End(v), UNCHANGED <<restarts, cert, key, raced>>,
         once' \in {"new", "busy", "done"}, prepErr' \in BOOLEAN,
         stale' \subseteq Vms, anchors' \subseteq Vms
  PROVE  TypeOK'
BY Initials, Zenon DEF TypeOK, End, Forget, Goto, Places

(* Reading one of the files keeps the pair typed.                          *)
LEMMA PairTyped ==
  ASSUME TypeOK, NEW v \in Vms, NEW c \in Content
  PROVE  /\ [pair EXCEPT ![v].cert = c] \in [Vms -> [cert : Content, key : Content]]
         /\ [pair EXCEPT ![v].key = c] \in [Vms -> [cert : Content, key : Content]]
BY Zenon DEF TypeOK

(* The type invariant is preserved.                                        *)
LEMMA TypeStep == Inv /\ [Next]_vars => TypeOK'
<1> SUFFICES ASSUME Inv, [Next]_vars PROVE TypeOK'
  BY Zenon
<1> USE RestartsAssumption, Initials
<1>0. TypeOK /\ Filter /\ Loaded /\ Swept /\ Files
  BY Zenon DEF Inv
<1>1. ASSUME NEW v \in Vms, Begin(v) \/ StartStep(v) \/ Close(v)
      PROVE TypeOK'
  <2>1. CASE Begin(v)
    BY <2>1, <1>1, <1>0
    DEF Begin, Wants, Nothing, At, Goto, filter, files, machine, TypeOK,
        Places, Starting, Preparing, LoadingCA, Creating, Content
  <2>2. CASE CheckFiles(v)
    BY <2>2, <1>1, <1>0, Zenon
    DEF CheckFiles, Creating, At, Goto, filter, files, machine, TypeOK,
        Places, Starting, Preparing, LoadingCA, Content
  <2>3. CASE ReadCertificate(v)
    <3>1. CASE cert = Torn
      <4>1. End(v) /\ UNCHANGED <<restarts, filter, files, raced>>
        BY <2>3, <3>1, Zenon DEF ReadCertificate
      <4>q. QED BY <4>1, <1>0, EndTyped, Zenon DEF filter, files, TypeOK
    <3>2. CASE cert # Torn
      <4>1. /\ pair' = [pair EXCEPT ![v].cert = cert] /\ Goto(v, "readKey")
            /\ UNCHANGED <<restarts, filter, files, wants, guest, raced>>
        BY <2>3, <3>2, Zenon DEF ReadCertificate
      <4>2. pair' \in [Vms -> [cert : Content, key : Content]]
        BY <4>1, <1>0, PairTyped, Zenon DEF TypeOK
      <4>q. QED BY <4>1, <4>2, <1>0, Zenon
        DEF Goto, filter, files, TypeOK,
            Places, Starting, Preparing, LoadingCA, Creating
    <3>q. QED BY <3>1, <3>2, Zenon
  <2>4. CASE ReadPrivateKey(v)
    <3>1. CASE key = Torn
      <4>1. End(v) /\ UNCHANGED <<restarts, filter, files, raced>>
        BY <2>4, <3>1, Zenon DEF ReadPrivateKey
      <4>q. QED BY <4>1, <1>0, EndTyped, Zenon DEF filter, files, TypeOK
    <3>2. CASE key # Torn
      <4>1. /\ pair' = [pair EXCEPT ![v].key = key] /\ Goto(v, AfterProxy(v))
            /\ UNCHANGED <<restarts, filter, files, wants, guest, raced>>
        BY <2>4, <3>2, Zenon DEF ReadPrivateKey
      <4>2. pair' \in [Vms -> [cert : Content, key : Content]]
        BY <4>1, <1>0, PairTyped, Zenon DEF TypeOK
      <4>q. QED BY <4>1, <4>2, <1>0, Zenon
        DEF Goto, filter, files, TypeOK,
            Places, Starting, Preparing, LoadingCA, Creating, AfterProxy
    <3>q. QED BY <3>1, <3>2, Zenon
  <2>5. CASE OpenCert(v)
    BY <2>5, <1>1, <1>0, Zenon
    DEF OpenCert, At, Goto, filter, files, machine, TypeOK, Places, Starting,
        Preparing, LoadingCA, Creating, Content
  <2>6. CASE WriteCert(v)
    BY <2>6, <1>1, <1>0, Zenon
    DEF WriteCert, At, Goto, filter, files, machine, TypeOK, Places, Starting,
        Preparing, LoadingCA, Creating, Content
  <2>7. CASE OpenKey(v)
    BY <2>7, <1>1, <1>0, Zenon
    DEF OpenKey, At, Goto, filter, files, machine, TypeOK, Places, Starting,
        Preparing, LoadingCA, Creating, Content
  <2>8. CASE WriteKey(v)
    BY <2>8, <1>1, <1>0, Zenon
    DEF WriteKey, AfterProxy, At, Goto, filter, files, machine, TypeOK,
        Places, Starting, Preparing, LoadingCA, Creating, Content
  <2>9. CASE CAFails(v)
    BY <2>9, <1>1, <1>0, Zenon
    DEF CAFails, End, Forget, At, Goto, filter, files, machine, TypeOK,
        Places, Starting, Preparing, LoadingCA, Creating, Content
  <2>10. CASE Prepare(v)
    <3>1. CASE once = "new"
      BY <2>10, <3>1, <1>0, Zenon
      DEF Prepare, Goto, files, machine, TypeOK,
            Places, Starting, Preparing, LoadingCA, Creating
    <3>2. CASE once = "done" /\ ~prepErr
      BY <2>10, <3>2, <1>0, Zenon
      DEF Prepare, Prepared, Goto, files, machine, TypeOK,
            Places, Starting, Preparing, LoadingCA, Creating
    <3>3. CASE once = "done" /\ prepErr
      <4>1. End(v) /\ UNCHANGED <<restarts, filter, files, raced>>
        BY <2>10, <3>3, Zenon DEF Prepare, Prepared, filter
      <4>q. QED BY <4>1, <1>0, EndTyped, Zenon DEF filter, files, TypeOK
    <3>q. QED BY <3>1, <3>2, <3>3, <2>10, Zenon DEF Prepare
  <2>11. CASE ListAnchors(v)
    BY <2>11, <1>1, <1>0, Zenon
    DEF ListAnchors, At, Goto, filter, files, machine, TypeOK, Places,
        Starting, Preparing, LoadingCA, Creating, Content
  <2>12. CASE CleanupFails(v)
    <3>1. prepErr' \in BOOLEAN
      BY <2>12, Zenon DEF CleanupFails
    <3>2. End(v) /\ once' = "done"
          /\ UNCHANGED <<restarts, stale, anchors, files, raced>>
      BY <2>12, Zenon DEF CleanupFails, Prepared
    <3>q. QED BY <3>1, <3>2, <1>0, EndTyped, Zenon DEF files, TypeOK
  <2>13. CASE FlushStale(v)
    BY <2>13, <1>1, <1>0, Zenon
    DEF FlushStale, At, Goto, filter, files, machine, TypeOK, Places,
        Starting, Preparing, LoadingCA, Creating, Content
  <2>14. CASE FlushStaleFails(v)
    BY <2>14, <1>1, <1>0, Zenon
    DEF FlushStaleFails, At, Goto, filter, files, machine, TypeOK, Places,
        Starting, Preparing, LoadingCA, Creating, Content
  <2>15. CASE CleanupEnds(v)
    <3>1. CASE prepErr
      <4>1. End(v) /\ once' = "done"
            /\ UNCHANGED <<restarts, prepErr, stale, anchors, files, raced>>
        BY <2>15, <3>1, Zenon DEF CleanupEnds, Prepared
      <4>q. QED BY <4>1, <1>0, EndTyped, Zenon DEF files, TypeOK
    <3>2. CASE ~prepErr
      BY <2>15, <3>2, <1>0, Zenon
      DEF CleanupEnds, Prepared, Goto, files, machine, TypeOK,
            Places, Starting, Preparing, LoadingCA, Creating
    <3>q. QED BY <3>1, <3>2, Zenon
  <2>16. CASE Apply(v)
    BY <2>16, <1>1, <1>0
    DEF Apply, At, Goto, filter, files, machine, TypeOK, Places, Starting,
        Preparing, LoadingCA, Creating, Content
  <2>17. CASE ApplyFails(v)
    BY <2>17, <1>1, <1>0, Zenon
    DEF ApplyFails, End, Forget, At, Goto, filter, files, machine, TypeOK,
        Places, Starting, Preparing, LoadingCA, Creating, Content
  <2>18. CASE MountCA(v)
    BY <2>18, <1>1, <1>0, Zenon
    DEF MountCA, At, Goto, filter, files, machine, TypeOK, Places, Starting,
        Preparing, LoadingCA, Creating, Content
  <2>19. CASE FlushOwn(v)
    BY <2>19, <1>1, <1>0
    DEF FlushOwn, At, Goto, filter, files, machine, TypeOK, Places, Starting,
        Preparing, LoadingCA, Creating, Content
  <2>20. CASE Close(v)
    BY <2>20, <1>1, <1>0, Zenon
    DEF Close, Forget, At, Goto, filter, files, machine, TypeOK, Places,
        Starting, Preparing, LoadingCA, Creating, Content
  <2>q. QED BY <1>1, <2>1, <2>2, <2>3, <2>4, <2>5, <2>6, <2>7, <2>8, <2>9, <2>10, <2>11,
    <2>12, <2>13, <2>14, <2>15, <2>16, <2>17, <2>18, <2>19, <2>20, Zenon
    DEF StartStep
<1>2. CASE RestartDaemon
  <2>1. prepErr' \in BOOLEAN
    BY <1>2, Zenon DEF RestartDaemon
  <2>2. restarts' \in 0..MaxRestarts
    BY <1>2, <1>0 DEF RestartDaemon, TypeOK
  <2>q. QED BY <1>2, <1>0, <2>1, <2>2, Zenon DEF RestartDaemon, files, TypeOK, Places
<1>3. CASE UNCHANGED vars
  BY <1>3, <1>0, Zenon
  DEF vars, TypeOK,
            Places, Starting, Preparing, LoadingCA, Creating, Content
<1>q. QED BY <1>1, <1>2, <1>3, Zenon DEF Next

(* A step of a start outside the clean-up, which leaves the filter alone.  *)
LEMMA FilterOutside ==
  ASSUME Filter, NEW v \in Vms, pc'[v] \notin Preparing, UNCHANGED <<once, prepErr>>,
         \A w \in Vms \ {v} : pc'[w] = pc[w]
  PROVE  Filter'
BY Zenon DEF Filter

(* The clean-up stays inside Once.                                         *)
LEMMA FilterStep == Inv /\ [Next]_vars => Filter'
<1> SUFFICES ASSUME Inv, [Next]_vars PROVE Filter'
  BY Zenon
<1> USE VmsAssumption, RestartsAssumption
<1>0. TypeOK /\ Filter /\ Loaded /\ Swept /\ Files
  BY Zenon DEF Inv
<1>1. ASSUME NEW v \in Vms, Begin(v) \/ StartStep(v) \/ Close(v)
      PROVE Filter'
  <2>1. CASE Begin(v)
    BY <2>1, <1>1, <1>0
    DEF Begin, Wants, Nothing, At, Goto, filter, files, machine, Filter,
        Preparing, TypeOK
  <2>2. CASE CheckFiles(v)
    <3>1. /\ pc'[v] \notin Preparing /\ UNCHANGED <<once, prepErr>>
          /\ \A w \in Vms \ {v} : pc'[w] = pc[w]
      BY <2>2, <1>0, Zenon DEF CheckFiles, Creating, Goto, filter, Preparing, TypeOK
    <3> QED BY <3>1, <1>0, FilterOutside, Zenon
  <2>3. CASE ReadCertificate(v)
    BY <2>3, <1>1, <1>0
    DEF ReadCertificate, End, Forget, At, Goto, filter, files, machine,
        Filter, Preparing, TypeOK
  <2>4. CASE ReadPrivateKey(v)
    <3>1. /\ pc'[v] \notin Preparing /\ UNCHANGED <<once, prepErr>>
          /\ \A w \in Vms \ {v} : pc'[w] = pc[w]
      BY <2>4, <1>0
      DEF ReadPrivateKey, End, AfterProxy, Goto, filter, Preparing, TypeOK
    <3> QED BY <3>1, <1>0, FilterOutside, Zenon
  <2>5. CASE OpenCert(v)
    BY <2>5, <1>1, <1>0, Zenon
    DEF OpenCert, At, Goto, filter, files, machine, Filter, Preparing, TypeOK
  <2>6. CASE WriteCert(v)
    BY <2>6, <1>1, <1>0, Zenon
    DEF WriteCert, At, Goto, filter, files, machine, Filter, Preparing, TypeOK
  <2>7. CASE OpenKey(v)
    BY <2>7, <1>1, <1>0, Zenon
    DEF OpenKey, At, Goto, filter, files, machine, Filter, Preparing, TypeOK
  <2>8. CASE WriteKey(v)
    BY <2>8, <1>1, <1>0, Zenon
    DEF WriteKey, AfterProxy, At, Goto, filter, files, machine, Filter,
        Preparing, TypeOK
  <2>9. CASE CAFails(v)
    BY <2>9, <1>1, <1>0, Zenon
    DEF CAFails, End, Forget, LoadingCA, Creating, At, Goto, filter, files,
        machine, Filter, Preparing, TypeOK
  <2>10. CASE Prepare(v)
    BY <2>10, <1>1, <1>0
    DEF Prepare, Prepared, End, Forget, At, Goto, filter, files, machine,
        Filter, Preparing, TypeOK
  <2>11. CASE ListAnchors(v)
    BY <2>11, <1>1, <1>0, Zenon
    DEF ListAnchors, At, Goto, filter, files, machine, Filter, Preparing,
        TypeOK
  <2>12. CASE CleanupFails(v)
    BY <2>12, <1>1, <1>0
    DEF CleanupFails, Prepared, End, Forget, At, Goto, filter, files, machine,
        Filter, Preparing, TypeOK
  <2>13. CASE FlushStale(v)
    BY <2>13, <1>1, <1>0, Zenon
    DEF FlushStale, At, Goto, filter, files, machine, Filter, Preparing,
        TypeOK
  <2>14. CASE FlushStaleFails(v)
    BY <2>14, <1>1, <1>0, Zenon
    DEF FlushStaleFails, At, Goto, filter, files, machine, Filter, Preparing,
        TypeOK
  <2>15. CASE CleanupEnds(v)
    BY <2>15, <1>1, <1>0
    DEF CleanupEnds, Prepared, End, Forget, At, Goto, filter, files, machine,
        Filter, Preparing, TypeOK
  <2>16. CASE Apply(v)
    BY <2>16, <1>1, <1>0, Zenon
    DEF Apply, At, Goto, filter, files, machine, Filter, Preparing, TypeOK
  <2>17. CASE ApplyFails(v)
    BY <2>17, <1>1, <1>0, Zenon
    DEF ApplyFails, End, Forget, At, Goto, filter, files, machine, Filter,
        Preparing, TypeOK
  <2>18. CASE MountCA(v)
    BY <2>18, <1>1, <1>0, Zenon
    DEF MountCA, At, Goto, filter, files, machine, Filter, Preparing, TypeOK
  <2>19. CASE FlushOwn(v)
    BY <2>19, <1>1, <1>0, Zenon
    DEF FlushOwn, At, Goto, filter, files, machine, Filter, Preparing, TypeOK
  <2>20. CASE Close(v)
    BY <2>20, <1>1, <1>0
    DEF Close, Forget, At, Goto, filter, files, machine, Filter, Preparing,
        TypeOK
  <2>q. QED BY <1>1, <2>1, <2>2, <2>3, <2>4, <2>5, <2>6, <2>7, <2>8, <2>9, <2>10, <2>11,
    <2>12, <2>13, <2>14, <2>15, <2>16, <2>17, <2>18, <2>19, <2>20, Zenon
    DEF StartStep
<1>2. CASE RestartDaemon
  BY <1>2, <1>0, Zenon DEF RestartDaemon, files, Filter, Preparing, TypeOK
<1>3. CASE UNCHANGED vars
  BY <1>3, <1>0, Zenon DEF vars, Filter, Preparing, TypeOK
<1>q. QED BY <1>1, <1>2, <1>3, Zenon DEF Next

(* No step takes the rules of a machine that keeps running.                *)
LEMMA LoadedStep == Inv /\ [Next]_vars => Loaded'
<1> SUFFICES ASSUME Inv, [Next]_vars PROVE Loaded'
  BY Zenon
<1> USE VmsAssumption, RestartsAssumption
<1>0. TypeOK /\ Filter /\ Loaded /\ Swept /\ Files
  BY Zenon DEF Inv
<1>1. ASSUME NEW v \in Vms, Begin(v) \/ StartStep(v) \/ Close(v)
      PROVE Loaded'
  <2>1. CASE Begin(v)
    BY <2>1, <1>1, <1>0
    DEF Begin, Wants, Nothing, At, Goto, filter, files, machine, Loaded,
        Filter, Strict, Preparing, TypeOK
  <2>2. CASE CheckFiles(v)
    BY <2>2, <1>1, <1>0
    DEF CheckFiles, Creating, At, Goto, filter, files, machine, Loaded,
        Filter, Strict, Preparing, TypeOK
  <2>3. CASE ReadCertificate(v)
    BY <2>3, <1>1, <1>0
    DEF ReadCertificate, End, Forget, At, Goto, filter, files, machine,
        Loaded, Filter, Strict, Preparing, TypeOK
  <2>4. CASE ReadPrivateKey(v)
    BY <2>4, <1>1, <1>0
    DEF ReadPrivateKey, End, Forget, AfterProxy, At, Goto, filter, files,
        machine, Loaded, Filter, Strict, Preparing, TypeOK
  <2>5. CASE OpenCert(v)
    BY <2>5, <1>1, <1>0, Zenon
    DEF OpenCert, At, Goto, filter, files, machine, Loaded, Filter, Strict,
        Preparing, TypeOK
  <2>6. CASE WriteCert(v)
    BY <2>6, <1>1, <1>0, Zenon
    DEF WriteCert, At, Goto, filter, files, machine, Loaded, Filter, Strict,
        Preparing, TypeOK
  <2>7. CASE OpenKey(v)
    BY <2>7, <1>1, <1>0, Zenon
    DEF OpenKey, At, Goto, filter, files, machine, Loaded, Filter, Strict,
        Preparing, TypeOK
  <2>8. CASE WriteKey(v)
    BY <2>8, <1>1, <1>0, Zenon
    DEF WriteKey, AfterProxy, At, Goto, filter, files, machine, Loaded,
        Filter, Strict, Preparing, TypeOK
  <2>9. CASE CAFails(v)
    BY <2>9, <1>1, <1>0, Zenon
    DEF CAFails, End, Forget, LoadingCA, Creating, At, Goto, filter, files,
        machine, Loaded, Filter, Strict, Preparing, TypeOK
  <2>10. CASE Prepare(v)
    BY <2>10, <1>1, <1>0
    DEF Prepare, Prepared, End, Forget, At, Goto, filter, files, machine,
        Loaded, Filter, Strict, Preparing, TypeOK
  <2>11. CASE ListAnchors(v)
    BY <2>11, <1>1, <1>0, Zenon
    DEF ListAnchors, At, Goto, filter, files, machine, Loaded, Filter, Strict,
        Preparing, TypeOK
  <2>12. CASE CleanupFails(v)
    BY <2>12, <1>1, <1>0
    DEF CleanupFails, Prepared, End, Forget, At, Goto, filter, files, machine,
        Loaded, Filter, Strict, Preparing, TypeOK
  <2>13. CASE FlushStale(v)
    BY <2>13, <1>1, <1>0, Zenon
    DEF FlushStale, At, Goto, filter, files, machine, Loaded, Filter, Strict,
        Preparing, TypeOK
  <2>14. CASE FlushStaleFails(v)
    BY <2>14, <1>1, <1>0, Zenon
    DEF FlushStaleFails, At, Goto, filter, files, machine, Loaded, Filter,
        Strict, Preparing, TypeOK
  <2>15. CASE CleanupEnds(v)
    BY <2>15, <1>1, <1>0
    DEF CleanupEnds, Prepared, End, Forget, At, Goto, filter, files, machine,
        Loaded, Filter, Strict, Preparing, TypeOK
  <2>16. CASE Apply(v)
    BY <2>16, <1>1, <1>0, Zenon
    DEF Apply, At, Goto, filter, files, machine, Loaded, Filter, Strict,
        Preparing, TypeOK
  <2>17. CASE ApplyFails(v)
    BY <2>17, <1>1, <1>0, Zenon
    DEF ApplyFails, End, Forget, At, Goto, filter, files, machine, Loaded,
        Filter, Strict, Preparing, TypeOK
  <2>18. CASE MountCA(v)
    BY <2>18, <1>1, <1>0, Zenon
    DEF MountCA, At, Goto, filter, files, machine, Loaded, Filter, Strict,
        Preparing, TypeOK
  <2>19. CASE FlushOwn(v)
    BY <2>19, <1>1, <1>0, Zenon
    DEF FlushOwn, At, Goto, filter, files, machine, Loaded, Filter, Strict,
        Preparing, TypeOK
  <2>20. CASE Close(v)
    BY <2>20, <1>1, <1>0, Zenon
    DEF Close, Forget, At, Goto, filter, files, machine, Loaded, Filter,
        Strict, Preparing, TypeOK
  <2>q. QED BY <1>1, <2>1, <2>2, <2>3, <2>4, <2>5, <2>6, <2>7, <2>8, <2>9, <2>10, <2>11,
    <2>12, <2>13, <2>14, <2>15, <2>16, <2>17, <2>18, <2>19, <2>20, Zenon
    DEF StartStep
<1>2. CASE RestartDaemon
  BY <1>2, <1>0, Zenon
  DEF RestartDaemon, files, Loaded, Filter, Strict, Preparing, TypeOK, Nothing
<1>3. CASE UNCHANGED vars
  BY <1>3, <1>0, Zenon DEF vars, Loaded, Filter, Strict, Preparing, TypeOK
<1>q. QED BY <1>1, <1>2, <1>3, Zenon DEF Next

(* The list of stale anchors stays complete.                               *)
LEMMA SweptStep == Inv /\ [Next]_vars => Swept'
<1> SUFFICES ASSUME Inv, [Next]_vars PROVE Swept'
  BY Zenon
<1> USE VmsAssumption, RestartsAssumption
<1>0. TypeOK /\ Filter /\ Loaded /\ Swept /\ Files
  BY Zenon DEF Inv
<1>1. ASSUME NEW v \in Vms, Begin(v) \/ StartStep(v) \/ Close(v)
      PROVE Swept'
  <2>1. CASE Begin(v)
    BY <2>1, <1>1, <1>0
    DEF Begin, Wants, Nothing, At, Goto, filter, files, machine, Swept,
        Filter, Preparing, TypeOK
  <2>2. CASE CheckFiles(v)
    BY <2>2, <1>1, <1>0
    DEF CheckFiles, Creating, At, Goto, filter, files, machine, Swept, Filter,
        Preparing, TypeOK
  <2>3. CASE ReadCertificate(v)
    BY <2>3, <1>1, <1>0
    DEF ReadCertificate, End, Forget, At, Goto, filter, files, machine, Swept,
        Filter, Preparing, TypeOK
  <2>4. CASE ReadPrivateKey(v)
    BY <2>4, <1>1, <1>0
    DEF ReadPrivateKey, End, Forget, AfterProxy, At, Goto, filter, files,
        machine, Swept, Filter, Preparing, TypeOK
  <2>5. CASE OpenCert(v)
    BY <2>5, <1>1, <1>0
    DEF OpenCert, At, Goto, filter, files, machine, Swept, Filter, Preparing,
        TypeOK
  <2>6. CASE WriteCert(v)
    BY <2>6, <1>1, <1>0
    DEF WriteCert, At, Goto, filter, files, machine, Swept, Filter, Preparing,
        TypeOK
  <2>7. CASE OpenKey(v)
    BY <2>7, <1>1, <1>0
    DEF OpenKey, At, Goto, filter, files, machine, Swept, Filter, Preparing,
        TypeOK
  <2>8. CASE WriteKey(v)
    BY <2>8, <1>1, <1>0
    DEF WriteKey, AfterProxy, At, Goto, filter, files, machine, Swept, Filter,
        Preparing, TypeOK
  <2>9. CASE CAFails(v)
    BY <2>9, <1>1, <1>0
    DEF CAFails, End, Forget, LoadingCA, Creating, At, Goto, filter, files,
        machine, Swept, Filter, Preparing, TypeOK
  <2>10. CASE Prepare(v)
    BY <2>10, <1>1, <1>0, Zenon
    DEF Prepare, Prepared, End, Forget, At, Goto, filter, files, machine,
        Swept, Filter, Preparing, TypeOK
  <2>11. CASE ListAnchors(v)
    BY <2>11, <1>1, <1>0, Zenon
    DEF ListAnchors, At, Goto, filter, files, machine, Swept, Filter,
        Preparing, TypeOK
  <2>12. CASE CleanupFails(v)
    BY <2>12, <1>1, <1>0, Zenon
    DEF CleanupFails, Prepared, End, Forget, At, Goto, filter, files, machine,
        Swept, Filter, Preparing, TypeOK
  <2>13. CASE FlushStale(v)
    BY <2>13, <1>1, <1>0, Zenon
    DEF FlushStale, At, Goto, filter, files, machine, Swept, Filter,
        Preparing, TypeOK
  <2>14. CASE FlushStaleFails(v)
    BY <2>14, <1>1, <1>0, Zenon
    DEF FlushStaleFails, At, Goto, filter, files, machine, Swept, Filter,
        Preparing, TypeOK
  <2>15. CASE CleanupEnds(v)
    BY <2>15, <1>1, <1>0, Zenon
    DEF CleanupEnds, Prepared, End, Forget, At, Goto, filter, files, machine,
        Swept, Filter, Preparing, TypeOK
  <2>16. CASE Apply(v)
    BY <2>16, <1>1, <1>0
    DEF Apply, At, Goto, filter, files, machine, Swept, Filter, Preparing,
        TypeOK
  <2>17. CASE ApplyFails(v)
    BY <2>17, <1>1, <1>0
    DEF ApplyFails, End, Forget, At, Goto, filter, files, machine, Swept,
        Filter, Preparing, TypeOK
  <2>18. CASE MountCA(v)
    BY <2>18, <1>1, <1>0
    DEF MountCA, At, Goto, filter, files, machine, Swept, Filter, Preparing,
        TypeOK
  <2>19. CASE FlushOwn(v)
    BY <2>19, <1>1, <1>0, Zenon
    DEF FlushOwn, At, Goto, filter, files, machine, Swept, Filter, Preparing,
        TypeOK
  <2>20. CASE Close(v)
    BY <2>20, <1>1, <1>0
    DEF Close, Forget, At, Goto, filter, files, machine, Swept, Filter,
        Preparing, TypeOK
  <2>q. QED BY <1>1, <2>1, <2>2, <2>3, <2>4, <2>5, <2>6, <2>7, <2>8, <2>9, <2>10, <2>11,
    <2>12, <2>13, <2>14, <2>15, <2>16, <2>17, <2>18, <2>19, <2>20, Zenon
    DEF StartStep
<1>2. CASE RestartDaemon
  BY <1>2, <1>0, Zenon DEF RestartDaemon, files, Swept, Filter, Preparing, TypeOK
<1>3. CASE UNCHANGED vars
  BY <1>3, <1>0, Zenon DEF vars, Swept, Filter, Preparing, TypeOK
<1>q. QED BY <1>1, <1>2, <1>3, Zenon DEF Next

(* The files stay one pair.                                                *)
LEMMA FilesStep == Inv /\ [Next]_vars => Files'
<1> SUFFICES ASSUME Inv, [Next]_vars PROVE Files'
  BY Zenon
<1> USE VmsAssumption, RestartsAssumption
<1>0. TypeOK /\ Filter /\ Loaded /\ Swept /\ Files
  BY Zenon DEF Inv
<1>1. ASSUME NEW v \in Vms, Begin(v) \/ StartStep(v) \/ Close(v)
      PROVE Files'
  <2>1. CASE Begin(v)
    BY <2>1, <1>1, <1>0
    DEF Begin, Wants, Nothing, At, Goto, filter, files, machine, Files,
        Secured, Creating, Content, TypeOK
  <2>2. CASE CheckFiles(v)
    <3>1. CASE cert # Absent /\ key # Absent
      BY <2>2, <3>1, <1>0
      DEF CheckFiles, At, Goto, files, machine, Files, Secured, Creating, TypeOK
    <3>2. CASE /\ ~(cert # Absent /\ key # Absent)
               /\ ~raced /\ \A w \in Vms \ {v} : pc[w] \notin Creating
      <4>1. key = Absent
        BY <3>2, <1>0, Zenon DEF Files
      <4>q. QED BY <4>1, <2>2, <3>2, <1>0
        DEF CheckFiles, At, Goto, files, machine, Files, Secured, Creating, TypeOK
    <3>3. CASE /\ ~(cert # Absent /\ key # Absent)
               /\ raced \/ \E w \in Vms \ {v} : pc[w] \in Creating
      <4>1. raced'
        BY <2>2, <3>3, Zenon DEF CheckFiles
      <4>q. QED BY <4>1, Zenon DEF Files
    <3>q. QED BY <3>1, <3>2, <3>3, Zenon
  <2>3. CASE ReadCertificate(v)
    BY <2>3, <1>1, <1>0
    DEF ReadCertificate, End, Forget, At, Goto, filter, files, machine, Files,
        Secured, Creating, Content, TypeOK
  <2>4. CASE ReadPrivateKey(v)
    BY <2>4, <1>1, <1>0
    DEF ReadPrivateKey, End, Forget, AfterProxy, At, Goto, filter, files,
        machine, Files, Secured, Creating, Content, TypeOK
  <2>5. CASE OpenCert(v)
    BY <2>5, <1>1, <1>0
    DEF OpenCert, At, Goto, filter, files, machine, Files, Secured, Creating,
        Content, TypeOK
  <2>6. CASE WriteCert(v)
    BY <2>6, <1>1, <1>0
    DEF WriteCert, At, Goto, filter, files, machine, Files, Secured, Creating,
        Content, TypeOK
  <2>7. CASE OpenKey(v)
    BY <2>7, <1>1, <1>0
    DEF OpenKey, At, Goto, filter, files, machine, Files, Secured, Creating,
        Content, TypeOK
  <2>8. CASE WriteKey(v)
    BY <2>8, <1>1, <1>0
    DEF WriteKey, AfterProxy, At, Goto, filter, files, machine, Files,
        Secured, Creating, Content, TypeOK
  <2>9. CASE CAFails(v)
    BY <2>9, <1>1, <1>0
    DEF CAFails, End, Forget, LoadingCA, Creating, At, Goto, filter, files,
        machine, Files, Secured, Content, TypeOK
  <2>10. CASE Prepare(v)
    BY <2>10, <1>1, <1>0
    DEF Prepare, Prepared, End, Forget, At, Goto, filter, files, machine,
        Files, Secured, Creating, Content, TypeOK
  <2>11. CASE ListAnchors(v)
    BY <2>11, <1>1, <1>0
    DEF ListAnchors, At, Goto, filter, files, machine, Files, Secured,
        Creating, Content, TypeOK
  <2>12. CASE CleanupFails(v)
    BY <2>12, <1>1, <1>0
    DEF CleanupFails, Prepared, End, Forget, At, Goto, filter, files, machine,
        Files, Secured, Creating, Content, TypeOK
  <2>13. CASE FlushStale(v)
    BY <2>13, <1>1, <1>0, Zenon
    DEF FlushStale, At, Goto, filter, files, machine, Files, Secured,
        Creating, Content, TypeOK
  <2>14. CASE FlushStaleFails(v)
    BY <2>14, <1>1, <1>0, Zenon
    DEF FlushStaleFails, At, Goto, filter, files, machine, Files, Secured,
        Creating, Content, TypeOK
  <2>15. CASE CleanupEnds(v)
    BY <2>15, <1>1, <1>0
    DEF CleanupEnds, Prepared, End, Forget, At, Goto, filter, files, machine,
        Files, Secured, Creating, Content, TypeOK
  <2>16. CASE Apply(v)
    BY <2>16, <1>1, <1>0
    DEF Apply, At, Goto, filter, files, machine, Files, Secured, Creating,
        Content, TypeOK
  <2>17. CASE ApplyFails(v)
    BY <2>17, <1>1, <1>0
    DEF ApplyFails, End, Forget, At, Goto, filter, files, machine, Files,
        Secured, Creating, Content, TypeOK
  <2>18. CASE MountCA(v)
    BY <2>18, <1>1, <1>0
    DEF MountCA, At, Goto, filter, files, machine, Files, Secured, Creating,
        Content, TypeOK
  <2>19. CASE FlushOwn(v)
    BY <2>19, <1>1, <1>0
    DEF FlushOwn, At, Goto, filter, files, machine, Files, Secured, Creating,
        Content, TypeOK
  <2>20. CASE Close(v)
    BY <2>20, <1>1, <1>0
    DEF Close, Forget, At, Goto, filter, files, machine, Files, Secured,
        Creating, Content, TypeOK
  <2>q. QED BY <1>1, <2>1, <2>2, <2>3, <2>4, <2>5, <2>6, <2>7, <2>8, <2>9, <2>10, <2>11,
    <2>12, <2>13, <2>14, <2>15, <2>16, <2>17, <2>18, <2>19, <2>20, Zenon
    DEF StartStep
<1>2. CASE RestartDaemon
  BY <1>2, <1>0, Zenon
  DEF RestartDaemon, files, Files, Secured, Creating, Content, TypeOK,
      Nothing, None
<1>3. CASE UNCHANGED vars
  BY <1>3, <1>0, Zenon DEF vars, Files, Secured, Creating, Content, TypeOK
<1>q. QED BY <1>1, <1>2, <1>3, Zenon DEF Next

(* Inv holds in every reachable state.                                     *)
LEMMA InvHolds == Spec => []Inv
<1>1. Init => Inv
  <2> SUFFICES ASSUME Init PROVE Inv
    BY Zenon
  <2>0. prepErr \in BOOLEAN /\ raced \in BOOLEAN
    BY Zenon DEF Init
  <2>1. TypeOK
    BY <2>0, Initials, RestartsAssumption DEF Init, TypeOK, Places
  <2>2. Filter /\ Loaded /\ Swept
    BY Zenon DEF Init, Filter, Loaded, Swept, Strict, Preparing
  <2>3. Files
    BY VmsAssumption, Zenon DEF Init, Files, Secured, Creating
  <2>q. QED BY <2>1, <2>2, <2>3, Zenon DEF Inv
<1>2. Inv /\ [Next]_vars => Inv'
  BY TypeStep, FilterStep, LoadedStep, SweptStep, FilesStep, Zenon DEF Inv
<1>q. QED BY <1>1, <1>2, PTL DEF Spec

(* A strict machine's rules outlive every other start's clean-up           *)
(* (strictPFPrepareOnce), for any number of starts and daemons.            *)
THEOREM RulesTheorem == Spec => []RulesKept
<1>1. Inv => RulesKept
  BY Zenon DEF Inv, Loaded, RulesKept
<1>q. QED BY <1>1, InvHolds, PTL

(* No strict machine runs beside rules an earlier daemon left.             *)
THEOREM StaleTheorem == Spec => []StaleRulesGone
<1>1. Inv => StaleRulesGone
  BY Zenon DEF Inv, Loaded, Swept, StaleRulesGone
<1>q. QED BY <1>1, InvHolds, PTL

(* Without overlapping creations every running machine with secrets has    *)
(* one CA: its certificate, its key and what its guest trusts agree.       *)
THEOREM CaTheorem == Spec => []CaAgrees
<1>1. Inv => CaAgrees
  BY DEF Inv, Files, Secured, CaAgrees
<1>q. QED BY <1>1, InvHolds, PTL

-----------------------------------------------------------------------------
(* While Once is busy a start is inside it, so a strict start that waits   *)
(* in Once.Do waits for another that runs: a clean-up that fails, and a    *)
(* daemon that ends in the middle of one, leave it done or new.            *)
OneCleansUp == once = "busy" => \E w \in Vms : pc[w] \in Preparing

LEMMA HeldByOther ==
  ASSUME OneCleansUp, NEW v \in Vms, pc[v] \notin Preparing, once' = once,
         \A w \in Vms \ {v} : pc'[w] = pc[w]
  PROVE  OneCleansUp'
BY Zenon DEF OneCleansUp

\* What a step of v that has nothing to do with Once changes.
LEMMA OutsideOnce ==
  ASSUME TypeOK, NEW v \in Vms,
         \/ Begin(v) \/ Close(v) \/ CheckFiles(v) \/ ReadCertificate(v) \/ ReadPrivateKey(v)
         \/ OpenCert(v) \/ WriteCert(v) \/ OpenKey(v) \/ WriteKey(v) \/ CAFails(v)
         \/ Apply(v) \/ ApplyFails(v) \/ MountCA(v) \/ FlushOwn(v)
  PROVE  /\ pc[v] \notin Preparing /\ once' = once
         /\ \A w \in Vms \ {v} : pc'[w] = pc[w]
<1>1. CASE \/ CheckFiles(v) \/ ReadCertificate(v) \/ ReadPrivateKey(v)
           \/ OpenCert(v) \/ WriteCert(v) \/ OpenKey(v) \/ WriteKey(v) \/ CAFails(v)
  BY <1>1
  DEF TypeOK, CheckFiles, ReadCertificate, ReadPrivateKey, OpenCert, WriteCert, OpenKey,
      WriteKey, CAFails, LoadingCA, Creating, Preparing, At, Goto, End, filter
<1>2. CASE Begin(v) \/ Close(v) \/ Apply(v) \/ ApplyFails(v) \/ MountCA(v) \/ FlushOwn(v)
  BY <1>2
  DEF TypeOK, Begin, Close, Apply, ApplyFails, MountCA, FlushOwn, Preparing, At, Goto, End,
      filter
<1>q. QED BY <1>1, <1>2, Zenon

LEMMA OneCleansUpStep == TypeOK /\ OneCleansUp /\ [Next]_vars => OneCleansUp'
<1> SUFFICES ASSUME TypeOK, OneCleansUp, [Next]_vars PROVE OneCleansUp'
  BY Zenon
<1>1. ASSUME NEW v \in Vms, Begin(v) \/ StartStep(v) \/ Close(v)
      PROVE  OneCleansUp'
  <2>1. CASE Prepare(v)
    <3>1. CASE once = "new"
      <4>1. pc'[v] = "list"
        BY <2>1, <3>1, Zenon DEF Prepare, Goto, TypeOK
      <4>q. QED BY <4>1, Zenon DEF OneCleansUp, Preparing
    <3>2. CASE once = "done"
      BY <2>1, <3>2, Zenon DEF Prepare, OneCleansUp
    <3>q. QED BY <2>1, <3>1, <3>2, Zenon DEF Prepare
  <2>2. CASE ListAnchors(v)
    <3>1. pc'[v] = "flush"
      BY <2>2, Zenon DEF ListAnchors, Goto, TypeOK
    <3>q. QED BY <3>1, Zenon DEF OneCleansUp, Preparing
  <2>3. CASE CleanupFails(v) \/ CleanupEnds(v)
    BY <2>3, Zenon DEF CleanupFails, CleanupEnds, OneCleansUp
  <2>4. CASE FlushStale(v) \/ FlushStaleFails(v)
    BY <2>4, Zenon DEF FlushStale, FlushStaleFails, OneCleansUp
  <2>5. CASE \/ Begin(v) \/ Close(v) \/ CheckFiles(v) \/ ReadCertificate(v)
             \/ ReadPrivateKey(v) \/ OpenCert(v) \/ WriteCert(v) \/ OpenKey(v)
             \/ WriteKey(v) \/ CAFails(v) \/ Apply(v) \/ ApplyFails(v) \/ MountCA(v)
             \/ FlushOwn(v)
    BY <2>5, OutsideOnce, HeldByOther, Zenon
  <2>q. QED BY <1>1, <2>1, <2>2, <2>3, <2>4, <2>5, Zenon DEF StartStep
<1>2. CASE RestartDaemon
  BY <1>2, Zenon DEF RestartDaemon, OneCleansUp
<1>3. CASE UNCHANGED vars
  BY <1>3, Zenon DEF vars, OneCleansUp
<1>q. QED BY <1>1, <1>2, <1>3, Zenon DEF Next

(* No start waits in Once.Do for nobody.                                   *)
THEOREM OnceTheorem == Spec => []OneCleansUp
<1>1. Init => OneCleansUp
  BY Zenon DEF Init, OneCleansUp
<1>2. Inv => TypeOK
  BY Zenon DEF Inv
<1>q. QED BY <1>1, <1>2, OneCleansUpStep, InvHolds, PTL DEF Spec

(* A CA that is complete stays: as long as no two creations have           *)
(* overlapped, no start and no later daemon writes ca.crt or ca.key again, *)
(* so what a guest was given to trust stays the CA of every proxy to come. *)
CaFinal == key \in Vms /\ ~raced' => UNCHANGED <<cert, key>>

THEOREM CaPermanent == Spec => [][CaFinal]_vars
<1>1. Inv /\ [Next]_vars => [CaFinal]_vars
  <2> SUFFICES ASSUME Inv, [Next]_vars, key \in Vms, ~raced' PROVE UNCHANGED <<cert, key>>
    BY Zenon DEF CaFinal
  <2>1. ASSUME NEW v \in Vms, Begin(v) \/ StartStep(v) \/ Close(v)
        PROVE  UNCHANGED <<cert, key>>
    <3>1. CASE OpenCert(v) \/ WriteCert(v) \/ OpenKey(v) \/ WriteKey(v)
      <4>1. ~raced
        BY <3>1, Zenon DEF OpenCert, WriteCert, OpenKey, WriteKey
      <4>2. key = Absent \/ key = Torn
        BY <3>1, <4>1, Zenon DEF Inv, Files, OpenCert, WriteCert, OpenKey, WriteKey, At
      <4>q. QED BY <4>2, VmsAssumption, Zenon
    <3>2. CASE ~(OpenCert(v) \/ WriteCert(v) \/ OpenKey(v) \/ WriteKey(v))
      BY <2>1, <3>2, Zenon
      DEF StartStep, Begin, Close, CheckFiles, ReadCertificate, ReadPrivateKey, CAFails,
          Prepare, ListAnchors, CleanupFails, FlushStale, FlushStaleFails, CleanupEnds,
          Apply, ApplyFails, MountCA, FlushOwn, files
    <3>q. QED BY <3>1, <3>2, Zenon
  <2>2. CASE RestartDaemon
    BY <2>2, Zenon DEF RestartDaemon, files
  <2>3. CASE UNCHANGED vars
    BY <2>3, Zenon DEF vars
  <2>q. QED BY <2>1, <2>2, <2>3, Zenon DEF Next
<1>q. QED BY <1>1, InvHolds, PTL DEF Spec
=============================================================================
