-------------------------- MODULE EgressProxyProofs --------------------------
(***************************************************************************)
(* Proofs about EgressProxy, for any number of connections, any policy and *)
(* any set of names.  What goes upstream is decided two steps earlier, by  *)
(* enforceHost, while names go on changing and other connections run; the  *)
(* inductive invariant says what a connection about to send has behind it, *)
(* and what is known of the idle connections it may use.  The last part is *)
(* about the end of a machine's traffic.                                   *)
(***************************************************************************)
EXTENDS EgressProxy, TLAPS

Name(c) == host[c].name

(* With private ranges blocked, a name that has resolved the same way all  *)
(* along has public addresses only.                                        *)
Vetted(n) ==
  policy.blockPrivate /\ n \notin changed => \A a \in LookupIPs(n) : ~a.private

(* A connection about to send has passed enforceHost with this very host,  *)
(* and one about to open a tunnel is for a host without secrets.           *)
Cleared ==
  \A c \in Conns :
    /\ pc[c] \in {"send", "dial"} => CheckHost(Name(c)) /\ Vetted(Name(c))
    /\ pc[c] = "send" => via[c] \in {"http", "mitm"}
    /\ pc[c] = "dial" => MatchingSecrets(host[c]) = {}

(* Every idle upstream connection was dialed under the same policy. *)
PoolSound ==
  \A p \in pool :
    /\ policy.egress = "strict" => p.addr.family = 4
    /\ policy.dns = "synthetic" => p.host.name \in DOMAIN Literals \union {Localhost}
    /\ policy.blockPrivate /\ p.addr.private => p.host.name \in changed

SentChecked == \A r \in sent : CheckHost(r.host.name)

Inv == /\ TypeOK /\ Cleared /\ PoolSound
       /\ SentChecked /\ PrivateOnlyByChange /\ SecretsExact
       /\ StrictIPv4 /\ SyntheticHosts

-----------------------------------------------------------------------------
(* Looking names up.                                                       *)

(* Normalising a host changes its spelling and not its name. *)
LEMMA NormalName ==
  ASSUME NEW h \in Hosts
  PROVE  Normal(h).name = h.name
BY Zenon DEF Normal, Hosts

(* lookupIPs gives addresses, of the strict family in strict mode, and in  *)
(* synthetic mode only for addresses and localhost.                        *)
LEMMA LookupSound ==
  ASSUME TypeOK, NEW n \in Names \union {NoName}
  PROVE  /\ LookupIPs(n) \subseteq Address
         /\ \A a \in LookupIPs(n) :
              /\ policy.egress = "strict" => a.family = 4
              /\ policy.dns = "synthetic" => n \in DOMAIN Literals \union {Localhost}
<1>1. Resolve(n) \subseteq Address
  <2>1. CASE n = NoName
    BY <2>1, Zenon DEF Resolve
  <2>2. CASE n # NoName /\ n \in DOMAIN Literals
    BY <2>2, LiteralsAssumption, Zenon DEF Resolve
  <2>3. CASE n # NoName /\ n \notin DOMAIN Literals /\ policy.dns = "synthetic"
    <3>1. Loopback \subseteq Address
      BY DEF Loopback, Address
    <3>2. Resolve(n) = IF n = Localhost THEN Loopback ELSE {}
      BY <2>3, Zenon DEF Resolve
    <3> QED BY <3>1, <3>2, Zenon
  <2>4. CASE n # NoName /\ n \notin DOMAIN Literals /\ policy.dns # "synthetic"
    <3>1. Resolve(n) = zone[n]
      BY <2>4, Zenon DEF Resolve
    <3>2. zone[n] \in Zones
      BY <2>4, Zenon DEF TypeOK, Resolved
    <3> QED BY <3>1, <3>2, ZonesAssumption
  <2> QED BY <2>1, <2>2, <2>3, <2>4, Zenon
<1>2. policy.dns = "synthetic" /\ n \notin DOMAIN Literals \union {Localhost}
        => Resolve(n) = {}
  BY Zenon DEF Resolve
<1> QED BY <1>1, <1>2, Zenon DEF LookupIPs, AddressFamily

(* What enforceHost lets pass has public addresses only, when private      *)
(* ranges are blocked.                                                     *)
LEMMA PermittedSound ==
  ASSUME NEW n, Permitted(n)
  PROVE  CheckHost(n) /\ Vetted(n)
BY Zenon DEF Permitted, ResolvesToPrivate, Vetted

(* A pattern matches, by the suffix test of matchHost, exactly the names   *)
(* that extend its own by at least one label, or its own without "*.".     *)
LEMMA MatchHostMeaning ==
  ASSUME NEW p \in Pattern, NEW n \in Seq(STRING)
  PROVE  MatchHost(p, n) <=> Covers(p, n)
<1> DEFINE s == p.name
           j == Len(n) - Len(s) + 1
<1>0. s \in Seq(STRING) /\ s # <<>> /\ Len(s) \in Nat \ {0} /\ Len(n) \in Nat
  BY DEF Pattern
<1>1. CASE ~p.wild
  BY <1>1, Zenon DEF MatchHost, Covers
<1>2. CASE p.wild
  <2>1. ASSUME MatchHost(p, n) PROVE Covers(p, n)
    <3>1. Len(n) >= Len(s) /\ SubSeq(n, j, Len(n)) = s /\ n # s
      BY <1>2, <2>1, Zenon DEF MatchHost, HasSuffix
    <3>2. j # 1
      <4>1. SubSeq(n, 1, Len(n)) = n
        OBVIOUS
      <4> QED BY <3>1, <4>1, Zenon
    <3>3. j \in 2 .. Len(n)
      BY <1>0, <3>1, <3>2
    <3> QED BY <1>2, <3>1, <3>3, Zenon DEF Covers
  <2>2. ASSUME Covers(p, n) PROVE MatchHost(p, n)
    <3>1. PICK k \in 2 .. Len(n) : SubSeq(n, k, Len(n)) = s
      BY <1>2, <2>2, Zenon DEF Covers
    <3>2. Len(s) = Len(n) - k + 1
      BY <1>0, <3>1, SMTT(30)
    <3>3. j = k /\ Len(n) > Len(s)
      BY <1>0, <3>2
    <3>4. SubSeq(n, j, Len(n)) = s
      BY <3>1, <3>3, Zenon
    <3>5. Len(n) >= Len(s) /\ n # s
      BY <1>0, <3>3
    <3> QED BY <1>2, <3>4, <3>5, Zenon DEF MatchHost, HasSuffix
  <2> QED BY <2>1, <2>2, Zenon
<1> QED BY <1>1, <1>2, Zenon

-----------------------------------------------------------------------------
(* Type correctness.                                                       *)

LEMMA NoHostIsHost == NoHost \in Hosts
BY Zenon DEF NoHost, Hosts

LEMMA TypeInit == Init => TypeOK
<1> DEFINE off == [d \in Directions |-> "off"]
           Copying == [Directions -> {"off", "read", "write"}]
<1>1. Init => copiers \in [Conns -> Copying]
  <2>1. off \in Copying
    OBVIOUS
  <2>2. Init => copiers = [c \in Conns |-> off]
    BY Zenon DEF Init
  <2> HIDE DEF off, Copying
  <2> QED BY <2>1, <2>2
<1> QED BY <1>1, NoHostIsHost DEF Init, TypeOK

LEMMA AnsweredType ==
  ASSUME TypeOK, NEW c \in Conns, Answered(c), sent' \subseteq sent,
         UNCHANGED <<policy, zone, changed, up, serverEnd, copiers, pool>>
  PROVE  TypeOK'
<1>1. /\ via' = [via EXCEPT ![c] = "http"] /\ base' = [base EXCEPT ![c] = NoHost]
      /\ host' = [host EXCEPT ![c] = NoHost] /\ carry' = [carry EXCEPT ![c] = {}]
      /\ requests' = requests
  BY Zenon DEF Answered, CloseConn, Forget
<1>2. /\ pc' = [pc EXCEPT ![c] = "closed"] \/ pc' = [pc EXCEPT ![c] = "keep"]
      /\ guestEnd' = guestEnd \/ guestEnd' = [guestEnd EXCEPT ![c] = FALSE]
  BY Zenon DEF Answered, CloseConn
<1> QED BY <1>1, <1>2, NoHostIsHost, Zenon DEF TypeOK

LEMMA RoundTripType ==
  ASSUME TypeOK, NEW c \in Conns, RoundTrip(c), via[c] \in {"http", "mitm"}
  PROVE  TypeOK'
<1> DEFINE tls == via[c] = "mitm"
<1>1. host[c] \in Hosts /\ Normal(host[c]).name \in Names \union {NoName}
  BY NormalName, Zenon DEF TypeOK, Hosts
<1>2. PICK a \in {p.addr : p \in {q \in pool : q.tls = tls /\ q.host = host[c]}}
                 \union LookupIPs(Normal(host[c]).name) :
        /\ sent' = {Record(c, via[c], a, Inject(c))}
        /\ pool' = pool \union {[tls |-> tls, host |-> host[c], addr |-> a]}
  BY Zenon DEF RoundTrip
<1>3. a \in Address
  <2>1. LookupIPs(Normal(host[c]).name) \subseteq Address
    BY <1>1, LookupSound, Zenon
  <2> QED BY <1>2, <2>1 DEF TypeOK
<1>4. pool' \subseteq [tls : BOOLEAN, host : Hosts, addr : Address]
  <2>1. tls \in BOOLEAN
    BY Zenon
  <2> HIDE DEF tls
  <2> QED BY <1>1, <1>2, <1>3, <2>1 DEF TypeOK
<1>5. sent' \subseteq Sent
  BY <1>1, <1>2, <1>3 DEF TypeOK, Sent, Record, Inject
<1> QED BY <1>4, <1>5, Zenon DEF TypeOK, RoundTrip

LEMMA DialType ==
  ASSUME TypeOK, NEW c \in Conns, Dial(c)
  PROVE  TypeOK'
<1>1. host[c] \in Hosts /\ Normal(host[c]).name \in Names \union {NoName}
  BY NormalName, Zenon DEF TypeOK, Hosts
<1>2. PICK a \in LookupIPs(Normal(host[c]).name) : sent' = {Record(c, "tunnel", a, {})}
  BY Zenon DEF Dial
<1>3. sent' \subseteq Sent
  BY <1>1, <1>2, LookupSound DEF TypeOK, Sent, Record
<1>4. copiers' \in [Conns -> [Directions -> {"off", "read", "write"}]]
  BY Zenon DEF TypeOK, Dial
<1> QED BY <1>3, <1>4, NoHostIsHost, Zenon DEF TypeOK, Dial, Forget

(* Cleared is what says that a request about to be sent is no CONNECT. *)
LEMMA TypeStep ==
  ASSUME TypeOK, Cleared, [Next]_vars
  PROVE  TypeOK'
<1>1. ASSUME NEW c \in Conns, Connection(c) PROVE TypeOK'
  <2>1. CASE \E kind \in {"http", "connect"}, h \in Hosts, s \in SUBSET Secrets :
               Arrive(c, kind, h, s)
    BY <2>1 DEF Arrive, TypeOK
  <2>2. CASE BadRequest(c) \/ Refuse(c) \/ SendFails(c) \/ ReadEnds(c) \/ IdleEnds(c)
    BY <2>2, AnsweredType, Zenon
    DEF BadRequest, Refuse, SendFails, ReadEnds, IdleEnds, Answered
  <2>3. CASE Pass(c)
    BY <2>3, Zenon DEF Pass, TypeOK
  <2>4. CASE RoundTrip(c)
    <3>1. via[c] \in {"http", "mitm"}
      BY <2>4, Zenon DEF RoundTrip, Cleared
    <3> QED BY <2>4, <3>1, RoundTripType, Zenon
  <2>5. CASE Respond(c) \/ Handshake(c)
    <3>1. CASE Answered(c)
      BY <2>5, <3>1, AnsweredType, Zenon DEF Respond, Handshake
    <3>2. CASE ~Answered(c)
      BY <2>5, <3>2 DEF Respond, Handshake, Answered, TypeOK
    <3> QED BY <3>1, <3>2, Zenon
  <2>6. CASE \E h \in Hosts, s \in SUBSET Secrets : NextRequest(c, h, s)
    BY <2>6 DEF NextRequest, TypeOK
  <2>7. CASE Dial(c)
    BY <2>7, DialType, Zenon
  <2>8. CASE \E d \in Directions : Copy(c, d)
    <3>1. PICK d \in Directions : Copy(c, d)
      BY <2>8, Zenon
    <3>2. \E x \in {"off", "read", "write"} : copiers' = [copiers EXCEPT ![c][d] = x]
      BY <3>1, Zenon DEF Copy, CopyReads, CopyWrites, CopyEnds
    <3>3. copiers' \in [Conns -> [Directions -> {"off", "read", "write"}]]
      BY <3>2 DEF TypeOK
    <3>4. UNCHANGED <<policy, zone, changed, up, via, base, host, carry, requests, pool, sent>>
      BY <3>1, Zenon DEF Copy, CopyReads, CopyWrites, CopyEnds
    <3>5. /\ guestEnd' \in [Conns -> BOOLEAN] /\ serverEnd' \in [Conns -> BOOLEAN]
          /\ pc' = pc \/ pc' = [pc EXCEPT ![c] = "tunnel"] \/ pc' = [pc EXCEPT ![c] = "closed"]
      BY <3>1, Zenon DEF Copy, CopyReads, CopyWrites, CopyEnds, TypeOK
    <3> QED BY <3>3, <3>4, <3>5, Zenon DEF TypeOK
  <2>9. CASE ServerCloses(c) \/ GuestCloses(c)
    BY <2>9, Zenon DEF ServerCloses, GuestCloses, TypeOK
  <2> QED
    BY <1>1, <2>1, <2>2, <2>3, <2>4, <2>5, <2>6, <2>7, <2>8, <2>9, Zenon
    DEF Connection, Http
<1>2. ASSUME NEW p \in pool, DropIdle(p) PROVE TypeOK'
  BY <1>2, Zenon DEF DropIdle, connVars, TypeOK
<1>3. ASSUME NEW n \in Resolved, NEW ips \in Zones, ChangeZone(n, ips)
      PROVE  TypeOK'
  BY <1>3 DEF ChangeZone, connVars, TypeOK
<1>4. CASE Stop
  BY <1>4, Zenon DEF Stop, TypeOK
<1>5. CASE UNCHANGED vars
  BY <1>5, Zenon DEF vars, connVars, TypeOK
<1> QED BY <1>1, <1>2, <1>3, <1>4, <1>5, Zenon DEF Next

-----------------------------------------------------------------------------
(* What a connection about to send has behind it.                          *)

\* Connections change neither the policy nor what names resolve to.
LEMMA WorldLeft ==
  ASSUME NEW c \in Conns, Connection(c)
  PROVE  UNCHANGED <<policy, zone, changed>>
<1>1. CASE Http(c)
  BY <1>1, Zenon DEF Http, BadRequest, Refuse, Pass, RoundTrip, SendFails, Respond
<1>2. CASE \E d \in Directions : Copy(c, d)
  BY <1>2, Zenon DEF Copy, CopyReads, CopyWrites, CopyEnds
<1> QED BY <1>1, <1>2, Zenon DEF Connection, Arrive, Handshake, ReadEnds, IdleEnds,
             NextRequest, Dial, ServerCloses, GuestCloses

LEMMA PolicyFixed ==
  ASSUME [Next]_vars
  PROVE  policy' = policy /\ \A n : CheckHost(n)' <=> CheckHost(n)
<1>1. policy' = policy
  BY WorldLeft, Zenon DEF Next, vars, DropIdle, ChangeZone, Stop
<1> QED BY <1>1, Zenon DEF CheckHost

\* A name that has not come to resolve differently resolves as before.
LEMMA LookupFixed ==
  ASSUME TypeOK, [Next]_vars
  PROVE  /\ changed \subseteq changed'
         /\ \A n : n \notin changed' => LookupIPs(n)' = LookupIPs(n)
         /\ \A n : Vetted(n) => Vetted(n)'
<1>1. changed \subseteq changed' /\ \A n : n \notin changed' => zone'[n] = zone[n]
  <2>1. CASE \E n \in Resolved, ips \in Zones : ChangeZone(n, ips)
    <3>1. PICK m \in Resolved, ips \in Zones : ChangeZone(m, ips)
      BY <2>1, Zenon
    <3>2. changed' = changed \union {m} /\ zone' = [zone EXCEPT ![m] = ips]
      BY <3>1, Zenon DEF ChangeZone
    <3>3. \A n : n # m => zone'[n] = zone[n]
      BY <3>2
    <3> QED BY <3>2, <3>3, Zenon
  <2>2. CASE ~\E n \in Resolved, ips \in Zones : ChangeZone(n, ips)
    BY <2>2, WorldLeft, Zenon DEF Next, vars, DropIdle, Stop
  <2> QED BY <2>1, <2>2, Zenon
<1>2. policy' = policy
  BY PolicyFixed, Zenon
<1>3. ASSUME NEW n, n \notin changed' PROVE LookupIPs(n)' = LookupIPs(n)
  BY <1>1, <1>2, <1>3, Zenon DEF LookupIPs, AddressFamily, Resolve
<1> QED BY <1>1, <1>2, <1>3, Zenon DEF Vetted

(* Only enforceHost makes a connection ready to send; whatever else moves  *)
(* a connection takes it to another place.                                 *)
LEMMA ClearedStep ==
  ASSUME TypeOK, Cleared, [Next]_vars
  PROVE  Cleared'
<1>0. /\ policy' = policy /\ \A n : CheckHost(n)' <=> CheckHost(n)
      /\ \A n : Vetted(n) => Vetted(n)'
  BY PolicyFixed, LookupFixed, Zenon
<1>1. ASSUME NEW c \in Conns, Pass(c) PROVE Cleared'
  <2>1. host[c] \in Hosts /\ Normal(host[c]).name = Name(c)
    BY NormalName, Zenon DEF TypeOK, Name
  <2>2. CheckHost(Name(c)) /\ Vetted(Name(c))
    BY <1>1, <2>1, PermittedSound, Zenon DEF Pass
  <2>3. /\ pc'[c] = "send" => via[c] \in {"http", "mitm"}
        /\ pc'[c] = "dial" => MatchingSecrets(host[c]) = {}
    BY <1>1, Zenon DEF Pass, TypeOK, ShouldMitmHost
  <2>4. \A d \in Conns \ {c} : pc'[d] = pc[d]
    BY <1>1, Zenon DEF Pass, TypeOK
  <2>5. host' = host /\ via' = via
    BY <1>1, Zenon DEF Pass
  <2> QED BY <1>0, <2>2, <2>3, <2>4, <2>5, Zenon DEF Cleared, Name
<1>2. ASSUME NEW c \in Conns,
             pc'[c] \notin {"send", "dial"},
             \A d \in Conns \ {c} :
               pc'[d] = pc[d] /\ host'[d] = host[d] /\ via'[d] = via[d]
      PROVE  Cleared'
  BY <1>0, <1>2, Zenon DEF Cleared, Name
<1>3. ASSUME UNCHANGED <<pc, host, via>> PROVE Cleared'
  BY <1>0, <1>3, Zenon DEF Cleared, Name
<1>4. ASSUME NEW c \in Conns, Connection(c) PROVE Cleared'
  <2>1. CASE Pass(c)
    BY <2>1, <1>1, Zenon
  <2>2. CASE ServerCloses(c) \/ GuestCloses(c)
    BY <2>2, <1>3, Zenon DEF ServerCloses, GuestCloses
  <2>3. CASE BadRequest(c) \/ Refuse(c) \/ SendFails(c) \/ ReadEnds(c) \/ IdleEnds(c)
    BY <2>3, <1>2 DEF BadRequest, Refuse, SendFails, ReadEnds, IdleEnds, Answered,
                      CloseConn, Forget, TypeOK
  <2>4. CASE RoundTrip(c) \/ Dial(c)
    BY <2>4, <1>2 DEF RoundTrip, Dial, Forget, TypeOK
  <2>5. CASE Respond(c) \/ Handshake(c)
    BY <2>5, <1>2 DEF Respond, Handshake, Answered, CloseConn, Forget, TypeOK
  <2>6. CASE \E kind \in {"http", "connect"}, h \in Hosts, s \in SUBSET Secrets :
               Arrive(c, kind, h, s)
    BY <2>6, <1>2 DEF Arrive, TypeOK
  <2>7. CASE \E h \in Hosts, s \in SUBSET Secrets : NextRequest(c, h, s)
    BY <2>7, <1>2 DEF NextRequest, TypeOK
  <2>8. CASE \E d \in Directions : CopyEnds(c, d)
    BY <2>8, <1>2 DEF CopyEnds, TypeOK
  <2>9. CASE \E d \in Directions : CopyReads(c, d) \/ CopyWrites(c, d)
    BY <2>9, <1>3, Zenon DEF CopyReads, CopyWrites
  <2> QED
    BY <1>4, <2>1, <2>2, <2>3, <2>4, <2>5, <2>6, <2>7, <2>8, <2>9, Zenon
    DEF Connection, Http, Copy
<1>5. CASE \/ \E p \in pool : DropIdle(p)
           \/ \E n \in Resolved, ips \in Zones : ChangeZone(n, ips)
           \/ Stop
           \/ UNCHANGED vars
  BY <1>5, <1>3, Zenon DEF DropIdle, ChangeZone, Stop, vars, connVars
<1> QED BY <1>4, <1>5, Zenon DEF Next

-----------------------------------------------------------------------------
(* What went upstream, and what may be used again.                         *)

LEMMA RoundTripSound ==
  ASSUME Inv, [Next]_vars, NEW c \in Conns, RoundTrip(c)
  PROVE  /\ PoolSound' /\ SentChecked' /\ PrivateOnlyByChange' /\ SecretsExact'
         /\ StrictIPv4' /\ SyntheticHosts'
<1> USE DEF Inv
<1> DEFINE tls == via[c] = "mitm"
           idle == {p \in pool : p.tls = tls /\ p.host = host[c]}
           n == Normal(host[c]).name
<1>1. host[c] \in Hosts /\ n = Name(c) /\ n \in Names \union {NoName}
  BY NormalName, Zenon DEF TypeOK, Name, Hosts
<1>2. PICK a \in {p.addr : p \in idle} \union LookupIPs(n) :
        /\ sent' = {Record(c, via[c], a, Inject(c))}
        /\ pool' = pool \union {[tls |-> tls, host |-> host[c], addr |-> a]}
  BY Zenon DEF RoundTrip
<1>3. /\ policy.egress = "strict" => a.family = 4
      /\ policy.dns = "synthetic" => n \in DOMAIN Literals \union {Localhost}
      /\ policy.blockPrivate /\ a.private => n \in changed
  <2>1. CASE a \in LookupIPs(n)
    BY <2>1, <1>1, LookupSound, Zenon DEF RoundTrip, Cleared, Vetted
  <2>2. CASE \E p \in idle : a = p.addr
    BY <2>2, <1>1, Zenon DEF PoolSound, Name
  <2> QED BY <1>2, <2>1, <2>2, Zenon
<1>4. policy' = policy /\ changed \subseteq changed' /\ \A m : CheckHost(m)' <=> CheckHost(m)
  BY PolicyFixed, LookupFixed, Zenon
<1>5. /\ CheckHost(Name(c)) /\ via[c] \in {"http", "mitm"}
  BY Zenon DEF RoundTrip, Cleared
<1> DEFINE r == Record(c, via[c], a, Inject(c))
<1>6. /\ r.host = host[c] /\ r.addr = a /\ r.via = via[c]
      /\ r.values = r.carried \intersect MatchingSecrets(r.host)
  BY Zenon DEF Record, Inject
<1>7. sent' = {r}
  BY <1>2, Zenon
<1> HIDE DEF r, tls, idle, n
<1>8. PoolSound'
  <2> DEFINE q == [tls |-> tls, host |-> host[c], addr |-> a]
  <2>1. q.addr = a /\ q.host.name = n
    BY <1>1, Zenon DEF Name
  <2>2. pool' = pool \union {q}
    BY <1>2, Zenon
  <2> HIDE DEF q
  <2> QED BY <1>3, <1>4, <2>1, <2>2, Zenon DEF PoolSound
<1>9. SentChecked' /\ PrivateOnlyByChange'
  BY <1>1, <1>3, <1>4, <1>5, <1>6, <1>7, Zenon DEF SentChecked, PrivateOnlyByChange, Name
<1>10. SecretsExact'
  BY <1>5, <1>6, <1>7, Zenon DEF SecretsExact
<1>11. StrictIPv4' /\ SyntheticHosts'
  BY <1>1, <1>3, <1>4, <1>6, <1>7, Zenon DEF StrictIPv4, SyntheticHosts, Name
<1> QED BY <1>8, <1>9, <1>10, <1>11, Zenon

LEMMA DialSound ==
  ASSUME Inv, [Next]_vars, NEW c \in Conns, Dial(c)
  PROVE  /\ PoolSound' /\ SentChecked' /\ PrivateOnlyByChange' /\ SecretsExact'
         /\ StrictIPv4' /\ SyntheticHosts'
<1> USE DEF Inv
<1> DEFINE n == Normal(host[c]).name
<1>1. host[c] \in Hosts /\ n = Name(c) /\ n \in Names \union {NoName}
  BY NormalName, Zenon DEF TypeOK, Name, Hosts
<1>2. PICK a \in LookupIPs(n) : sent' = {Record(c, "tunnel", a, {})}
  BY Zenon DEF Dial
<1>3. /\ policy.egress = "strict" => a.family = 4
      /\ policy.dns = "synthetic" => n \in DOMAIN Literals \union {Localhost}
      /\ policy.blockPrivate /\ a.private => n \in changed
  BY <1>1, <1>2, LookupSound, Zenon DEF Dial, Cleared, Vetted
<1>4. policy' = policy /\ changed \subseteq changed' /\ \A m : CheckHost(m)' <=> CheckHost(m)
  BY PolicyFixed, LookupFixed, Zenon
<1>5. /\ CheckHost(Name(c)) /\ MatchingSecrets(host[c]) = {}
  BY Zenon DEF Dial, Cleared
<1> DEFINE r == Record(c, "tunnel", a, {})
<1>6. r.host = host[c] /\ r.addr = a /\ r.values = {}
  BY Zenon DEF Record
<1>7. sent' = {r} /\ pool' = pool
  BY <1>2, Zenon DEF Dial
<1> HIDE DEF r, n
<1>8. PoolSound'
  BY <1>4, <1>7, Zenon DEF PoolSound
<1>9. SentChecked' /\ PrivateOnlyByChange'
  BY <1>1, <1>3, <1>4, <1>5, <1>6, <1>7, Zenon DEF SentChecked, PrivateOnlyByChange, Name
<1>10. SecretsExact'
  BY <1>5, <1>6, <1>7, Zenon DEF SecretsExact
<1>11. StrictIPv4' /\ SyntheticHosts'
  BY <1>1, <1>3, <1>4, <1>6, <1>7, Zenon DEF StrictIPv4, SyntheticHosts, Name
<1> QED BY <1>8, <1>9, <1>10, <1>11, Zenon

(* Every other step sends nothing and adds no connection to the pool. *)
LEMMA OthersSound ==
  ASSUME Inv, [Next]_vars, sent' \subseteq sent, pool' \subseteq pool
  PROVE  /\ PoolSound' /\ SentChecked' /\ PrivateOnlyByChange' /\ SecretsExact'
         /\ StrictIPv4' /\ SyntheticHosts'
<1>1. policy' = policy /\ changed \subseteq changed' /\ \A m : CheckHost(m)' <=> CheckHost(m)
  BY PolicyFixed, LookupFixed, Zenon DEF Inv
<1> QED BY <1>1, Zenon DEF Inv, PoolSound, SentChecked, PrivateOnlyByChange, SecretsExact,
                    StrictIPv4, SyntheticHosts

LEMMA InvStep ==
  ASSUME Inv, [Next]_vars
  PROVE  Inv'
<1>1. TypeOK' /\ Cleared'
  BY TypeStep, ClearedStep, Zenon DEF Inv
<1>2. CASE \E c \in Conns : RoundTrip(c)
  BY <1>1, <1>2, RoundTripSound, Zenon DEF Inv
<1>3. CASE \E c \in Conns : Dial(c)
  BY <1>1, <1>3, DialSound, Zenon DEF Inv
<1>4. CASE ~\E c \in Conns : RoundTrip(c) \/ Dial(c)
  <2>1. ASSUME NEW c \in Conns, Http(c) PROVE sent' \subseteq sent /\ pool' = pool
    BY <1>4, <2>1, Zenon DEF Http, BadRequest, Refuse, Pass, SendFails, Respond
  <2>2. ASSUME NEW c \in Conns, Connection(c), ~Http(c)
        PROVE  sent' = sent /\ pool' = pool
    BY <1>4, <2>2, ZenonT(30) DEF Connection, Arrive, Handshake, ReadEnds, IdleEnds,
         NextRequest, Copy, CopyReads, CopyWrites, CopyEnds, ServerCloses, GuestCloses
  <2>3. ASSUME ~\E c \in Conns : Connection(c)
        PROVE  sent' = sent /\ pool' \subseteq pool
    BY <2>3, Zenon DEF Next, vars, DropIdle, ChangeZone, Stop
  <2>4. sent' \subseteq sent /\ pool' \subseteq pool
    BY <2>1, <2>2, <2>3, Zenon
  <2> QED BY <1>1, <2>4, OthersSound, Zenon DEF Inv
<1> QED BY <1>2, <1>3, <1>4, Zenon

LEMMA InvHolds == Spec => []Inv
<1>1. Init => Inv
  BY TypeInit, Zenon DEF Init, Inv, Cleared, PoolSound, SentChecked, PrivateOnlyByChange,
                  SecretsExact, StrictIPv4, SyntheticHosts
<1>2. Inv /\ [Next]_vars => Inv'
  BY InvStep, Zenon
<1> QED BY <1>1, <1>2, PTL DEF Spec

-----------------------------------------------------------------------------
(* Whatever the policy, whatever the names resolve to from one lookup to   *)
(* the next, and however many connections run side by side: a request goes *)
(* upstream only for a host the policy covers.                             *)
THEOREM PolicyTheorem == Spec => []PolicyHolds
<1>1. Inv => PolicyHolds
  <2> SUFFICES ASSUME Inv, NEW r \in sent
               PROVE  /\ \A p \in policy.deny : ~Covers(p, r.host.name)
                      /\ \/ policy.allow = {}
                         \/ \E p \in policy.allow : Covers(p, r.host.name)
    BY Zenon DEF PolicyHolds
  <2>1. policy \in Policy /\ r \in Sent
    BY PoliciesAssumption, Zenon DEF Inv, TypeOK
  <2>2. policy.allow \subseteq Pattern /\ policy.deny \subseteq Pattern
    BY <2>1, Zenon DEF Policy
  <2>3. r.host.name \in Seq(STRING)
    <3>1. r.host \in Hosts
      BY <2>1, Zenon DEF Sent
    <3>2. r.host.name \in Names \union {NoName}
      BY <3>1, Zenon DEF Hosts
    <3>3. NoName \in Seq(STRING)
      BY DEF NoName
    <3> QED BY <3>2, <3>3, NamesAssumption, Zenon
  <2>4. CheckHost(r.host.name)
    BY Zenon DEF Inv, SentChecked
  <2> QED BY <2>2, <2>3, <2>4, MatchHostMeaning, Zenon DEF CheckHost, MatchesAny
<1> QED BY <1>1, InvHolds, PTL

(* With private ranges blocked a private address is reached only after its *)
(* name came to resolve differently, also over an idle connection that     *)
(* another request opened.                                                 *)
THEOREM PrivateTheorem == Spec => []PrivateOnlyByChange
<1>1. Inv => PrivateOnlyByChange
  BY Zenon DEF Inv
<1> QED BY <1>1, InvHolds, PTL

(* Each request carries the values of exactly the secrets that it asks for *)
(* and that are for its own host, and no such host is behind a tunnel.     *)
THEOREM SecretsTheorem == Spec => []SecretsExact
<1>1. Inv => SecretsExact
  BY Zenon DEF Inv
<1> QED BY <1>1, InvHolds, PTL

(* A strict machine reaches IPv4 addresses only, and in synthetic mode     *)
(* traffic goes to addresses and to localhost only, also over upstream     *)
(* connections that are used again.                                        *)
THEOREM ModesTheorem == Spec => []ModesKept
<1>1. Inv => ModesKept
  BY Zenon DEF Inv, ModesKept
<1> QED BY <1>1, InvHolds, PTL

-----------------------------------------------------------------------------
(* Why traffic ends.  The goroutines of a tunnel are both running, or one  *)
(* has ended and closed both sides; no side is open without a handler.     *)
Runs(c, d) == copiers[c][d] # "off"

EndsOf(c) ==
  /\ pc[c] = "tunnel" => \/ Runs(c, "toServer") /\ Runs(c, "toGuest")
                         \/ /\ Runs(c, "toServer") \/ Runs(c, "toGuest")
                            /\ ~guestEnd[c] /\ ~serverEnd[c]
  /\ pc[c] # "tunnel" => ~Runs(c, "toServer") /\ ~Runs(c, "toGuest") /\ ~serverEnd[c]
  /\ pc[c] \in {"idle", "closed"} => ~guestEnd[c]
  /\ guestEnd[c] => up

(* When a side of a tunnel has closed, one of its goroutines is about to   *)
(* end and to close both, or is still writing what it read from that side  *)
(* to the other one (proxyTunnel), whichever of the two sides ended first. *)
EndNoticed ==
  \A c \in Conns :
    pc[c] = "tunnel" /\ (~guestEnd[c] \/ ~serverEnd[c]) =>
      \E d \in Directions : CopyOver(c, d) \/ (SourceEnded(c, d) /\ CaughtWriting(c, d))

(* What a connection has left to do once the guest is gone: by its place,  *)
(* then by the goroutines of its tunnel, then by the server's side.  The   *)
(* one that reads from the guest has at most a write to do; the one that   *)
(* reads from the server ends with its next write.                         *)
PlaceLeft(c) ==
  CASE pc[c] = "enforce" -> 4 [] pc[c] \in {"handshake", "send", "dial"} -> 3
    [] pc[c] \in {"await", "tunnel"} -> 2 [] pc[c] \in {"read", "keep"} -> 1 [] OTHER -> 0

CopyLeft(c, d) ==
  IF copiers[c][d] = "off" THEN 0
  ELSE IF copiers[c][d] = (IF d = "toServer" THEN "write" ELSE "read") THEN 2 ELSE 1

LessLeft(c) ==
  \/ PlaceLeft(c)' < PlaceLeft(c)
  \/ /\ pc'[c] = pc[c]
     /\ \/ \E d \in Directions :
             /\ CopyLeft(c, d)' < CopyLeft(c, d)
             /\ \A e \in Directions \ {d} : copiers'[c][e] = copiers[c][e]
        \/ copiers'[c] = copiers[c] /\ serverEnd[c] /\ ~serverEnd'[c]

Rests(c) == UNCHANGED <<pc[c], copiers[c], guestEnd[c], serverEnd[c]>>

(* After StopVM no connection arrives or reads another request, and each   *)
(* step of one that is left brings it nearer to its end: it can neither go *)
(* back to an earlier place nor be given more to do.                       *)
WindsDown ==
  ~up => /\ ~up'
         /\ \A c \in Conns :
              /\ Connection(c) => LessLeft(c)
              /\ LessLeft(c) \/ Rests(c)

\* A connection's step leaves the others alone, and the proxy up or down.
LEMMA OneConnection ==
  ASSUME TypeOK, NEW c \in Conns, Connection(c)
  PROVE  up' = up /\ \A d \in Conns \ {c} : Rests(d)
<1> USE DEF TypeOK, Rests
<1>1. CASE BadRequest(c) \/ Refuse(c) \/ SendFails(c) \/ ReadEnds(c) \/ IdleEnds(c)
  BY <1>1, Zenon DEF BadRequest, Refuse, SendFails, ReadEnds, IdleEnds, Answered, CloseConn
<1>2. CASE Pass(c) \/ RoundTrip(c) \/ Dial(c)
  BY <1>2, ZenonT(30) DEF Pass, RoundTrip, Dial
<1>3. CASE Respond(c) \/ Handshake(c)
  BY <1>3, Zenon DEF Respond, Handshake, Answered, CloseConn
<1>4. CASE \E kind \in {"http", "connect"}, h \in Hosts, s \in SUBSET Secrets :
             Arrive(c, kind, h, s)
  BY <1>4, ZenonT(30) DEF Arrive
<1>5. CASE \E h \in Hosts, s \in SUBSET Secrets : NextRequest(c, h, s)
  BY <1>5, Zenon DEF NextRequest
<1>6. CASE \E d \in Directions : Copy(c, d)
  BY <1>6, ZenonT(30) DEF Copy, CopyReads, CopyWrites, CopyEnds
<1>7. CASE ServerCloses(c) \/ GuestCloses(c)
  BY <1>7, Zenon DEF ServerCloses, GuestCloses
<1> QED BY <1>1, <1>2, <1>3, <1>4, <1>5, <1>6, <1>7, Zenon DEF Connection, Http

\* Every other step, Stop apart, leaves all connections alone.
LEMMA NoConnection ==
  ASSUME [Next]_vars, \A c \in Conns : ~Connection(c), ~Stop
  PROVE  up' = up /\ \A c \in Conns : Rests(c)
BY Zenon DEF Next, vars, connVars, DropIdle, ChangeZone, Rests

\* A step of a goroutine of a tunnel, and what it does to the other.
LEMMA CopyStep ==
  ASSUME TypeOK, NEW c \in Conns, NEW d \in Directions, Copy(c, d)
  PROVE  /\ pc[c] = "tunnel"
         /\ \A e \in Directions \ {d} : copiers'[c][e] = copiers[c][e]
         /\ \/ /\ UNCHANGED <<pc, guestEnd, serverEnd>>
               /\ \/ /\ copiers[c][d] = "read" /\ copiers'[c][d] = "write"
                     /\ ~SourceEnded(c, d)
                  \/ /\ copiers[c][d] = "write" /\ copiers'[c][d] = "read"
                     /\ ~TargetEnded(c, d)
            \/ /\ Runs(c, d) /\ copiers'[c][d] = "off"
               /\ ~guestEnd'[c] /\ ~serverEnd'[c]
               /\ pc'[c] = IF \E e \in Directions \ {d} : Runs(c, e)
                           THEN "tunnel" ELSE "closed"
<1>1. CASE CopyReads(c, d)
  BY <1>1, ZenonT(30) DEF CopyReads, TypeOK
<1>2. CASE CopyWrites(c, d)
  BY <1>2, ZenonT(30) DEF CopyWrites, TypeOK
<1>3. CASE CopyEnds(c, d)
  <2>1. copiers[c] \in [Directions -> {"off", "read", "write"}]
    BY Zenon DEF TypeOK
  <2>2. /\ copiers' = [copiers EXCEPT ![c][d] = "off"]
        /\ copiers \in [Conns -> [Directions -> {"off", "read", "write"}]]
    BY <1>3, Zenon DEF CopyEnds, TypeOK
  <2>3. copiers'[c][d] = "off" /\ \A e \in Directions \ {d} : copiers'[c][e] = copiers[c][e]
    BY <2>1, <2>2
  <2>4. ~guestEnd'[c] /\ ~serverEnd'[c] /\ pc[c] = "tunnel" /\ CopyOver(c, d)
    BY <1>3, Zenon DEF CopyEnds, TypeOK
  <2>5. pc'[c] = IF \E e \in Directions \ {d} : Runs(c, e) THEN "tunnel" ELSE "closed"
    BY <1>3, Zenon DEF CopyEnds, TypeOK, Runs
  <2>6. Runs(c, d)
    BY <2>4 DEF CopyOver, Runs
  <2> QED BY <2>3, <2>4, <2>5, <2>6, Zenon
<1> QED BY <1>1, <1>2, <1>3, Zenon DEF Copy

LEMMA EndsOfStep ==
  ASSUME TypeOK, NEW c \in Conns, Connection(c), EndsOf(c)
  PROVE  EndsOf(c)'
<1>0. up' = up
  BY OneConnection, Zenon
<1> USE DEF Runs
<1>1. CASE BadRequest(c) \/ Refuse(c) \/ SendFails(c) \/ ReadEnds(c) \/ IdleEnds(c)
  <2>1. /\ pc[c] # "tunnel" /\ copiers' = copiers /\ serverEnd' = serverEnd
        /\ \/ pc'[c] = "closed" /\ ~guestEnd'[c]
           \/ pc'[c] = "keep" /\ guestEnd'[c] = guestEnd[c]
    BY <1>1, Zenon DEF BadRequest, Refuse, SendFails, ReadEnds, IdleEnds, Answered,
                       CloseConn, TypeOK
  <2> QED BY <1>0, <2>1, Zenon DEF EndsOf
<1>2. CASE Pass(c) \/ RoundTrip(c)
  BY <1>0, <1>2, ZenonT(30) DEF Pass, RoundTrip, TypeOK, EndsOf
<1>3. CASE Dial(c)
  <2>1. /\ pc'[c] = "tunnel" /\ guestEnd'[c] = guestEnd[c]
        /\ copiers'[c] = [d \in Directions |-> "read"]
    BY <1>3, Zenon DEF Dial, TypeOK
  <2>2. copiers'[c]["toServer"] = "read" /\ copiers'[c]["toGuest"] = "read"
    BY <2>1, Zenon DEF Directions
  <2> QED BY <1>0, <2>1, <2>2, Zenon DEF EndsOf
<1>4. CASE Respond(c) \/ Handshake(c)
  <2>1. /\ pc[c] \in {"await", "handshake"} /\ copiers' = copiers /\ serverEnd' = serverEnd
        /\ \/ pc'[c] = "closed" /\ ~guestEnd'[c]
           \/ pc'[c] \in {"keep", "read"} /\ guestEnd'[c] = guestEnd[c]
    BY <1>4, Zenon DEF Respond, Handshake, Answered, CloseConn, TypeOK
  <2> QED BY <1>0, <2>1, Zenon DEF EndsOf
<1>5. CASE \E kind \in {"http", "connect"}, h \in Hosts, s \in SUBSET Secrets :
             Arrive(c, kind, h, s)
  BY <1>0, <1>5, ZenonT(30) DEF Arrive, TypeOK, EndsOf
<1>6. CASE \E h \in Hosts, s \in SUBSET Secrets : NextRequest(c, h, s)
  BY <1>0, <1>6, Zenon DEF NextRequest, TypeOK, EndsOf
<1>7. CASE \E d \in Directions : Copy(c, d)
  <2>1. PICK d \in Directions : Copy(c, d)
    BY <1>7, Zenon
  <2>2. CASE d = "toServer"
    BY <1>0, <2>1, <2>2, CopyStep DEF EndsOf, Directions
  <2>3. CASE d = "toGuest"
    BY <1>0, <2>1, <2>3, CopyStep DEF EndsOf, Directions
  <2> QED BY <2>2, <2>3, Zenon DEF Directions
<1>8. CASE ServerCloses(c) \/ GuestCloses(c)
  BY <1>0, <1>8, Zenon DEF ServerCloses, GuestCloses, TypeOK, EndsOf
<1> QED BY <1>1, <1>2, <1>3, <1>4, <1>5, <1>6, <1>7, <1>8, Zenon DEF Connection, Http

LEMMA EndsOfRests ==
  ASSUME NEW c \in Conns, EndsOf(c), up' = up, Rests(c)
  PROVE  EndsOf(c)'
<1>1. /\ pc'[c] = pc[c] /\ copiers'[c] = copiers[c]
      /\ guestEnd'[c] = guestEnd[c] /\ serverEnd'[c] = serverEnd[c]
  BY Zenon DEF Rests
<1> QED BY <1>1, SMT DEF EndsOf, Runs

LEMMA EndsHold == Spec => []((\A c \in Conns : EndsOf(c)) /\ TypeOK)
<1>1. Init => \A c \in Conns : EndsOf(c)
  <2> SUFFICES ASSUME Init, NEW c \in Conns PROVE EndsOf(c)
    BY Zenon
  <2>1. /\ pc[c] = "idle" /\ ~guestEnd[c] /\ ~serverEnd[c]
        /\ copiers[c] = [d \in Directions |-> "off"]
    BY Zenon DEF Init
  <2>2. copiers[c]["toServer"] = "off" /\ copiers[c]["toGuest"] = "off"
    BY <2>1, Zenon DEF Directions
  <2> QED BY <2>1, <2>2, Zenon DEF EndsOf, Runs
<1>2. TypeOK /\ (\A c \in Conns : EndsOf(c)) /\ [Next]_vars => (\A c \in Conns : EndsOf(c))'
  <2> SUFFICES ASSUME TypeOK, \A c \in Conns : EndsOf(c), [Next]_vars, NEW d \in Conns
               PROVE  EndsOf(d)'
    BY Zenon
  <2>1. ASSUME NEW c \in Conns, Connection(c) PROVE EndsOf(d)'
    <3>1. CASE d = c
      BY <2>1, <3>1, EndsOfStep, Zenon
    <3>2. CASE d # c
      BY <2>1, <3>2, OneConnection, EndsOfRests, Zenon
    <3> QED BY <3>1, <3>2, Zenon
  <2>2. CASE Stop
    BY <2>2, Zenon DEF Stop, EndsOf, Runs
  <2>3. CASE (\A c \in Conns : ~Connection(c)) /\ ~Stop
    BY <2>3, NoConnection, EndsOfRests, Zenon
  <2> QED BY <2>1, <2>2, <2>3, Zenon
<1>3. Inv => TypeOK
  BY Zenon DEF Inv
<1> QED BY <1>1, <1>2, <1>3, InvHolds, PTL DEF Spec

(* Neither goroutine of a tunnel misses the end of its side: nothing but a *)
(* write that the other side does not take can hold a tunnel that has lost *)
(* one.                                                                    *)
THEOREM TunnelTheorem == Spec => []EndNoticed
<1>1. (\A c \in Conns : EndsOf(c)) /\ TypeOK => EndNoticed
  <2> SUFFICES ASSUME NEW c \in Conns, EndsOf(c), TypeOK,
                      pc[c] = "tunnel", ~guestEnd[c] \/ ~serverEnd[c]
               PROVE  \E d \in Directions :
                        CopyOver(c, d) \/ (SourceEnded(c, d) /\ CaughtWriting(c, d))
    BY Zenon DEF EndNoticed
  <2>1. PICK d \in Directions : Runs(c, d) /\ SourceEnded(c, d)
    <3>1. CASE Runs(c, "toServer") /\ Runs(c, "toGuest")
      BY <3>1 DEF SourceEnded, Directions
    <3>2. CASE (Runs(c, "toServer") \/ Runs(c, "toGuest")) /\ ~guestEnd[c] /\ ~serverEnd[c]
      BY <3>2 DEF SourceEnded, Directions
    <3> QED BY <3>1, <3>2, Zenon DEF EndsOf
  <2>2. copiers[c][d] \in {"read", "write"}
    <3>1. copiers[c] \in [Directions -> {"off", "read", "write"}]
      BY Zenon DEF TypeOK
    <3> QED BY <2>1, <3>1 DEF Runs
  <2> QED BY <2>1, <2>2, Zenon DEF CopyOver, CaughtWriting
<1> QED BY <1>1, EndsHold, PTL

\* A step of a connection whose guest has gone.
LEMMA StepLeavesLess ==
  ASSUME TypeOK, NEW c \in Conns, EndsOf(c), Connection(c), ~up
  PROVE  LessLeft(c)
<1>0. ~guestEnd[c]
  BY Zenon DEF EndsOf
<1>1. CASE BadRequest(c) \/ Refuse(c) \/ SendFails(c) \/ ReadEnds(c) \/ IdleEnds(c)
  <2>1. pc'[c] = "closed" /\ pc[c] \in {"enforce", "send", "dial", "read", "keep"}
    BY <1>0, <1>1, Zenon DEF BadRequest, Refuse, SendFails, ReadEnds, IdleEnds, Answered,
                             CloseConn, TypeOK
  <2>2. PlaceLeft(c)' < PlaceLeft(c)
    BY <2>1 DEF PlaceLeft
  <2> QED BY <2>2, Zenon DEF LessLeft
<1>2. CASE Pass(c)
  <2>1. pc[c] = "enforce" /\ pc'[c] \in {"send", "handshake", "dial"}
    BY <1>2, Zenon DEF Pass, TypeOK
  <2>2. PlaceLeft(c)' < PlaceLeft(c)
    BY <2>1 DEF PlaceLeft
  <2> QED BY <2>2, Zenon DEF LessLeft
<1>3. CASE RoundTrip(c) \/ Dial(c)
  <2>1. pc[c] \in {"send", "dial"} /\ pc'[c] \in {"await", "tunnel"}
    BY <1>3, Zenon DEF RoundTrip, Dial, TypeOK
  <2>2. PlaceLeft(c)' < PlaceLeft(c)
    BY <2>1 DEF PlaceLeft
  <2> QED BY <2>2, Zenon DEF LessLeft
<1>4. CASE Respond(c) \/ Handshake(c)
  <2>1. \/ pc[c] = "await" /\ pc'[c] = "closed"
        \/ pc[c] = "handshake" /\ pc'[c] \in {"read", "closed"}
    BY <1>0, <1>4, Zenon DEF Respond, Handshake, Answered, CloseConn, TypeOK
  <2>2. PlaceLeft(c)' < PlaceLeft(c)
    BY <2>1 DEF PlaceLeft
  <2> QED BY <2>2, Zenon DEF LessLeft
<1>5. CASE \E d \in Directions : Copy(c, d)
  <2>1. PICK d \in Directions : Copy(c, d)
    BY <1>5, Zenon
  <2>2. CASE pc'[c] = "closed"
    <3>1. PlaceLeft(c)' < PlaceLeft(c)
      BY <2>1, <2>2, CopyStep DEF PlaceLeft
    <3> QED BY <3>1, Zenon DEF LessLeft
  <2>3. CASE pc'[c] = pc[c]
    <3>1. CopyLeft(c, d)' < CopyLeft(c, d)
      <4>1. CASE d = "toServer"
        BY <1>0, <2>1, <4>1, CopyStep DEF CopyLeft, SourceEnded, TargetEnded, Runs
      <4>2. CASE d = "toGuest"
        BY <1>0, <2>1, <4>2, CopyStep DEF CopyLeft, SourceEnded, TargetEnded, Runs
      <4> QED BY <4>1, <4>2, Zenon DEF Directions
    <3>2. \A e \in Directions \ {d} : copiers'[c][e] = copiers[c][e]
      BY <2>1, CopyStep, Zenon
    <3> QED BY <2>3, <3>1, <3>2, Zenon DEF LessLeft
  <2>4. pc'[c] = "closed" \/ pc'[c] = pc[c]
    BY <2>1, CopyStep, Zenon
  <2> QED BY <2>2, <2>3, <2>4, Zenon
<1>6. CASE ServerCloses(c)
  BY <1>6, Zenon DEF ServerCloses, TypeOK, LessLeft
<1>7. CASE \/ GuestCloses(c)
           \/ \E h \in Hosts, s \in SUBSET Secrets : NextRequest(c, h, s)
           \/ \E kind \in {"http", "connect"}, h \in Hosts, s \in SUBSET Secrets :
                Arrive(c, kind, h, s)
  BY <1>0, <1>7, Zenon DEF GuestCloses, NextRequest, Arrive
<1> QED BY <1>1, <1>2, <1>3, <1>4, <1>5, <1>6, <1>7, Zenon DEF Connection, Http

(* All that is left of a stopped machine's traffic comes to its end.       *)
THEOREM StoppedTheorem == Spec => [][WindsDown]_vars
<1>1. (\A c \in Conns : EndsOf(c)) /\ TypeOK /\ [Next]_vars => [WindsDown]_vars
  <2> SUFFICES ASSUME \A c \in Conns : EndsOf(c), TypeOK, [Next]_vars, ~up
               PROVE  /\ ~up'
                      /\ \A c \in Conns :
                           /\ Connection(c) => LessLeft(c)
                           /\ LessLeft(c) \/ Rests(c)
    BY Zenon DEF WindsDown
  <2>1. \A c \in Conns : Connection(c) => LessLeft(c)
    BY StepLeavesLess, Zenon
  <2>2. ASSUME NEW c \in Conns, Connection(c)
        PROVE  ~up' /\ \A d \in Conns : LessLeft(d) \/ Rests(d)
    BY <2>1, <2>2, OneConnection, Zenon
  <2>3. ~Stop
    BY Zenon DEF Stop
  <2>4. CASE \A c \in Conns : ~Connection(c)
    <3>1. up' = up /\ \A c \in Conns : Rests(c)
      BY <2>3, <2>4, NoConnection, Zenon
    <3> QED BY <2>4, <3>1, Zenon
  <2> QED BY <2>1, <2>2, <2>4, Zenon
<1> QED BY <1>1, EndsHold, PTL DEF Spec
=============================================================================
