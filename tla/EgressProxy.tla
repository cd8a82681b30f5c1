----------------------------- MODULE EgressProxy -----------------------------
(***************************************************************************)
(* The proxy of one virtual machine: the host policy, the DNS modes, plain *)
(* requests, CONNECT tunnels, intercepted TLS connections with the secrets *)
(* put into their requests, and the end of all of them when the machine    *)
(* stops.  Connections of the guest are served side by side; names may     *)
(* resolve differently from one lookup to the next.                        *)
(*                                                                         *)
(* A host is a name, a sequence of ASCII labels, and a spelling: upper     *)
(* case letters, blanks and one final dot are the spelling "other".  Other *)
(* names, which net/http maps to ASCII after the policy was asked, are     *)
(* outside the model.  A pattern of the policy is a name, or "*." before a *)
(* name.  An address is known by its family and whether isPrivateIP holds  *)
(* of it.                                                                  *)
(***************************************************************************)
EXTENDS Naturals, Sequences, FiniteSets

CONSTANTS
  Conns,       \* connections of the guest to the proxy
  Policies,    \* the policies a run considers
  Secrets,     \* the secrets of the machine: names
  SecretHosts, \* SecretHosts[s]: the patterns of secret s
  Names,       \* names requests are for
  Literals,    \* names that are addresses themselves, with the address
  Zones,       \* what a name may resolve to: sets of addresses, {} a failure
  MaxRequests, \* bound: requests on one connection, CONNECTs apart
  MaxChanging  \* bound: names that come to resolve differently

Address == [family : {4, 6}, private : BOOLEAN]
Pattern == [wild : BOOLEAN, name : Seq(STRING) \ {<<>>}]
Policy == [allow : SUBSET Pattern, deny : SUBSET Pattern, blockPrivate : BOOLEAN,
           egress : {"compat", "strict"}, dns : {"open", "trusted", "synthetic"}]

ASSUME NamesAssumption == Names \subseteq Seq(STRING)
ASSUME SecretsAssumption == SecretHosts \in [Secrets -> SUBSET Pattern]
ASSUME LiteralsAssumption ==
  DOMAIN Literals \subseteq Names /\ \A n \in DOMAIN Literals : Literals[n] \in Address
ASSUME ZonesAssumption == Zones \subseteq SUBSET Address
ASSUME PoliciesAssumption == Policies \subseteq Policy
ASSUME BoundsAssumption == MaxRequests \in Nat /\ MaxChanging \in Nat

Localhost == <<"localhost">>
NoName == <<>>
Hosts == [name : Names \union {NoName}, spelling : {"plain", "other"}]
Normal(h) == [h EXCEPT !.spelling = "plain"]
Resolved == Names \ DOMAIN Literals
Directions == {"toServer", "toGuest"}

VARIABLES
  policy,     \* the policy of the machine
  zone,       \* what each name resolves to now
  changed,    \* the names that have come to resolve differently
  up,         \* the machine runs and its proxy listens
  pc,         \* where each connection is
  via,        \* how its current request came: "http", "connect", "mitm"
  base,       \* the host of its CONNECT
  host,       \* the host of its current request
  carry,      \* the secrets whose placeholder is in that request's header
  requests,   \* requests read from each connection, CONNECTs apart
  guestEnd,   \* the connection to the guest is open
  serverEnd,  \* a tunnel's connection to the server is open
  copiers,    \* the goroutines of a tunnel: one per direction
  pool,       \* idle upstream connections the transport may use again
  sent        \* the latest request, or tunnel, that went upstream, until an answer

connVars == <<pc, via, base, host, carry, requests, guestEnd, serverEnd, copiers>>
vars == <<policy, zone, changed, up, connVars, pool, sent>>

Sent == [via : {"http", "mitm", "tunnel"}, host : Hosts, addr : Address,
         carried : SUBSET Secrets, values : SUBSET Secrets]

TypeOK ==
  /\ policy \in Policies
  /\ zone \in [Resolved -> Zones]
  /\ changed \subseteq Resolved
  /\ up \in BOOLEAN
  /\ pc \in [Conns -> {"idle", "enforce", "handshake", "read", "send", "await",
                       "dial", "tunnel", "keep", "closed"}]
  /\ via \in [Conns -> {"http", "connect", "mitm"}]
  /\ base \in [Conns -> Hosts]
  /\ host \in [Conns -> Hosts]
  /\ carry \in [Conns -> SUBSET Secrets]
  /\ requests \in [Conns -> Nat]
  /\ guestEnd \in [Conns -> BOOLEAN]
  /\ serverEnd \in [Conns -> BOOLEAN]
  /\ copiers \in [Conns -> [Directions -> {"off", "read", "write"}]]
  /\ pool \subseteq [tls : BOOLEAN, host : Hosts, addr : Address]
  /\ sent \subseteq Sent

NoHost == [name |-> NoName, spelling |-> "plain"]

Init ==
  /\ policy \in Policies
  /\ zone \in [Resolved -> Zones]
  /\ changed = {}
  /\ up = TRUE
  /\ pc = [c \in Conns |-> "idle"]
  /\ via = [c \in Conns |-> "http"]
  /\ base = [c \in Conns |-> NoHost]
  /\ host = [c \in Conns |-> NoHost]
  /\ carry = [c \in Conns |-> {}]
  /\ requests = [c \in Conns |-> 0]
  /\ guestEnd = [c \in Conns |-> FALSE]
  /\ serverEnd = [c \in Conns |-> FALSE]
  /\ copiers = [c \in Conns |-> [d \in Directions |-> "off"]]
  /\ pool = {}
  /\ sent = {}

-----------------------------------------------------------------------------
(* The policy.                                                             *)

HasSuffix(name, suffix) ==
  /\ Len(name) >= Len(suffix)
  /\ SubSeq(name, Len(name) - Len(suffix) + 1, Len(name)) = suffix

MatchHost(p, name) ==
  IF p.wild THEN HasSuffix(name, p.name) /\ name # p.name ELSE name = p.name

MatchesAny(patterns, name) == \E p \in patterns : MatchHost(p, name)

CheckHost(name) ==
  /\ name # NoName
  /\ ~MatchesAny(policy.deny, name)
  /\ policy.allow # {} => MatchesAny(policy.allow, name)

\* Mutant: the family is not looked at.
AnyFamily(ips) == ips

(* enforceAddressFamily: a strict machine uses IPv4 only. *)
AddressFamily(ips) ==
  IF policy.egress = "strict" THEN {a \in ips : a.family = 4} ELSE ips

Loopback == {[family |-> 4, private |-> TRUE], [family |-> 6, private |-> TRUE]}

(* What the lookup finds before the family is looked at. *)
Resolve(name) ==
  IF name = NoName THEN {}
  ELSE IF name \in DOMAIN Literals THEN {Literals[name]}
  ELSE IF policy.dns # "synthetic" THEN zone[name]
  ELSE IF name = Localhost THEN Loopback ELSE {}

(* lookupIPs; no address is an error. *)
LookupIPs(name) == AddressFamily(Resolve(name))

\* Mutant: one public address is enough.
AllPrivate(name) == \A a \in LookupIPs(name) : a.private

ResolvesToPrivate(name) ==
  LookupIPs(name) = {} \/ \E a \in LookupIPs(name) : a.private

MatchingSecrets(h) == {s \in Secrets : MatchesAny(SecretHosts[s], Normal(h).name)}

ShouldMitmHost(h) == MatchingSecrets(h) # {}

-----------------------------------------------------------------------------
(* Requests.                                                               *)

(* The guest opens a connection with a request for a host or a CONNECT, or *)
(* sends another on a connection that http.Server kept open.               *)
Arrive(c, kind, h, s) ==
  /\ up
  /\ pc[c] = "idle" \/ (pc[c] = "keep" /\ guestEnd[c])
  /\ requests[c] < MaxRequests
  /\ kind = "connect" => s = {}
  /\ pc' = [pc EXCEPT ![c] = "enforce"]
  /\ via' = [via EXCEPT ![c] = kind]
  /\ host' = [host EXCEPT ![c] = h]
  /\ base' = [base EXCEPT ![c] = h]
  /\ carry' = [carry EXCEPT ![c] = s]
  /\ requests' = [requests EXCEPT ![c] = IF kind = "connect" THEN @ ELSE @ + 1]
  /\ guestEnd' = [guestEnd EXCEPT ![c] = TRUE]
  /\ UNCHANGED <<policy, zone, changed, up, serverEnd, copiers, pool, sent>>

(* The handler returns, and with it its variables.                         *)
Forget(c) ==
  /\ via' = [via EXCEPT ![c] = "http"]
  /\ base' = [base EXCEPT ![c] = NoHost]
  /\ host' = [host EXCEPT ![c] = NoHost]
  /\ carry' = [carry EXCEPT ![c] = {}]
  /\ UNCHANGED requests

CloseConn(c) ==
  /\ pc' = [pc EXCEPT ![c] = "closed"]
  /\ guestEnd' = [guestEnd EXCEPT ![c] = FALSE]
  /\ Forget(c)

(* The guest has its answer.  http.Server closes the connection or keeps   *)
(* it for another request; a connection that was taken over is closed.     *)
Answered(c) ==
  \/ CloseConn(c)
  \/ /\ via[c] # "mitm" /\ guestEnd[c]
     /\ pc' = [pc EXCEPT ![c] = "keep"]
     /\ Forget(c)
     /\ UNCHANGED guestEnd

(* The next request never comes: the guest closed the connection. *)
IdleEnds(c) ==
  /\ pc[c] = "keep"
  /\ ~guestEnd[c]
  /\ CloseConn(c)
  /\ UNCHANGED <<policy, zone, changed, up, serverEnd, copiers, pool, sent>>

(* A request that names no host is answered with 400. *)
BadRequest(c) ==
  /\ pc[c] = "enforce"
  /\ via[c] # "mitm"
  /\ host[c].name = NoName
  /\ Answered(c)
  /\ UNCHANGED <<policy, zone, changed, up, serverEnd, copiers, pool, sent>>

Permitted(name) == CheckHost(name) /\ (policy.blockPrivate => ~ResolvesToPrivate(name))

(* enforceHost answers with an error: 403. *)
Refuse(c) ==
  /\ pc[c] = "enforce"
  /\ ~Permitted(Normal(host[c]).name)
  /\ Answered(c)
  /\ UNCHANGED <<policy, zone, changed, up, serverEnd, copiers, pool, sent>>

\* Mutant: the policy is not asked again inside an intercepted connection.
NoPolicyInside(c) ==
  /\ pc[c] = "enforce"
  /\ via[c] # "mitm" => Permitted(Normal(host[c]).name)
  /\ pc' = [pc EXCEPT ![c] =
              IF via[c] # "connect" THEN "send"
              ELSE IF ShouldMitmHost(host[c]) THEN "handshake" ELSE "dial"]
  /\ UNCHANGED <<policy, zone, changed, up, via, base, host, carry, requests,
                 guestEnd, serverEnd, copiers, pool, sent>>

(* enforceHost lets the request pass: to the upstream, into a tunnel, or,  *)
(* when a secret is for the host of a CONNECT, into an interception.       *)
Pass(c) ==
  /\ pc[c] = "enforce"
  /\ Permitted(Normal(host[c]).name)
  /\ pc' = [pc EXCEPT ![c] =
              IF via[c] # "connect" THEN "send"
              ELSE IF ShouldMitmHost(host[c]) THEN "handshake" ELSE "dial"]
  /\ UNCHANGED <<policy, zone, changed, up, via, base, host, carry, requests,
                 guestEnd, serverEnd, copiers, pool, sent>>

\* Mutant: the secrets of the CONNECT host are put in.
InjectForConnect(c) == carry[c] \intersect MatchingSecrets(base[c])

(* What goes upstream with the current request of c. *)
Inject(c) == carry[c] \intersect MatchingSecrets(host[c])

Record(c, how, addr, values) ==
  [via |-> how, host |-> host[c], addr |-> addr, carried |-> carry[c],
   values |-> values]

(* transport.RoundTrip: over an idle connection to the same host, or over  *)
(* a new one, which takes a lookup of its own and any address that answers.*)
(* The connection can be used again after the answer.                      *)
RoundTrip(c) ==
  /\ pc[c] = "send"
  /\ LET tls == via[c] = "mitm"
         idle == {p \in pool : p.tls = tls /\ p.host = host[c]}
     IN \E a \in {p.addr : p \in idle} \union LookupIPs(Normal(host[c]).name) :
          /\ sent' = {Record(c, via[c], a, Inject(c))}
          /\ pool' = pool \union {[tls |-> tls, host |-> host[c], addr |-> a]}
  /\ pc' = [pc EXCEPT ![c] = "await"]
  /\ UNCHANGED <<policy, zone, changed, up, via, base, host, carry, requests,
                 guestEnd, serverEnd, copiers>>

(* The lookup or every dial fails: 502. *)
SendFails(c) ==
  /\ pc[c] \in {"send", "dial"}
  /\ Answered(c)
  /\ UNCHANGED <<policy, zone, changed, up, serverEnd, copiers, pool, sent>>

(* The server answers and the answer is written, or it or the guest is     *)
(* gone.  An intercepted connection then reads its next request unless one *)
(* side asked to close.  The transport has no timeout for any of this.     *)
Respond(c) ==
  /\ pc[c] = "await"
  /\ \/ Answered(c)
     \/ /\ via[c] = "mitm" /\ guestEnd[c]
        /\ pc' = [pc EXCEPT ![c] = "read"]
        /\ UNCHANGED <<guestEnd, via, base, host, carry, requests>>
  /\ sent' = {}
  /\ UNCHANGED <<policy, zone, changed, up, serverEnd, copiers, pool>>

DropIdle(p) ==
  /\ pool' = pool \ {p}
  /\ UNCHANGED <<policy, zone, changed, up, connVars, sent>>

Http(c) ==
  BadRequest(c) \/ Refuse(c) \/ Pass(c) \/ RoundTrip(c) \/ SendFails(c) \/ Respond(c)

-----------------------------------------------------------------------------
(* Intercepted connections.                                                *)

(* The connection is taken over, a certificate for the host of the CONNECT *)
(* made, and the handshake done.                                           *)
Handshake(c) ==
  /\ pc[c] = "handshake"
  /\ \/ /\ pc' = [pc EXCEPT ![c] = "read"]
        /\ UNCHANGED <<guestEnd, via, base, host, carry, requests>>
     \/ CloseConn(c)
  /\ UNCHANGED <<policy, zone, changed, up, serverEnd, copiers, pool, sent>>

(* Each request names its own host; without one it is for the host of the  *)
(* CONNECT.                                                                *)
NextRequest(c, h, s) ==
  /\ pc[c] = "read"
  /\ guestEnd[c]
  /\ requests[c] < MaxRequests
  /\ requests' = [requests EXCEPT ![c] = @ + 1]
  /\ via' = [via EXCEPT ![c] = "mitm"]
  /\ host' = [host EXCEPT ![c] = IF h.name = NoName THEN base[c] ELSE h]
  /\ carry' = [carry EXCEPT ![c] = s]
  /\ pc' = [pc EXCEPT ![c] = "enforce"]
  /\ UNCHANGED <<policy, zone, changed, up, base, guestEnd, serverEnd,
                 copiers, pool, sent>>

ReadEnds(c) ==
  /\ pc[c] = "read"
  /\ ~guestEnd[c]
  /\ CloseConn(c)
  /\ UNCHANGED <<policy, zone, changed, up, serverEnd, copiers, pool, sent>>

-----------------------------------------------------------------------------
(* Tunnels.                                                                *)

(* The connection is taken over, and the handler leaves it to two          *)
(* goroutines.                                                             *)
Dial(c) ==
  /\ pc[c] = "dial"
  /\ \E a \in LookupIPs(Normal(host[c]).name) :
       sent' = {Record(c, "tunnel", a, {})}
  /\ pc' = [pc EXCEPT ![c] = "tunnel"]
  /\ serverEnd' = [serverEnd EXCEPT ![c] = TRUE]
  /\ copiers' = [copiers EXCEPT ![c] = [d \in Directions |-> "read"]]
  /\ Forget(c)
  /\ UNCHANGED <<policy, zone, changed, up, guestEnd, pool>>

SourceEnded(c, d) == IF d = "toServer" THEN ~guestEnd[c] ELSE ~serverEnd[c]
TargetEnded(c, d) == IF d = "toServer" THEN ~serverEnd[c] ELSE ~guestEnd[c]

(* io.Copy reads from one connection and writes to the other; a write      *)
(* waits for as long as the peer does not read.                            *)
CopyReads(c, d) ==
  /\ pc[c] = "tunnel"
  /\ copiers[c][d] = "read"
  /\ ~SourceEnded(c, d)
  /\ copiers' = [copiers EXCEPT ![c][d] = "write"]
  /\ UNCHANGED <<policy, zone, changed, up, pc, via, base, host, carry, requests,
                 guestEnd, serverEnd, pool, sent>>

CopyWrites(c, d) ==
  /\ pc[c] = "tunnel"
  /\ copiers[c][d] = "write"
  /\ ~TargetEnded(c, d)
  /\ copiers' = [copiers EXCEPT ![c][d] = "read"]
  /\ UNCHANGED <<policy, zone, changed, up, pc, via, base, host, carry, requests,
                 guestEnd, serverEnd, pool, sent>>

(* What ends io.Copy: nothing more to read, or nobody to write to. *)
CopyOver(c, d) ==
  \/ copiers[c][d] = "read" /\ SourceEnded(c, d)
  \/ copiers[c][d] = "write" /\ TargetEnded(c, d)

\* Mutant: a copier closes the side it reads from.
ClosesSource(c, d) ==
  /\ pc[c] = "tunnel"
  /\ CopyOver(c, d)
  /\ guestEnd' = [guestEnd EXCEPT ![c] = @ /\ d # "toServer"]
  /\ serverEnd' = [serverEnd EXCEPT ![c] = @ /\ d # "toGuest"]
  /\ copiers' = [copiers EXCEPT ![c][d] = "off"]
  /\ pc' = [pc EXCEPT ![c] =
              IF \E e \in Directions \ {d} : copiers[c][e] # "off"
              THEN "tunnel" ELSE "closed"]
  /\ UNCHANGED <<policy, zone, changed, up, via, base, host, carry, requests,
                 pool, sent>>

(* proxyTunnel: when its io.Copy is over it closes both connections. *)
CopyEnds(c, d) ==
  /\ pc[c] = "tunnel"
  /\ CopyOver(c, d)
  /\ guestEnd' = [guestEnd EXCEPT ![c] = FALSE]
  /\ serverEnd' = [serverEnd EXCEPT ![c] = FALSE]
  /\ copiers' = [copiers EXCEPT ![c][d] = "off"]
  /\ pc' = [pc EXCEPT ![c] =
              IF \E e \in Directions \ {d} : copiers[c][e] # "off"
              THEN "tunnel" ELSE "closed"]
  /\ UNCHANGED <<policy, zone, changed, up, via, base, host, carry, requests,
                 pool, sent>>

Copy(c, d) == CopyReads(c, d) \/ CopyWrites(c, d) \/ CopyEnds(c, d)

ServerCloses(c) ==
  /\ pc[c] = "tunnel"
  /\ serverEnd[c]
  /\ serverEnd' = [serverEnd EXCEPT ![c] = FALSE]
  /\ UNCHANGED <<policy, zone, changed, up, pc, via, base, host, carry,
                 requests, guestEnd, copiers, pool, sent>>

GuestCloses(c) ==
  /\ guestEnd[c]
  /\ guestEnd' = [guestEnd EXCEPT ![c] = FALSE]
  /\ UNCHANGED <<policy, zone, changed, up, pc, via, base, host, carry,
                 requests, serverEnd, copiers, pool, sent>>

-----------------------------------------------------------------------------
(* A name resolves differently, or a lookup fails for a while; in          *)
(* synthetic mode nothing is looked up.                                    *)
ChangeZone(n, ips) ==
  /\ policy.dns # "synthetic"
  /\ Cardinality(changed \union {n}) <= MaxChanging
  /\ zone[n] # ips
  /\ zone' = [zone EXCEPT ![n] = ips]
  /\ changed' = changed \union {n}
  /\ UNCHANGED <<policy, up, connVars, pool, sent>>

(* StopVM ends QEMU, and with it the guest's connections, then closes the  *)
(* proxy: Shutdown ends the listener and waits two seconds at most for     *)
(* plain requests.  It knows nothing of connections that were taken over.  *)
Stop ==
  /\ up
  /\ up' = FALSE
  /\ guestEnd' = [c \in Conns |-> FALSE]
  /\ UNCHANGED <<policy, zone, changed, pc, via, base, host, carry,
                 requests, serverEnd, copiers, pool, sent>>

Connection(c) ==
  \/ \E kind \in {"http", "connect"}, h \in Hosts, s \in SUBSET Secrets :
       Arrive(c, kind, h, s)
  \/ Http(c)
  \/ Handshake(c) \/ ReadEnds(c) \/ IdleEnds(c)
  \/ \E h \in Hosts, s \in SUBSET Secrets : NextRequest(c, h, s)
  \/ Dial(c) \/ (\E d \in Directions : Copy(c, d))
  \/ ServerCloses(c) \/ GuestCloses(c)

Next ==
  \/ \E c \in Conns : Connection(c)
  \/ \E p \in pool : DropIdle(p)
  \/ \E n \in Resolved, ips \in Zones : ChangeZone(n, ips)
  \/ Stop

Spec == Init /\ [][Next]_vars

(* Fairness.  Every goroutine that can run is scheduled, and lookups and   *)
(* dials have timeouts.  Nothing is assumed of guests and servers: neither *)
(* need answer, read what is written to it, or close.                      *)
Fairness ==
  \A c \in Conns :
    /\ WF_vars(BadRequest(c) \/ Refuse(c) \/ Pass(c))
    /\ WF_vars(RoundTrip(c) \/ Dial(c) \/ SendFails(c))
    /\ WF_vars(~guestEnd[c] /\ Handshake(c))
    /\ WF_vars(ReadEnds(c) \/ IdleEnds(c))
    /\ \A d \in Directions : WF_vars(CopyEnds(c, d))

FairSpec == Spec /\ Fairness

-----------------------------------------------------------------------------
(* Every request that goes upstream is for a host the policy lets through: *)
(* the host the request itself names, in whatever case and with blanks or  *)
(* a final dot, also inside an intercepted connection that was opened for  *)
(* another (serveMitm).  A denied host is never allowed, and "*." before a *)
(* name covers the names below it and not the name.                        *)
Covers(p, name) ==
  IF p.wild THEN \E k \in 2 .. Len(name) : SubSeq(name, k, Len(name)) = p.name
            ELSE name = p.name

PolicyHolds ==
  \A r \in sent :
    /\ \A p \in policy.deny : ~Covers(p, r.host.name)
    /\ policy.allow = {} \/ \E p \in policy.allow : Covers(p, r.host.name)

(* With private ranges blocked a request reaches a private address only if *)
(* its name has come to resolve differently: enforceHost judges every      *)
(* address that the lookup of dialContext, or an earlier one whose         *)
(* connection is used again, can have chosen.                              *)
PrivateOnlyByChange ==
  policy.blockPrivate => \A r \in sent : r.addr.private => r.host.name \in changed

(* "Prevents DNS rebinding attacks by resolving and verifying IP addresses *)
(* on the host": with private ranges blocked no request reaches a private  *)
(* address.                                                                *)
PrivateNever == policy.blockPrivate => \A r \in sent : ~r.addr.private

(* "Secrets only injected for allowed hosts", and always for those: a      *)
(* request carries the values of exactly the secrets it has placeholders   *)
(* of and whose patterns its own host matches, the headers meant for the   *)
(* proxy apart, which are not passed on; and no host of a secret is        *)
(* reached through a tunnel, where nothing could be replaced.              *)
SecretsExact ==
  \A r \in sent :
    /\ r.values = r.carried \intersect MatchingSecrets(r.host)
    /\ r.via = "tunnel" => MatchingSecrets(r.host) = {}

(* "if a hostname resolves only to IPv6 addresses, the request is denied;  *)
(* dual-stack results are reduced to IPv4": a strict machine's traffic     *)
(* goes to IPv4 addresses, also over connections kept for reuse.           *)
StrictIPv4 == policy.egress = "strict" => \A r \in sent : r.addr.family = 4

(* "external DNS lookups are blocked": in synthetic mode traffic goes to   *)
(* hosts given by address, and to localhost.                               *)
SyntheticHosts ==
  policy.dns = "synthetic" =>
    \A r \in sent : r.host.name \in DOMAIN Literals \union {Localhost}

(* The two modes keep their promises over every connection.                *)
ModesKept == StrictIPv4 /\ SyntheticHosts

(* A tunnel with one end closed goes away as a whole, unless a goroutine   *)
(* of it is caught in a write that its peer never takes: neither of the    *)
(* two waits for the other.  When the machine is stopped, all that its     *)
(* connections still do comes to an end, although Close waits for none of  *)
(* those taken over, unless a server never answers or never reads.         *)
CaughtWriting(c, d) == copiers[c][d] = "write" /\ ~TargetEnded(c, d)
WaitsForServer(c) == pc[c] = "await" \/ CaughtWriting(c, "toServer")

TrafficEnds ==
  /\ \A c \in Conns :
       (\A d \in Directions : []<>~CaughtWriting(c, d)) =>
         (pc[c] = "tunnel" /\ (~guestEnd[c] \/ ~serverEnd[c]) ~> pc[c] = "closed")
  /\ (\A c \in Conns : []<>~WaitsForServer(c)) =>
       (~up ~> \A c \in Conns : pc[c] \in {"idle", "closed"})
=============================================================================
