---------------------------- MODULE MCEgressProxy ----------------------------
(* An instance of EgressProxy: a domain and a name in it, an address       *)
(* written out, and a secret for the names in the domain.  The domain is   *)
(* localhost, the one name the synthetic mode knows.                       *)
EXTENDS EgressProxy

Domain == Localhost
Inside == <<"api", "localhost">>
Numeric == <<"10.0.0.1">>

MCNames == {Domain, Inside, Numeric}
MCLiterals == [n \in {Numeric} |-> [family |-> 4, private |-> TRUE]]

Pub4 == [family |-> 4, private |-> FALSE]
Pub6 == [family |-> 6, private |-> FALSE]
Priv4 == [family |-> 4, private |-> TRUE]
MCZones == {{Pub6}, {Pub4, Pub6}, {Pub4, Priv4}}

Wild(n) == [wild |-> TRUE, name |-> n]
Exact(n) == [wild |-> FALSE, name |-> n]
MCSecretHosts == [s \in {"key"} |-> {Wild(Domain)}]

Open == [allow |-> {}, deny |-> {}, blockPrivate |-> FALSE, egress |-> "compat",
         dns |-> "open"]
MCPolicies == {
  [Open EXCEPT !.allow = {Wild(Domain), Exact(Numeric)}, !.deny = {Exact(Numeric)}],
  [Open EXCEPT !.deny = {Exact(Domain)}, !.blockPrivate = TRUE, !.egress = "strict",
               !.dns = "trusted"],
  [Open EXCEPT !.egress = "strict", !.dns = "synthetic"]}
=============================================================================
