\* One connection of the guest, with two requests, plain or intercepted.
CONSTANTS
  Conns = {c1}
  Policies <- MCPolicies
  Secrets = {"key"}
  SecretHosts <- MCSecretHosts
  Names <- MCNames
  Literals <- MCLiterals
  Zones <- MCZones
  MaxRequests = 2
  MaxChanging = 1
SPECIFICATION FairSpec
INVARIANTS PolicyHolds PrivateOnlyByChange SecretsExact ModesKept
PROPERTY TrafficEnds
CHECK_DEADLOCK FALSE
