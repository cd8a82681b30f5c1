\* One connection of the guest, and a name that comes to resolve differently.
CONSTANTS
  Conns = {c1}
  Policies <- MCPolicies
  Secrets = {"key"}
  SecretHosts <- MCSecretHosts
  Names <- MCNames
  Literals <- MCLiterals
  Zones <- MCZones
  MaxRequests = 2
  MaxChanging = 1
SPECIFICATION Spec
INVARIANT PrivateNever
CHECK_DEADLOCK FALSE
