CONSTANTS
  r1 = r1
  r2 = r2
  r3 = r3
  dev = dev
  prod = prod
  k1 = k1
  a1 = a1
  a2 = a2
  c1 = c1
  c2 = c2
  NoKey = NoKey
  NoAlias = NoAlias
  Invalid = Invalid
  Scopes <- MCScopes
  Keys = {k1}
  Aliases <- MCAliases
  Contents <- MCContents
  Requests <- TwoRequests
  Jobs <- AllJobs
  LockEnabled = FALSE
SPECIFICATION Spec
CHECK_DEADLOCK FALSE
PROPERTIES AliasForLife LostOnlyOnRequest
