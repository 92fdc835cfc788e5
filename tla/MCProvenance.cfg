SPECIFICATION TypedSpec
CONSTANTS
  r2 = r2
  r1 = r1
  k1 = k1
  d = d
  e = e
  x = x
  f = f
  s1 = s1
  clean = clean
  None = None
  h1 = h1
  h2 = h2
  Observation <- RowIds
  Artifact <- Papers
  EventOf <- MCEventOf
  SessionOf <- MCSessionOf
  TextOf <- MCTextOf
  KindOf <- MCKindOf
  SourcesOf <- MCSourcesOf
  FromOf <- MCFromOf
  ClaimOf <- MCClaimOf
  MaxObservations = 2
  MaxMarkers = 1
  MaxArtifacts = 3
  MaxNow = 0
  Caller = {h1, h2}
  Makes <- Roles
  Session = {s1}
  Tree = {clean}
  CleanTree = clean
  CapsuleRows = 2
  KeepRecent = 1
INVARIANTS ActiveProvenanceKept ForgottenErased
PROPERTIES CapsuleCopiesCurrent
CHECK_DEADLOCK FALSE
