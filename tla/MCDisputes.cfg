SPECIFICATION TypedSpec
CONSTANTS
  o1 = o1
  f1 = f1
  f2 = f2
  g = g
  s1 = s1
  clean = clean
  None = None
  h1 = h1
  h2 = h2
  Observation <- RowIds
  Artifact <- Papers
  EventOf <- MCEventOf
  SessionOf <- MCSessionOf
  TextOf <- MCTextOf
  KindOf <- MCKindOf
  SourcesOf <- MCSourcesOf
  FromOf <- MCFromOf
  ClaimOf <- MCClaimOf
  MaxObservations = 1
  MaxMarkers = 2
  MaxArtifacts = 3
  MaxNow = 1
  Caller = {h1, h2}
  Makes <- Roles
  Session = {s1}
  Tree = {clean}
  CleanTree = clean
  CapsuleRows = 2
  KeepRecent = 1
INVARIANT OneVersionAtATime
PROPERTIES DisputeNeedsReview ResolvedAsShown HistoryKept
CHECK_DEADLOCK FALSE
