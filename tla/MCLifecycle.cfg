SPECIFICATION HookSpec
CONSTANTS
  i1 = i1
  t1 = t1
  m1 = m1
  m2 = m2
  g1 = g1
  g2 = g2
  k1 = k1
  z1 = z1
  s = s
  p = p
  clean = clean
  dirty = dirty
  h1 = h1
  h2 = h2
  None = None
  Observation <- RowIds
  Artifact = {}
  EventOf <- MCEventOf
  SessionOf <- MCSessionOf
  TextOf <- MCTextOf
  KindOf <- NoArtifact
  SourcesOf <- NoSources
  FromOf <- NoFrom
  MaxObservations = 9
  MaxMarkers = 2
  MaxArtifacts = 1
  Caller = {h1, h2}
  Makes <- Hooks
  Serves <- OneSession
  Session = {s}
  Tree = {clean, dirty}
  CleanTree = clean
  CapsuleRows = 2
  KeepRecent = 1
  Text = {p}
  MaxItems = 1
  MaxBegun = 3
SYMMETRY Alike
INVARIANT OwnPromptNotHistory
PROPERTIES ContextGivenOnce  PausedIsQuiet
CHECK_DEADLOCK FALSE
