SPECIFICATION Spec
CONSTANTS
  Procs = {p1, p2}
  Digests = {d1}
  Files = {manifest, main}
  Manifest = manifest
  Nothing = Nothing
  Torn = Torn
  MaxAttempts = 3
  MaxSequence = 3
  MaxCommands = 3
  MaxCrashes = 2
SYMMETRY Identifiers
INVARIANT EntriesAreWhole
PROPERTY FetchFailsForACause
CHECK_DEADLOCK FALSE
