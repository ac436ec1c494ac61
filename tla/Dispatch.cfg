SPECIFICATION Spec
CONSTANTS
  p1 = p1
  p2 = p2
  i1 = i1
  i2 = i2
  i3 = i3
  d1 = d1
  d2 = d2
  d3 = d3
  f1 = f1
  f2 = f2
  NoProfile = NoProfile
  NoDigest = NoDigest
  Profiles = {p1}
  Items = {i1, i2}
  Digests = {d1, d2, d3}
  Flows = {f1, f2}
  MaxItems = 2
  Plans = {1, 2}
  Wishes = {0, 1, 2}
  GraceMinutes = 90
  Faults = {"flow_dies"}
SYMMETRY Alike
INVARIANTS
  RepeatsHaveCause
  StatusTellsJob
PROPERTIES
  OneDigestPerInterval
