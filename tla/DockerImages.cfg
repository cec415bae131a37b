\* Two clients that push two images with a shared layer.
SPECIFICATION Spec
CONSTANTS
  Images <- TwoImages
  Tags = {"latest"}
  Digests = {"l1", "l2", "m1", "m2"}
  Layers = {"l1", "l2"}
  Manifests = {"m1", "m2"}
  Needs <- SharedLayer
  Pushers = {c1, c2}
  Pullers = {r1}
  None = None
  MaxPushes = 2
  MaxPulls = 1
  MaxDeletions = 1
  MaxCollections = 1
SYMMETRY Symmetric
CHECK_DEADLOCK FALSE
INVARIANTS
  NamedIsWhole
  ListingsAreExact
PROPERTY DigestPullWorks
