\* Two requests of a proxy and one to a group over it, while uploads, deletions,
\* fetches and failures overlap.
SPECIFICATION PullSpec
CONSTANTS
  g = g
  hosted = hosted
  proxy = proxy
  metadata = metadata
  tag = tag
  Group = g
  Members <- TwoMembers
  Proxy = proxy
  Paths = {metadata, w1, w2, tag}
  Metadata = {metadata}
  Wheels = {w1, w2}
  Deletable = {tag}
  Uploaded = {tag}
  Digests = {d1, Empty, Unstated}
  Unstated = Unstated
  Empty = Empty
  Callers = {c1}
  Fetchers = {f1, f2}
  None = None
  MaxWrites = 2
SYMMETRY Symmetric
INVARIANTS
  AnswerWasThere
  FirstMemberWins
  FoundIfThere
  PagesAreWhole
  OnceFetchedServed
