SPECIFICATION Spec
CONSTANTS
  Head_ = {q1, q2, q3}
  Entry = {a, b, c}
  NULL = null
INVARIANTS
  LinksAgree
  CursorsLive
PROPERTIES
  ImplementsQueues
  LoopEmptiesList
