SPECIFICATION FairSpec
CONSTANTS
  Thread = {t1, t2}
  NoThread = NoThread
  Key = {k1, k2, k3, long}
  NoKey = NoKey
  Cacheable = {k1, k2, k3}
  Piece = {p1, p2, p3, p4, p5}
  NoPiece = NoPiece
  kMaxEntries = 2
  MaxLost = 1
INVARIANTS LayoutsAreAlive OneOwner LostOnlyByRace LayoutsAreBounded
PROPERTIES KeepsService CallsReturn
