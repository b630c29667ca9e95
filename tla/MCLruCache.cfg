SPECIFICATION Spec
CONSTANTS
  Key = {k1, k2, k3}
  Value = {v1, v2}
  NoValue = NoValue
  MaxCapacity = 2
  Addr = {a1, a2, a3}
  NullPtr = NullPtr
INVARIANTS WellLinked ToldOnce
PROPERTY KeepsPromise
