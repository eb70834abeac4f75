CONSTANTS
  Producers = {p1, p2}
  Consumers = {owner}
  Objects = {o1, o2, o3}
  NULL = NULL
SPECIFICATION Spec
INVARIANT TypeOK
INVARIANT ObjectConservation
PROPERTY RemoteStackRefined
PROPERTY DrainReturns
