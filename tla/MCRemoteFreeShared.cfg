CONSTANTS
  Producers = {p1}
  Consumers = {owner, intruder}
  Objects = {o1, o2, o3}
  NULL = NULL
SPECIFICATION Spec
INVARIANT ObjectConservation
