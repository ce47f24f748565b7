SPECIFICATION MCSpec
CONSTANTS
  p1 = p1
  m1 = m1
  m2 = m2
  a1 = a1
  a2 = a2
  k1 = k1
  k2 = k2
  Instances = {p1}
  Migrators = {m1, m2}
  Pairs = {k1, k2, k3, k4}
  Algorithms = {a1, a2}
  Algo <- MCAlgo
  MAlgo <- MCMAlgo
  NoBundle = NoBundle
  NoPair = NoPair
  Imported = {k1}
  MaxFaults = 1
INVARIANTS
  MigrationKeepsData
  ConflictIsReal
PROPERTIES
  MigrationOverwritesNothing
  ImplementsWriteOnceKey
  ReplaySucceeds
\* A blocked instance and a blocked migration restart for ever; nothing deadlocks.
