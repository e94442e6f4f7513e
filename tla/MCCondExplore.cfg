SPECIFICATION Spec
CONSTANTS
  a = a
  b = b
  Atoms = {a, b}
  Items <- MCItems
  Level <- MCLevel
  Programs <- MCPrograms
  Caps = {2, 16}
INVARIANTS
  ReachIsSound
  CoverageIsComplete
PROPERTIES
  EnqueuedIsStronger
