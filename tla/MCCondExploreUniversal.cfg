SPECIFICATION Spec
CONSTANTS
  a = a
  b = b
  Atoms = {a, b}
  Items <- MCItems
  Level <- MCLevel
  Programs <- MCPrograms
  Caps = {2}
INVARIANTS
  UniversalHoldsEverywhere
