SPECIFICATION Spec
CONSTANTS
  Versions = {1, 2}
  Resources = 2
  Owner <- OwnerTwo
  Copies = 1
  MaxReqs = 3
INVARIANTS
  TypeOK
PROPERTIES
  ScopeShown
  GraphRestored
