SPECIFICATION Spec
CONSTANTS
  Addresses = {1, 2, 3, 4}
INVARIANTS
  AppliedBecomesActive
