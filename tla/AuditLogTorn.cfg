SPECIFICATION Spec
CONSTANTS
  Writers = {w1, w2}
  Uses <- AnyTear
  MaxRecords = 3
INVARIANT TornTailRefused
