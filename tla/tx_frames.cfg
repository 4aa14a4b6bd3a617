CONSTANTS
  DATA_WIDTH = 2
  Undriven = Undriven
  Payloads <- MCPayloads
SPECIFICATION Spec
INVARIANT TxTypeOK
INVARIANT IdleIsHigh
PROPERTY SendsFrames AlwaysDrains Realigns
