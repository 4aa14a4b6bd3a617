CONSTANTS
  DATA_WIDTH = 2
  TX_PERIOD = 31
  RX_PERIOD = 1
  Undriven = Undriven
  Payloads <- MCPayloads
SPECIFICATION LinkSpec
INVARIANT CleanLine
PROPERTY DeliversInOrder EveryByteArrives
