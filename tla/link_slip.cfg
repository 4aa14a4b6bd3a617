CONSTANTS
  DATA_WIDTH = 2
  TX_PERIOD = 30
  RX_PERIOD = 1
  MAX_BITS = 24
  Undriven = Undriven
  Payloads <- MCPayloads
SPECIFICATION DriftSpec
PROPERTY StopMeansFinished
