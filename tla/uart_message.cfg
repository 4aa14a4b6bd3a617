CONSTANTS
  DATA_WIDTH = 2
  TX_PERIOD = 31
  RX_PERIOD = 1
  Undriven = Undriven
  Payloads <- MCPayloads
  MESS <- MCMess
  SIZEOF_MESS = 3
  RELEASE_LEVELS = {TRUE, FALSE}
  SETTLE <- MCSettle
SPECIFICATION Spec
INVARIANT SendsMessage
INVARIANT ReceivesMessage
INVARIANT AccessesGoThrough
INVARIANT PrintsOneReadLate
PROPERTY MessageGetsThrough
PROPERTY PulsesOnTime
