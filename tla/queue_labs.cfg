CONSTANTS
  MESS_QUEUE_MAX_LENGTH = 5
  PERIOD = 50
  PREPARE = 4
  TIMEOUT = 30
  CONSUME = 3
  SCOLD = 1
  PAUSE = 10
  FUNCTION = 2
  MAX_EDGES = 8
SPECIFICATION Spec
INVARIANT CountsInOrder
PROPERTY EveryMessageIsAwaited TimeoutsAlternate QueueDrains
