CONSTANTS
  TABLE_SIZE = 5
  CONST_NUMBER = 5
  GARBAGE <- MCGarbage
  ACTIVATIONS = 4
  PERIOD = 25
  TIMER_WORK = 2
  TABLE_WORK = 5
  PAUSE = 2
SPECIFICATION Spec
INVARIANT TypeOK
INVARIANT NeverInconsistent
INVARIANT Balanced
PROPERTY NoLostActivation
PROPERTY EveryoneGetsTheMutex
