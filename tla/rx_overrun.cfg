CONSTANTS
  DATA_WIDTH = 2
SPECIFICATION Spec
PROPERTY LossReported
