CONSTANTS
  DATA_WIDTH = 2
SPECIFICATION Spec
INVARIANT RxTypeOK
PROPERTY ReceivesFrames NewByteSurvivesRead FramesClose
