\* The link garbles a write.
CONSTANTS
  Threads = {t1, t2}
  NoThread = none
  NRegs = 2
  MaxRegs = 1
  Vals = {0, 1}
  Fill = fill
  Faults <- LinkFault
SPECIFICATION Spec
PROPERTY
  AckMeansTaken
