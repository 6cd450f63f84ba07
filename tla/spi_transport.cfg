\* Two threads on a link that garbles packets and fails, with a board that may
\* answer late; one register, so a
\* window of two is refused by the board.
CONSTANTS
  Threads = {t1, t2}
  NoThread = none
  NRegs = 1
  MaxRegs = 2
  Vals = {0,1}
  Fill = fill
  Faults <- AnyFault
SPECIFICATION FairSpec
INVARIANT
  TypeOK
PROPERTIES
  FreshRead
  ImplementsFile
  CallReturns
