SPECIFICATION ChatSpec
CONSTANTS
  Sessions = {A, B}
  Sends = {x, y}
  NoSend = NoSend
  NudgeCap = 1
  ChatOps = {"stop", "drop", "refuse"}
INVARIANTS
  ChatTypeOK
  
  ReaderKnown
