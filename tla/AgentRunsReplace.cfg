SPECIFICATION Spec
CONSTANTS
  Runs = {r1, r2}
  Clients = {c1, c2}
  MaxEvents = 2
  NoRun = NoRun
INVARIANTS
  TypeOK
  InOrder
  OnlyCurrentStreams
  EvictionArmed
  WritesSequential
PROPERTIES
  CompleteAtClose
  NotEvictedWhileRead
