SPECIFICATION ChatFairSpec
CONSTANTS
  Sessions = {A}
  Sends = {x, y}
  NoSend = NoSend
  NudgeCap = 1
  ChatOps = {"queue", "stop", "drop", "stall", "timeout", "refuse", "reload", "switchModel", "promote"}
PROPERTIES
  ComposerUnlocks
  QueueServed
