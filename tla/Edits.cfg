SPECIFICATION Spec
CONSTANTS
  Tasks <- SoloTasks
  Runs <- SoloRuns
  TaskOf <- SoloTaskOf
  Events = {"saved"}
  KindOf <- SoloRecurring
  Listens <- SoloListens
  Threshold <- SoloThreshold
  Then <- SoloThen
  Actions = {"a"}
  ModelBacked = {"a"}
  Unprivileged = {}
  EditKinds = {"recurring"}
  Ops = {"run", "force", "stop", "foreground", "pause", "edit", "delete"}
  Faults = {"crash"}
  NoRun = NoRun
  NoTask = NoTask
INVARIANTS
  HandlesAreLive
  NoStaleMembership
  RecurringArmed
PROPERTIES
  NoHotLoop
