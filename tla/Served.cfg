SPECIFICATION FairSpec
CONSTANTS
  Tasks <- PairTasks
  Runs <- PairRuns
  TaskOf <- PairTaskOf
  Events = {"saved"}
  KindOf <- PairKind
  Listens <- PairListens
  Threshold <- PairThreshold
  Then <- PairThen
  Actions = {"onEvent"}
  ModelBacked = {"onEvent"}
  Unprivileged = {}
  EditKinds = {"recurring"}
  Ops = {"run", "event", "foreground"}
  Faults = {}
  NoRun = NoRun
  NoTask = NoTask
PROPERTIES
  TriggersServed
  QueueDrains
