SPECIFICATION Spec
CONSTANTS
  Tasks <- PairTasks
  Runs <- PairRuns
  TaskOf <- PairTaskOf
  Events = {"saved"}
  KindOf <- PairKind
  Listens <- PairListens
  Threshold <- PairThreshold
  Then <- PairThen
  Actions = {}
  ModelBacked = {}
  Unprivileged = {}
  EditKinds = {"recurring"}
  Ops = {"event"}
  Faults = {}
  NoRun = NoRun
  NoTask = NoTask
INVARIANTS
  NoTriggerLost
