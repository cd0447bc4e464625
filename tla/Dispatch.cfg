SPECIFICATION Spec
CONSTANTS
  Tasks <- PairTasks
  Runs <- PairRuns
  TaskOf <- PairTaskOf
  Events = {"saved"}
  KindOf <- PairKind
  Listens <- PairListens
  Threshold <- PairThreshold
  Then <- PairThen
  Actions = {"onEvent"}
  ModelBacked = {"onEvent"}
  Unprivileged = {}
  EditKinds = {"recurring"}
  Ops = {"run", "event", "stop", "foreground"}
  Faults = {"crash"}
  NoRun = NoRun
  NoTask = NoTask
INVARIANTS
  TypeOK
  SlotDiscipline
  OneModelRun
  NoPhantomRow
  TriggerDurable
