SPECIFICATION Spec
CONSTANTS
  Tasks <- TrioTasks
  Runs <- TrioRuns
  TaskOf <- TrioTaskOf
  Events = {"saved"}
  KindOf <- TrioKind
  Listens <- TrioListens
  Threshold <- TrioThreshold
  Then <- TrioThen
  Actions = {"hook", "admin"}
  ModelBacked = {}
  Unprivileged = {"admin"}
  EditKinds = {"recurring"}
  Ops = {"run", "webhook"}
  Faults = {"crash", "commit"}
  NoRun = NoRun
  NoTask = NoTask
INVARIANTS
  NoDoubleDispatch
