-------------------------- MODULE MCTaskScheduler --------------------------
(* Instances of TaskScheduler for TLC. *)
EXTENDS TaskScheduler

\* Two tasks, a scheduled LLM task and an event-triggered one, one run each.
PairTasks == {"daily", "onEvent"}
PairRuns  == {"d1", "e1"}
PairTaskOf == [d1 |-> "daily", e1 |-> "onEvent"]
PairKind   == [daily |-> "recurring", onEvent |-> "event"]
PairListens == [daily |-> "saved", onEvent |-> "saved"]
PairThreshold == [daily |-> 1, onEvent |-> 1]
PairThen == [daily |-> "onEvent", onEvent |-> NoTask]

\* One task that may have two runs at once.
SoloTasks == {"a"}
SoloRuns  == {"a1", "a2"}
SoloTaskOf == [a1 |-> "a", a2 |-> "a"]
SoloListens == [a |-> "saved"]
SoloThreshold == [a |-> 1]
SoloThen == [a |-> NoTask]
SoloEvent == [a |-> "event"]
SoloRecurring == [a |-> "recurring"]
SoloOnce == [a |-> "once"]

\* A webhook action that chains to a scheduled LLM task, which has room for two
\* runs, and a webhook action its owner may not run.
TrioTasks == {"daily", "hook", "admin"}
TrioRuns  == {"d1", "d2", "h1", "a1"}
TrioTaskOf == [d1 |-> "daily", d2 |-> "daily", h1 |-> "hook", a1 |-> "admin"]
TrioKind   == [daily |-> "recurring", hook |-> "webhook", admin |-> "webhook"]
TrioListens == [t \in TrioTasks |-> "saved"]
TrioThreshold == [t \in TrioTasks |-> 2]
TrioThen == [daily |-> NoTask, hook |-> "daily", admin |-> NoTask]

=============================================================================
