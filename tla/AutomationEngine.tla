-------------------------- MODULE AutomationEngine --------------------------
(***************************************************************************)
(* The scheduled tasks of the backend (AutomationEngine.ts).  The class is *)
(* instantiated twice: index.ts makes the engine the cron job runs, and    *)
(* routes/automation.ts makes the one the HTTP API reads and changes.      *)
(* A pass is an asynchronous walk over the tasks: it runs without a break  *)
(* until it awaits a task, so passes interleave exactly at the tasks.      *)
(***************************************************************************)
EXTENDS Naturals, Sequences

CONSTANTS TaskList,    \* ids of the tasks in the order of the array
          Kind,        \* Kind[t]: rebalancing, liquidity, fees or risk
          Interval,    \* Interval[t]: getTaskInterval, in ticks
          OffAtStart,  \* tasks created with enabled: false
          CronSlots,   \* bound: passes of the cron engine in flight at once
          ApiSlots,    \* bound: passes the API started, in flight at once
          MaxClock     \* bound: last tick

VARIABLES clock,       \* Date.now()
          task,        \* task[e][t]: enabled, lastRun, nextRun
          acting,      \* acting[e]: tasks whose parameters let them act
          pass         \* pass[p]: the task awaited (0: none) and its `now'

engineVars == <<clock, task, acting, pass>>

Engines == {"cron", "api"}
Slots == CronSlots \cup ApiSlots
EngineOf(p) == IF p \in CronSlots THEN "cron" ELSE "api"
Tasks == {TaskList[i] : i \in 1 .. Len(TaskList)}
IdlePass == [at |-> 0, began |-> 0]

initializeAutomationTasks ==
  [t \in Tasks |-> [enabled |-> t \notin OffAtStart,
                    lastRun |-> 0, nextRun |-> Interval[t]]]

\* initializeStrategies: target and threshold, in percent.
rebalancingStrategy == [CORE |-> 60, lstBTC |-> 40, rebalanceThreshold |-> 10]

EngineInit ==
  /\ clock = 0
  /\ task = [e \in Engines |-> initializeAutomationTasks]
  /\ acting = [e \in Engines |-> {t \in Tasks : Kind[t] # "rebalancing"}]
  /\ pass = [p \in Slots |-> IdlePass]

-----------------------------------------------------------------------------
(* What the handlers may do: read and leave it, act, or throw when one of   *)
(* their calls does.                                                        *)

getCurrentAllocation == [CORE |-> 65, lstBTC |-> 35]
Deviation(asset) ==
  LET now == getCurrentAllocation[asset] target == rebalancingStrategy[asset]
  IN IF now > target THEN now - target ELSE target - now

\* The allocation it reads never strays from the target by the threshold.
executeRebalancing ==
  {"fails", IF \E asset \in {"CORE", "lstBTC"} :
                 Deviation(asset) > rebalancingStrategy.rebalanceThreshold
            THEN "acts" ELSE "idle"}

\* The ratio it reads, 3%, is below the floor unless the floor was lowered.
executeLiquidityManagement(acts) == {"fails", IF acts THEN "acts" ELSE "idle"}

\* The volatility is random; the only handler without a call that can fail.
executeFeeAdjustment(acts) == IF acts THEN {"idle", "acts"} ELSE {"idle"}

\* So is a tenth of the risk level, the rest of which comes from the metrics;
\* what is done about it is only logged.
executeRiskManagement(acts) == IF acts THEN {"fails", "idle", "acts"} ELSE {"fails", "idle"}

\* executeTask.
Outcomes(e, t) ==
  LET acts == t \in acting[e]
  IN CASE Kind[t] = "rebalancing" -> executeRebalancing
       [] Kind[t] = "liquidity"   -> executeLiquidityManagement(acts)
       [] Kind[t] = "fees"        -> executeFeeAdjustment(acts)
       [] Kind[t] = "risk"        -> executeRiskManagement(acts)

Due(table, t) == table[t].enabled /\ table[t].nextRun <= clock

\* A walk that a task which is not due ends.
WalkBreaks(table, i) ==
  IF i > Len(TaskList) \/ ~Due(table, TaskList[i]) THEN IdlePass ELSE [at |-> i, began |-> clock]

\* The loop of runAutomatedTasks from entry i on: the first task that is
\* enabled and due is awaited, the ones before it are skipped, and the pass
\* ends when there is none.
Walk(table, i) ==
  LET due == {j \in i .. Len(TaskList) : Due(table, TaskList[j])}
  IN IF due = {} THEN IdlePass
     ELSE [at |-> CHOOSE j \in due : \A k \in due : j <= k, began |-> clock]

\* index.ts starts a pass every five minutes, the trigger route whenever it
\* is asked; neither looks whether a pass is under way.
runAutomatedTasks(p) ==
  /\ pass[p] = IdlePass
  /\ pass' = [pass EXCEPT ![p] = Walk(task[EngineOf(p)], 1)]
  /\ UNCHANGED <<clock, task, acting>>

\* The awaited task answers: the schedule moves on from the time the pass
\* read before it, or stays when the task threw; the catch is inside the
\* loop, so the walk continues either way.
\* (TaskEndsPass: a catch around the loop, a task that throws ends the pass.)
Rescheduled(p, outcome) ==
  LET e == EngineOf(p)
      t == TaskList[pass[p].at]
  IN IF outcome = "fails" THEN task[e]
     ELSE [task[e] EXCEPT ![t].lastRun = pass[p].began,
                          ![t].nextRun = pass[p].began + Interval[t]]
Awaited(p, outcome) ==
  pass[p] # IdlePass /\ outcome \in Outcomes(EngineOf(p), TaskList[pass[p].at])

TaskEndsPass(p, outcome) ==
  /\ Awaited(p, outcome)
  /\ task' = [task EXCEPT ![EngineOf(p)] = Rescheduled(p, outcome)]
  /\ pass' = [pass EXCEPT ![p] = IF outcome = "fails" THEN IdlePass
                                ELSE Walk(Rescheduled(p, outcome), pass[p].at + 1)]
  /\ UNCHANGED <<clock, acting>>
TaskEnds(p, outcome) ==
  /\ Awaited(p, outcome)
  /\ task' = [task EXCEPT ![EngineOf(p)] = Rescheduled(p, outcome)]
  /\ pass' = [pass EXCEPT ![p] = Walk(Rescheduled(p, outcome), pass[p].at + 1)]
  /\ UNCHANGED <<clock, acting>>

\* The API changes its own engine: a task on or off, ...
toggleTask(t, enabled) ==
  /\ task' = [task EXCEPT !["api"][t].enabled = enabled]
  /\ UNCHANGED <<clock, acting, pass>>

\* ... and the parameters, or the risk threshold, that let a task act.
updateParameters(t, acts) ==
  /\ Kind[t] # "rebalancing"
  /\ acting' = [acting EXCEPT !["api"] = IF acts THEN @ \cup {t} ELSE @ \ {t}]
  /\ UNCHANGED <<clock, task, pass>>

EngineTick ==
  /\ clock < MaxClock
  /\ clock' = clock + 1
  /\ UNCHANGED <<task, acting, pass>>

Answers(p) == \E o \in {"idle", "acts", "fails"} : TaskEnds(p, o)

EngineNext ==
  \/ EngineTick
  \/ \E p \in Slots : runAutomatedTasks(p) \/ Answers(p)
  \/ \E t \in Tasks, b \in BOOLEAN : toggleTask(t, b) \/ updateParameters(t, b)

-----------------------------------------------------------------------------
\* A task of the cron engine that is due is eventually started, though others
\* of the pass come before it, are off, or throw every time (the loop and the
\* catch inside it in runAutomatedTasks).
DueTaskRuns ==
  \A t \in Tasks :
    Due(task["cron"], t) ~>
      \E p \in CronSlots : pass[p].at # 0 /\ TaskList[pass[p].at] = t
=============================================================================
