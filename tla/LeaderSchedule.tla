---------------------------- MODULE LeaderSchedule ----------------------------
(***************************************************************************)
(* The leader of RainStorm (src/Stream/leader.go, utils-leader.go): it     *)
(* creates jobs, assigns their tasks, is notified when a stage-1 task      *)
(* ends, tells the stage-2 tasks when all have, monitors the job every     *)
(* 20 s, and reschedules a task of a worker that failed.  Handlers of      *)
(* notifications, creations of jobs, the monitors and the failure handler  *)
(* run side by side and share its maps, mostly without the mutex.          *)
(*                                                                         *)
(* A worker is what the leader sees of it: its task queue, its partition   *)
(* map, and goroutines that run a stage-1 task and then report.  Tuples    *)
(* are the matter of TupleExchange.                                        *)
(*                                                                         *)
(* From the constants of the code: the failure handler waits 15 s, so that *)
(* sends and notifications begun before (10 s at most) and assignments are *)
(* over.  A task is assigned in one step, a notification handled in one    *)
(* step for each place it may be overtaken at.                             *)
(***************************************************************************)
EXTENDS Integers, Sequences, FiniteSets, SequencesExt

CONSTANTS
  Nodes,                 \* the workers, one for each address of the configuration
  Leader,                \* the introducer: the leader runs beside its worker
  Worker0,               \* the worker with index 0, the zero value of Task.WorkerId
  Joined,                \* the nodes that have joined when the model begins
  Holders,               \* the nodes the source file of the jobs is routed to
  NumJobs,               \* jobs submitted
  NUM_OF_TASKS_PER_JOB,  \* tasks of each stage, also what the CLI asks for
  MAX_TASK_PER_NODE,     \* constants.go:5
  Patient,               \* the operator awaits the end of a job before the next
  MaxCrashes, MaxFaults, MaxJoins,  \* bounds on what the environment does,
  MaxMishaps,            \* on the crashes, faults and restarts together
  HurriedJoins,          \* a node may join again before its failure has been handled
  MaxLines               \* bound on the line counts of PartitionsCover

K == NUM_OF_TASKS_PER_JOB
Jobs == 1 .. NumJobs
Stage1 == 1 .. K
Stage2 == K + 1 .. 2 * K
Tasks == Jobs \X (Stage1 \cup Stage2)
NoTask == <<0, 0>>
NoNode == "none"

ASSUME ScheduleAssumption ==
  /\ {Leader, Worker0} \subseteq Nodes /\ NoNode \notin Nodes
  /\ Leader \in Joined /\ Joined \subseteq Nodes /\ Holders \subseteq Nodes
  /\ {NumJobs, K, MAX_TASK_PER_NODE} \subseteq Nat \ {0}
  /\ {MaxCrashes, MaxFaults, MaxJoins, MaxMishaps, MaxLines} \subseteq Nat
  /\ Patient \in BOOLEAN /\ HurriedJoins \in BOOLEAN

VARIABLES
  \* the leader
  isAlive,    \* Workers[n].IsAlive
  queue,      \* Workers[n].TaskQueue
  waiting,    \* the leader's own TaskQueue: tasks that found no worker
  task,       \* the tasks: TaskId and WorkerId
  taskMap,    \* TaskMap, NoTask for nil
  assigned,   \* assignedTasks
  completed,  \* CompletedTask
  jobTasks,   \* JobTaskMap
  job,        \* CreateJob and MonitorJobCompletion of each job
  fail,       \* getFailedNodeSignal
  conns,      \* WorkerConns of the leader
  updates,    \* UpdateTask calls under way
  \* the workers
  up,         \* the process of a node runs
  wq,         \* Ws.Worker.TaskQueue: TaskIds
  wparts,     \* Ws.OutputPartitionMap
  toLeader,   \* the nodes whose WorkerConns hold the leader
  run,        \* run[t, n]: task t is sent to, run at or reported by node n
  \* bounds and history
  crashes, faults, joins, mishaps,
  trouble     \* history: what went wrong that a job may not survive

lists == <<queue, waiting, task, taskMap, assigned, completed, jobTasks>>
leaderVars == <<isAlive, lists, job, fail, conns, updates>>
workerVars == <<up, wq, wparts, toLeader, run>>
budget == <<crashes, faults, joins, mishaps>>
vars == <<leaderVars, workerVars, budget, trouble>>

NewTask == [id |-> 0, at |-> Worker0]
NoParts == [p \in Stage1 |-> NoNode]
NewJob == [pc |-> "new", i |-> 1, ok |-> TRUE, senders |-> {},
           receivers |-> {}, out |-> NoParts]
EmptyMap == [x \in {} |-> NoTask]

Init ==
  /\ isAlive = [n \in Nodes |-> n \in Joined]
  /\ queue = [n \in Nodes |-> <<>>] /\ waiting = <<>>
  /\ task = [t \in Tasks |-> NewTask]
  /\ taskMap = EmptyMap /\ assigned = <<>> /\ completed = <<>>
  /\ jobTasks = [j \in Jobs |-> <<>>]
  /\ job = [j \in Jobs |-> NewJob]
  /\ fail = [pc |-> "wait", n |-> Leader]
  /\ conns = {} /\ updates = {}
  /\ up = [n \in Nodes |-> TRUE]
  /\ wq = [n \in Nodes |-> <<>>] /\ wparts = [n \in Nodes |-> NoParts] /\ toLeader = {}
  /\ run = EmptyMap
  /\ crashes = 0 /\ faults = 0 /\ joins = 0 /\ mishaps = 0
  /\ trouble = {}

\* Mishaps and joins are of interest while a job is under way.
Underway == \E j \in Jobs : job[j].pc \in {"create", "assign", "monitor"}
Mishap == Underway /\ mishaps < MaxMishaps /\ mishaps' = mishaps + 1
Wrong(what) == /\ faults < MaxFaults /\ faults' = faults + 1 /\ Mishap
               /\ trouble' = trouble \cup {what}
Fault == Wrong("fault")
NoFault == UNCHANGED <<faults, mishaps, trouble>>
Goes(j, pc) == job' = [job EXCEPT ![j].pc = pc]
Runs(r, pc) == run' = [run EXCEPT ![r].pc = pc]
Over(R) == [r \in DOMAIN run \ R |-> run[r]]
Is(r, pc) == r \in DOMAIN run /\ run[r].pc = pc
At(pcs) == {r \in DOMAIN run : run[r].pc \in pcs}
SameId(t, u) == task[t].id = task[u].id

(***************************************************************************)
(* Creation of a job: PartitionInputData, AssignTasks, SendTaskToWorker.   *)
(***************************************************************************)
\* Mutant of LinesPerTask: rounded down.
LinesPerTaskFloor(count, n) == count \div n

LinesPerTask(count, n) == (count + n - 1) \div n

\* The lines of the i-th of n partitions of a file with count lines.
Partition(count, n, i) ==
  LET start == i * LinesPerTask(count, n)
      end == start + LinesPerTask(count, n) - 1
  IN start .. (IF end >= count THEN count - 1 ELSE end)

\* The command job, at the leader or passed on to it by TransferCommand.  A console
\* takes its next command when CreateJob has returned; that two consoles do not submit
\* at the same time is assumed of their operator.
Submit(j) ==
  /\ job[j].pc = "new" /\ \A i \in 1 .. j - 1 : job[i].pc \notin {"new", "create", "assign"}
  /\ Patient => /\ \A i \in 1 .. j - 1 : job[i].pc \in {"ended", "refused"}
                /\ {n \in Nodes : isAlive[n]} \subseteq conns \cap toLeader
  /\ Goes(j, "create")
  /\ UNCHANGED <<isAlive, lists, fail, conns, updates, workerVars, budget, trouble>>

\* All the leader knows of earlier jobs is dropped, their running tasks included.
CreateJob(j) ==
  /\ job[j].pc = "create"
  /\ \/ /\ NoFault
        /\ queue' = [n \in Nodes |-> <<>>] /\ waiting' = <<>>
        /\ taskMap' = EmptyMap /\ assigned' = <<>> /\ completed' = <<>>
        /\ jobTasks' = [i \in Jobs |-> <<>>]
        /\ Goes(j, "assign")
     \/ Fault /\ Goes(j, "refused")
        /\ UNCHANGED <<queue, waiting, taskMap, assigned, completed, jobTasks>>
  /\ UNCHANGED <<isAlive, task, fail, conns, updates, workerVars, crashes, joins>>

\* Idle workers with the file first, then idle ones, then any with room; the maps
\* are walked in no order.
Candidates(files) ==
  LET room == {n \in Nodes : isAlive[n] /\ Len(queue[n]) < MAX_TASK_PER_NODE}
      idle == {n \in room : queue[n] = <<>>}
  IN IF idle \cap files # {} THEN idle \cap files ELSE IF idle # {} THEN idle ELSE room

\* What the placement of a task at w spoils: a worker with two tasks may report the
\* wrong one, one that is not connected to the leader reports none.
Spoilt(t, w) ==
  (IF \E u \in Range(taskMap) \ {NoTask, t} : task[u].at = w THEN {"crowded"} ELSE {})
    \cup (IF w \notin conns \cap toLeader THEN {"unconnected"} ELSE {})

NextId == Cardinality(DOMAIN taskMap) + 1
Put(map, id, t) == [x \in DOMAIN map \cup {id} |-> IF x = id THEN t ELSE map[x]]

AssignStage1(j) ==
  LET t == <<j, job[j].i>> IN
  /\ job[j].pc = "assign" /\ job[j].i \in Stage1
  /\ jobTasks' = [jobTasks EXCEPT ![j] = Append(@, t)]
  /\ \/ \E w \in Candidates(Holders) :
          /\ queue' = [queue EXCEPT ![w] = Append(@, t)]
          /\ task' = [task EXCEPT ![t] = [id |-> NextId, at |-> w]]
          /\ taskMap' = Put(taskMap, NextId, t)
          /\ assigned' = Append(assigned, t)
          /\ job' = [job EXCEPT ![j].i = @ + 1, ![j].senders = @ \cup {w}]
          /\ trouble' = trouble \cup Spoilt(t, w)
          /\ UNCHANGED waiting
     \/ /\ Candidates(Holders) = {}
        /\ waiting' = Append(waiting, t)
        /\ task' = [task EXCEPT ![t] = [id |-> NextId, at |-> Worker0]]
        /\ job' = [job EXCEPT ![j].i = @ + 1, ![j].ok = FALSE]
        /\ trouble' = trouble \cup {"crowded"}
        /\ UNCHANGED <<queue, taskMap, assigned>>
  /\ UNCHANGED <<isAlive, completed, fail, conns, updates, workerVars, budget>>

\* A stage-2 task that finds no worker keeps WorkerId 0 and is sent there.
AssignStage2(j) ==
  LET i == job[j].i
      t == <<j, i>>
  IN
  /\ job[j].pc = "assign" /\ job[j].ok /\ i \in Stage2 /\ assigned # <<>>
  /\ \E w \in IF Candidates({}) = {} THEN {NoNode} ELSE Candidates({}) :
       LET at == IF w = NoNode THEN Worker0 ELSE w IN
       /\ queue' = IF w = NoNode THEN queue ELSE [queue EXCEPT ![w] = Append(@, t)]
       /\ waiting' = IF w = NoNode THEN Append(waiting, t) ELSE waiting
       /\ task' = [task EXCEPT ![t] = [id |-> NextId, at |-> at]]
       /\ job' = [job EXCEPT ![j].i = i + 1, ![j].out[i - K] = at,
                             ![j].receivers = @ \cup {at}]
       /\ trouble' = trouble \cup IF w = NoNode THEN {"crowded"} ELSE Spoilt(t, w)
  /\ taskMap' = Put(taskMap, NextId, t)
  /\ assigned' = Append(assigned, t)
  /\ jobTasks' = [jobTasks EXCEPT ![j] = Append(@, t)]
  /\ UNCHANGED <<isAlive, completed, fail, conns, updates, workerVars, budget>>

Sending(t) == [pc |-> "sending", id |-> task[t].id, i |-> 0]
Sends(R) == run' = [r \in R \cup DOMAIN run |-> IF r \in R THEN Sending(r[1]) ELSE run[r]]

\* Everything in assignedTasks is sent, by one goroutine each; the monitor starts.
SendAll(j) ==
  /\ job[j].pc = "assign"
  /\ job[j].i = 2 * K + 1 \/ (job[j].i > K /\ (~job[j].ok \/ assigned = <<>>))
  /\ LET sent == IF job[j].i = 2 * K + 1 THEN {<<t, task[t].at>> : t \in Range(assigned)}
                                         ELSE {}
     IN Sends(sent)
  /\ Goes(j, "monitor")
  /\ UNCHANGED <<isAlive, lists, fail, conns, updates, up, wq, wparts, toLeader,
                 budget, trouble>>

Ticks(j, ends) ==
  /\ job[j].pc = "monitor" /\ assigned # <<>> /\ ends
  /\ assigned' = <<>> /\ completed' = <<>>
  /\ jobTasks' = [jobTasks EXCEPT ![j] = <<>>]
  /\ Goes(j, "ended")
  /\ UNCHANGED <<isAlive, queue, waiting, task, taskMap, fail, conns, updates,
                 workerVars, budget, trouble>>

checkIfTaskCompleted(t) == \E c \in Range(completed) : SameId(t, c)

\* Mutant of MonitorTick: one task that is not completed is overlooked.
MonitorTickAny(j) ==
  Ticks(j, Cardinality({t \in Range(jobTasks[j]) : ~checkIfTaskCompleted(t)}) < 2)

\* The monitor, every RETRY_TIMEOUT seconds: when no task of the job is left the lists
\* of the leader are cleared, whichever job they belong to.  A task struck off at an
\* earlier tick is still in CompletedTask: the two are cleared together.
MonitorTick(j) == Ticks(j, \A t \in Range(jobTasks[j]) : checkIfTaskCompleted(t))

(***************************************************************************)
(* The worker: SendTask, PerformTask, finishTask, UpdateTask.              *)
(***************************************************************************)
\* The task arrives; a stage-2 task prepares and is done with, a stage-1 task may
\* not find its file.
Deliver(t, n) ==
  LET r == <<t, n>> IN
  /\ Is(r, "sending") /\ up[n]
  /\ wparts' = [wparts EXCEPT ![n] = job[t[1]].out]
  /\ wq' = [wq EXCEPT ![n] = Append(@, run[r].id)]
  /\ \/ /\ NoFault
        /\ IF t[2] \in Stage1 THEN Runs(r, "running") ELSE run' = Over({r})
     \/ Fault /\ run' = Over({r})
  /\ UNCHANGED <<leaderVars, up, toLeader, crashes, joins>>

SendFails(t, n) ==
  /\ Is(<<t, n>>, "sending")
  /\ IF up[n] THEN Fault ELSE NoFault
  /\ run' = Over({<<t, n>>})
  /\ UNCHANGED <<leaderVars, up, wq, wparts, toLeader, crashes, joins>>

\* The goroutine ends and reports its task, or after retries the last one in the queue
\* of its worker.  Nothing is reported when the queue is empty by then, without a
\* connection to the leader, or when the call is lost: nobody tries again.
Report(t, n) ==
  LET r == <<t, n>> IN
  /\ Is(r, "running")
  /\ \/ /\ n \in toLeader /\ NoFault
        /\ \E id \in {run[r].id} \cup (IF wq[n] = <<>> THEN {} ELSE {Last(wq[n])}) :
             run' = [run EXCEPT ![r].pc = "called", ![r].id = id]
     \/ (n \notin toLeader \/ wq[n] = <<>>) /\ NoFault /\ run' = Over({r})
     \/ n \in toLeader /\ Fault /\ run' = Over({r})
  /\ UNCHANGED <<leaderVars, up, wq, wparts, toLeader, crashes, joins>>

\* Mutant of UpdateTask: the task is replaced, the partition map is not.
UpdateTaskOnly(t, n) ==
  /\ <<t, n>> \in updates /\ NoFault
  /\ updates' = updates \ {<<t, n>>}
  /\ UNCHANGED <<isAlive, lists, job, fail, conns, workerVars, crashes, joins>>

\* UpdateTask at one worker: ignored unless it has the task queued.
UpdateTask(t, n) ==
  /\ <<t, n>> \in updates
  /\ updates' = updates \ {<<t, n>>}
  /\ \/ /\ NoFault
        /\ wparts' = IF up[n] /\ task[t].id \in Range(wq[n])
                       THEN [wparts EXCEPT ![n] = job[t[1]].out] ELSE wparts
     \/ up[n] /\ Fault /\ UNCHANGED wparts
  /\ UNCHANGED <<isAlive, lists, job, fail, conns, up, wq, toLeader, run, crashes, joins>>

(***************************************************************************)
(* SendNotification at the leader, for the report of run r.                *)
(***************************************************************************)
Removed(q, t) == RemoveFirstMatch(q, LAMBDA u : SameId(u, t))

\* MarkTaskCompleted: an unknown or completed id only leaves a nil in TaskMap.
Marked(id) == IF id \in DOMAIN taskMap THEN taskMap[id] ELSE NoTask

\* Mutant of MarkCompleted: the task stays in the queue of its worker.
MarkCompletedQueued(id) ==
  /\ taskMap' = Put(taskMap, id, NoTask)
  /\ completed' = IF Marked(id) = NoTask THEN completed ELSE Append(completed, Marked(id))
  /\ UNCHANGED queue

\* Mutant of MarkCompleted: an unknown task is appended all the same.
MarkCompletedNil(id) ==
  LET t == Marked(id) IN
  /\ taskMap' = Put(taskMap, id, NoTask)
  /\ queue' = IF t = NoTask THEN queue ELSE [queue EXCEPT ![task[t].at] = Removed(@, t)]
  /\ completed' = Append(completed, t)

MarkCompleted(id) ==
  LET t == Marked(id) IN
  /\ taskMap' = Put(taskMap, id, NoTask)
  /\ IF t = NoTask THEN UNCHANGED <<queue, completed>>
     ELSE /\ queue' = IF task[t].at = NoNode THEN queue
                      ELSE [queue EXCEPT ![task[t].at] = Removed(@, t)]
          /\ completed' = Append(completed, t)

\* Two handlers may append to CompletedTask at once, and one of the tasks is lost.
Notified(r) ==
  /\ Is(r, "called")
  /\ \/ NoFault /\ MarkCompleted(run[r].id)
     \/ /\ Fault /\ At({"called", "marked"}) # {r}
        /\ taskMap' = Put(taskMap, run[r].id, NoTask)
        /\ UNCHANGED <<queue, completed>>
  /\ Runs(r, "marked")
  /\ UNCHANGED <<isAlive, waiting, task, assigned, jobTasks, job, fail, conns, updates,
                 up, wq, wparts, toLeader, crashes, joins>>

\* Mutant of AllSendersCompleted: one sender is enough.
AllSendersCompletedEarly == Len(completed) = 1 /\ Len(assigned) >= K

AllSendersCompleted ==
  /\ Len(completed) = K /\ Len(assigned) >= K
  /\ \A i \in 1 .. K : \E c \in Range(completed) : SameId(assigned[i], c)

\* The answer reaches the worker in time, or the task stays in its queue.
Checked(r) ==
  /\ Is(r, "marked")
  /\ IF AllSendersCompleted
       THEN run' = [run EXCEPT ![r].pc = "telling", ![r].i = K + 1] /\ NoFault /\ UNCHANGED wq
       ELSE /\ run' = Over({r})
            /\ \/ NoFault /\ wq' = [wq EXCEPT ![r[2]] = RemoveFirst(@, run[r].id)]
               \/ Fault /\ UNCHANGED wq
  /\ UNCHANGED <<leaderVars, up, wparts, toLeader, crashes, joins>>

\* sendAckToReceiver, one receiver: it stops where there is no connection and goes on
\* after a failed call.  Then the worker that reported is answered.
TellReceiver(r) ==
  LET i == run[r].i
      id == task[assigned[i]].id
      at == task[assigned[i]].at
      last == i = 2 * K \/ at \notin conns
      told == IF at \in conns /\ up[at] THEN [wq EXCEPT ![at] = RemoveFirst(@, id)] ELSE wq
      answered(q) == IF last THEN [q EXCEPT ![r[2]] = RemoveFirst(@, run[r].id)] ELSE q
  IN
  /\ Is(r, "telling") /\ i <= Len(assigned)
  /\ MarkCompleted(id)
  /\ \/ NoFault /\ wq' = answered(told)
     \/ Fault /\ at \in conns /\ wq' = answered(wq)
  /\ run' = IF last THEN Over({r}) ELSE [run EXCEPT ![r].i = i + 1]
  /\ UNCHANGED <<isAlive, waiting, task, assigned, jobTasks, job, fail, conns, updates,
                 up, wparts, toLeader, crashes, joins>>

\* A panic ends the process of the leader.
Panics ==
  /\ trouble' = trouble \cup {"panic"}
  /\ job' = [j \in Jobs |-> [NewJob EXCEPT !.pc = "gone"]]
  /\ fail' = [fail EXCEPT !.pc = "gone"] /\ updates' = {} /\ run' = EmptyMap
  /\ UNCHANGED <<isAlive, lists, conns, up, wq, wparts, toLeader, budget>>

\* The list was cleared meanwhile: the index is out of range.
TellPanics(r) == Is(r, "telling") /\ run[r].i > Len(assigned) /\ Panics

(***************************************************************************)
(* Failures, joins and connections.                                        *)
(***************************************************************************)
\* A notification that was sent may arrive all the same.
Crash(n) ==
  /\ n # Leader /\ up[n] /\ crashes < MaxCrashes
  /\ crashes' = crashes + 1 /\ Mishap
  /\ up' = [up EXCEPT ![n] = FALSE]
  /\ wq' = [wq EXCEPT ![n] = <<>>] /\ wparts' = [wparts EXCEPT ![n] = NoParts]
  /\ toLeader' = toLeader \ {n}
  /\ \E late \in SUBSET {r \in At({"called"}) : r[2] = n} :
       run' = Over({r \in At({"running", "called"}) : r[2] = n} \ late)
  /\ UNCHANGED <<leaderVars, faults, joins, trouble>>

\* Mutant of FailSignal: the worker stays alive for the leader.
FailSignalAlive(n) ==
  /\ fail.pc = "wait" /\ isAlive[n] /\ ~up[n] /\ NoFault
  /\ queue' = [queue EXCEPT ![n] = <<>>]
  /\ fail' = [pc |-> "sleep", n |-> n]
  /\ UNCHANGED <<isAlive, waiting, task, taskMap, assigned, completed, jobTasks, job, conns,
                 updates, workerVars, crashes, joins>>

\* The membership service has found n failed, rightly or not; the leader takes note
\* and sleeps for 15 s.
FailSignal(n) ==
  /\ fail.pc = "wait" /\ isAlive[n]
  /\ IF up[n] THEN n # Leader /\ Wrong("doubted") ELSE NoFault
  /\ isAlive' = [isAlive EXCEPT ![n] = FALSE]
  /\ queue' = [queue EXCEPT ![n] = <<>>]
  /\ fail' = [pc |-> "sleep", n |-> n]
  /\ UNCHANGED <<waiting, task, taskMap, assigned, completed, jobTasks, job, conns, updates,
                 workerVars, crashes, joins>>

Slept ==
  /\ fail.pc = "sleep"
  /\ \A j \in Jobs : job[j].pc # "assign"
  /\ \A r \in DOMAIN run : run[r].pc # "sending" /\ (r[2] = fail.n => run[r].pc = "running")

HandleNothing ==
  /\ Slept /\ ~\E id \in DOMAIN taskMap : taskMap[id] # NoTask /\ task[taskMap[id]].at = fail.n
  /\ fail' = [fail EXCEPT !.pc = "wait"]
  /\ UNCHANGED <<isAlive, lists, job, conns, updates, workerVars, budget, trouble>>

\* updateSenderWorkersForFailedNode: if a sender's queue holds a task, one partition
\* of the failed worker, any, goes to w.
NewParts(j, n, w, told) ==
  LET mine == {p \in Stage1 : job[j].out[p] = n} IN
  IF told = {} \/ mine = {} THEN {job[j].out}
  ELSE {[job[j].out EXCEPT ![p] = w] : p \in mine}

\* RescheduleSplitTask.  For a stage-2 task the queues of the senders recorded at the
\* assignment are updated and what they hold is sent to every connected worker; one
\* that does not have it queued ignores it.
Reschedule(t, w) ==
  LET j == t[1]
      n == fail.n
      q == [queue EXCEPT ![w] = Append(@, t)]
      told == IF t[2] \in Stage2 /\ n \in job[j].receivers
                THEN UNION {Range(q[s]) : s \in job[j].senders} ELSE {}
  IN
  /\ queue' = q
  /\ task' = [task EXCEPT ![t].at = w]
  /\ \E parts \in NewParts(j, n, w, told) : job' = [job EXCEPT ![j].out = parts]
  /\ updates' = updates \cup {u \in told \X conns : task[u[1]].id \in Range(wq[u[2]])}
  /\ Sends({<<t, w>>})
  /\ trouble' = trouble \cup Spoilt(t, w)
  /\ UNCHANGED waiting

MoveTask(t) ==
  /\ \/ \E w \in Candidates({}) : Reschedule(t, w)
     \/ /\ Candidates({}) = {}
        /\ waiting' = Append(waiting, t)
        /\ task' = [task EXCEPT ![t].at = NoNode]
        /\ trouble' = trouble \cup {"crowded"}
        /\ UNCHANGED <<queue, job, updates, run>>
  /\ fail' = [fail EXCEPT !.pc = "wait"]
  /\ UNCHANGED <<isAlive, taskMap, assigned, completed, jobTasks, conns,
                 up, wq, wparts, toLeader, budget>>

\* handleWorkerFailure: the first task found at the failed worker, any, is rescheduled
\* and the loop breaks.  If there was no room for all tasks of the job none was sent,
\* their ParentJob is nil, and it is dereferenced for the log.
Handle(t) ==
  /\ Slept /\ task[t].at = fail.n
  /\ \E id \in DOMAIN taskMap : taskMap[id] = t
  /\ IF job[t[1]].i = 2 * K + 1 THEN MoveTask(t) ELSE Panics

\* A node joins, or a crashed one is started again and joins.  If that is before its
\* failure was told nobody learns that its tasks are gone, and if it is before the
\* failure was handled the tasks it gets meanwhile are taken for the failed one's.
Join(n) ==
  LET hurried == isAlive[n] \/ fail = [pc |-> "sleep", n |-> n] IN
  /\ Underway /\ joins < MaxJoins /\ joins' = joins + 1
  /\ IF up[n] THEN ~isAlive[n] /\ UNCHANGED mishaps ELSE Mishap
  /\ HurriedJoins \/ ~hurried
  /\ \A r \in DOMAIN run : r[2] = n => run[r].pc = "running"
  /\ up' = [up EXCEPT ![n] = TRUE] /\ isAlive' = [isAlive EXCEPT ![n] = TRUE]
  /\ trouble' = trouble \cup IF hurried THEN {"hurried"} ELSE {}
  /\ UNCHANGED <<lists, job, fail, conns, updates, wq, wparts, toLeader, run,
                 crashes, faults>>

\* The command conn at the leader.
Connect ==
  LET running == {n \in Nodes : up[n]} IN
  /\ ~(running \subseteq conns \cap toLeader)
  /\ conns' = conns \cup running /\ toLeader' = toLeader \cup running
  /\ UNCHANGED <<isAlive, lists, job, fail, updates, up, wq, wparts, run, budget, trouble>>

-----------------------------------------------------------------------------
Creator(j) == CreateJob(j) \/ AssignStage1(j) \/ AssignStage2(j) \/ SendAll(j) \/ MonitorTick(j)
Progress ==
  \/ \E j \in Jobs : Creator(j)
  \/ \E r \in DOMAIN run : Deliver(r[1], r[2])
  \/ \E r \in DOMAIN run : SendFails(r[1], r[2])
  \/ \E r \in DOMAIN run : Report(r[1], r[2])
  \/ \E u \in updates : UpdateTask(u[1], u[2])
  \/ \E r \in DOMAIN run : Notified(r)
  \/ \E r \in DOMAIN run : Checked(r)
  \/ \E r \in DOMAIN run : TellReceiver(r)
  \/ \E r \in DOMAIN run : TellPanics(r)
  \/ \E n \in Nodes : FailSignal(n)
  \/ \E t \in Tasks : Handle(t)
  \/ HandleNothing

Operator == Connect \/ \E j \in Jobs : Submit(j)

Environment == \E n \in Nodes : Crash(n) \/ Join(n)

Next == Progress \/ Operator \/ Environment

Spec == Init /\ [][Next]_vars

(***************************************************************************)
(* Fairness: as long as some goroutine, call or timer of the program can   *)
(* make a step, one does.  No step is repeated for ever, so this is enough.*)
(***************************************************************************)
FairSpec == Spec /\ WF_vars(Progress)

-----------------------------------------------------------------------------
Ids == 0 .. 2 * K * NumJobs
Places == Nodes \cup {NoNode}
PartsType == [Stage1 -> Places]

\* The types of the variables (leader.go:32-44, models.go:62-67, worker.go:29-42).
TypeOK ==
  /\ isAlive \in [Nodes -> BOOLEAN] /\ queue \in [Nodes -> Seq(Tasks)] /\ waiting \in Seq(Tasks)
  /\ task \in [Tasks -> [id : Ids, at : Places]]
  /\ DOMAIN taskMap \subseteq Ids /\ Range(taskMap) \subseteq Tasks \cup {NoTask}
  /\ assigned \in Seq(Tasks) /\ completed \in Seq(Tasks) /\ jobTasks \in [Jobs -> Seq(Tasks)]
  /\ job \in [Jobs -> [pc : {"new", "create", "assign", "monitor", "ended", "refused", "gone"},
                       i : 1 .. 2 * K + 1, ok : BOOLEAN, senders : SUBSET Nodes,
                       receivers : SUBSET Nodes, out : PartsType]]
  /\ fail \in [pc : {"wait", "sleep", "gone"}, n : Nodes]
  /\ conns \subseteq Nodes /\ updates \subseteq Tasks \X Nodes
  /\ up \in [Nodes -> BOOLEAN] /\ wq \in [Nodes -> Seq(Ids)] /\ wparts \in [Nodes -> PartsType]
  /\ toLeader \subseteq Nodes
  /\ DOMAIN run \subseteq Tasks \X Nodes
  /\ Range(run) \subseteq [pc : {"sending", "running", "called", "marked", "telling"},
                           id : Ids, i : 0 .. 2 * K + 1]
  /\ crashes \in 0 .. MaxCrashes /\ faults \in 0 .. MaxFaults /\ joins \in 0 .. MaxJoins
  /\ mishaps \in 0 .. MaxMishaps
  /\ trouble \subseteq {"fault", "doubted", "crowded", "unconnected", "hurried", "panic"}

\* Every line of the input is in exactly one partition, whatever the number of lines
\* and tasks (PartitionInputData, leader.go:96-120).
PartitionsCover ==
  (\E j \in Jobs : job[j].pc = "assign") => \A count \in 0 .. MaxLines, n \in 1 .. MaxLines :
    \A line \in 0 .. count - 1 :
      Cardinality({i \in 0 .. n - 1 : line \in Partition(count, n, i)}) = 1

Current(t) == \E id \in DOMAIN taskMap : taskMap[id] = t
Done(t) == t \in Range(completed)

\* The leader's queues, by which it balances the load, agree with its tasks: a task
\* that is not completed is in the queue of the worker it is at, unless that one is
\* being handled as failed, and nothing else is in a queue (utils-leader.go:18-75,
\* 191-211, leader.go:435-450).
QueuesAgree ==
  trouble \cap {"fault", "crowded", "hurried"} = {} =>
    /\ \A t \in Tasks : Current(t) =>
         \/ t \in Range(queue[task[t].at])
         \/ ~isAlive[task[t].at] \/ fail = [pc |-> "sleep", n |-> task[t].at]
    /\ \A n \in Nodes : \A t \in Range(queue[n]) : Current(t) /\ task[t].at = n

\* A stage-2 task is told that all is done only when no stage-1 task of its job is
\* still sent or run anywhere, even after one was moved (leader.go:511-530,
\* utils-leader.go:249-316): a tuple that comes later finds no task at its receiver.
ReceiversLast ==
  trouble = {} =>
    \A j \in Jobs, k \in Stage2 : Done(<<j, k>>) =>
      \A r \in At({"sending", "running"}) : r[1][1] = j => r[1][2] \notin Stage1

\* A worker that runs a stage-1 task has a partition map that names where the stage-2
\* tasks of the job are now, as soon as no update is under way: also after one was moved
\* (utils-leader.go:117-190, worker.go:59-88).  A second failure, of the worker it was
\* moved to, is not told: the receivers recorded are those of the assignment.
SendersRouted ==
  (trouble = {} /\ crashes <= 1 /\ updates = {}) =>
    \A r \in At({"running"}), p \in Stage1 : wparts[r[2]][p] = task[<<r[1][1], K + p>>].at

\* "All tasks in the job completed successfully." (leader.go:415) is printed only then:
\* when a job ends, each of its tasks is in CompletedTask or was struck off for it.
EndedIsCompleted ==
  [][\A j \in Jobs : (job[j].pc = "monitor" /\ job'[j].pc = "ended" /\ "doubted" \notin trouble) =>
       \A k \in Stage1 \cup Stage2 :
         /\ task[<<j, k>>].id # 0 /\ ~Current(<<j, k>>)
         /\ \A r \in At({"running"}) : r[1] # <<j, k>>]_vars

\* A job ends although a worker fails at any time, before, while or after its tasks are
\* assigned, sent, run, reported and told (leader.go:250-324,375-509), unless one of the
\* troubles came up: a lost call, two tasks at a worker, a worker that is not
\* connected, a restart that went unnoticed, a panic.
JobEnds == \A j \in Jobs : job[j].pc = "monitor" ~> (job[j].pc = "ended" \/ ~(trouble \subseteq {"doubted"}))
=============================================================================
