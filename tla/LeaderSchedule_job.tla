--------------------------- MODULE LeaderSchedule_job ---------------------------
(***************************************************************************)
(* Proofs about the leader while there is one job.  A second one empties   *)
(* TaskMap and the ids begin anew while tasks of the first still run and   *)
(* report theirs; then an id may be given twice, a report may strike off   *)
(* another task, and a job may end early (the run NextJob).                *)
(*                                                                         *)
(* The first invariant says how the tasks are numbered, which of them are  *)
(* in TaskMap, and where they are queued; QueuesAgree follows from it.     *)
(* The second one says where the tasks are sent and run, and what is known *)
(* when they are completed; ReceiversLast and EndedIsCompleted follow.     *)
(* The third one says what their workers know of where the stage-2 tasks   *)
(* are; SendersRouted follows.                                             *)
(***************************************************************************)
EXTENDS LeaderSchedule_proofs

OneJob == NumJobs = 1

\* Before the job is sent there are no runs and nothing is completed.
FreshInv ==
  /\ job[1].pc \in {"new", "create", "refused"} => DOMAIN taskMap = {}
  /\ job[1].pc \in {"new", "create", "assign", "refused"} => completed = <<>>
  /\ job[1].pc \in {"new", "create", "assign", "refused", "gone"} => DOMAIN run = {}
  /\ job[1].pc = "assign" => \A t \in Tasks : Current(t) \/ t \in Range(assigned) => t[2] < job[1].i
  /\ fail.pc = "gone" <=> job[1].pc = "gone"

\* The ids are numbers without a gap.
NumberInv ==
  /\ \E m \in Nat : DOMAIN taskMap = 1 .. m
  /\ \A id \in DOMAIN taskMap : taskMap[id] # NoTask => task[taskMap[id]].id = id
  /\ \A r \in DOMAIN run : run[r].id \in DOMAIN taskMap
  /\ \A t \in Range(assigned) : task[t].id \in DOMAIN taskMap
  /\ \A n \in Nodes : Range(wq[n]) \subseteq DOMAIN taskMap
  /\ \A t \in Tasks : Done(t) => ~Current(t)

\* Unless it is crowded, a worker has one task that is not completed.
AloneInv ==
  "crowded" \notin trouble =>
    /\ \A t \in Tasks : Current(t) => task[t].at \in Nodes
    /\ \A t, u \in Tasks : Current(t) /\ Current(u) /\ task[t].at = task[u].at => t = u

FailInv ==
  /\ \A n \in Nodes : ~isAlive[n] => queue[n] = <<>>
  /\ "hurried" \notin trouble /\ fail.pc = "sleep" => ~isAlive[fail.n]

\* That task is all there is in the worker's queue, which a failure empties.
Calm == trouble \cap {"fault", "crowded", "hurried"} = {}
Handled(n) == fail.pc = "gone" \/ (fail.pc = "sleep" /\ fail.n = n)
QueueInv ==
  Calm =>
    /\ \A t \in Tasks : Current(t) =>
         \/ isAlive[task[t].at] /\ queue[task[t].at] = <<t>>
         \/ ~isAlive[task[t].at] /\ Handled(task[t].at)
    /\ \A n \in Nodes : queue[n] = <<>> \/ \E t \in Tasks : Current(t) /\ task[t].at = n /\ queue[n] = <<t>>
Ind == FreshInv /\ NumberInv /\ AloneInv /\ FailInv /\ QueueInv

LEMMA JobIsOne ==
  ASSUME OneJob
  PROVE  /\ 1 \in Jobs /\ \A j \in Jobs : j = 1
         /\ \A t \in Tasks : t = <<1, t[2]>> /\ t[2] \in 1 .. 2 * K
         /\ \A t, u \in Tasks : t[2] = u[2] => t = u
         /\ \A i \in 1 .. 2 * K : <<1, i>> \in Tasks
<1>1. Jobs = {1}
  BY DEF OneJob, Jobs
<1>. QED  BY <1>1, Constants

LEMMA InitInd == ASSUME OneJob, Init PROVE Ind
<1>1. DOMAIN EmptyMap = {} /\ Range(<<>>) = {} /\ 1 .. 0 = {}
  BY DEF EmptyMap, Range
<1>2. \A t \in Tasks : ~Current(t)
  BY <1>1 DEF Init, Current
<1>3. job[1].pc = "new"
  BY JobIsOne DEF Init, NewJob
<1>4. FreshInv
  BY <1>1, <1>2, <1>3 DEF Init, FreshInv
<1>5. NumberInv
  BY <1>1, <1>2 DEF Init, NumberInv
<1>6. AloneInv /\ FailInv /\ QueueInv
  BY <1>2 DEF Init, AloneInv, FailInv, QueueInv
<1>. QED  BY <1>4, <1>5, <1>6 DEF Ind

\* A step that leaves the leader's lists alone.
LEMMA Quiet ==
  ASSUME Ind, UNCHANGED <<isAlive, queue, task, taskMap, assigned, completed, fail>>,
         job'[1].pc = job[1].pc, job'[1].i = job[1].i, trouble \subseteq trouble',
         DOMAIN run' \subseteq DOMAIN run,
         \A r \in DOMAIN run' : run'[r].id \in DOMAIN taskMap,
         \A n \in Nodes : Range(wq'[n]) \subseteq DOMAIN taskMap
  PROVE  Ind'
<1>1. \A t \in Tasks : Current(t)' = Current(t) /\ Done(t)' = Done(t)
  BY DEF Current, Done
<1>2. FreshInv'
  BY <1>1 DEF Ind, FreshInv
<1>3. NumberInv'
  BY <1>1 DEF Ind, NumberInv
<1>4. AloneInv' /\ FailInv'
  BY <1>1 DEF Ind, AloneInv, FailInv
<1>5. QueueInv'
  <2>1. Calm' => Calm
    BY DEF Calm
  <2>2. \A n : Handled(n)' = Handled(n)
    BY DEF Handled
  <2>. QED  BY <1>1, <2>1, <2>2 DEF Ind, QueueInv
<1>. QED  BY <1>2, <1>3, <1>4, <1>5 DEF Ind

LEMMA SubmitInd ==
  ASSUME OneJob, TypeInd, Ind, Submit(1)
  PROVE  Ind'
<1>1. job[1].pc = "new" /\ job'[1].pc = "create"
  <2>1. JobTypes /\ Goes(1, "create") /\ job[1].pc = "new"
    BY DEF Submit, TypeInd, Types
  <2>. QED  BY <2>1, JobIsOne, GoesOf DEF JobPcs
<1>2. UNCHANGED <<isAlive, queue, task, taskMap, assigned, completed, fail, run, wq, trouble>>
  BY DEF Submit, lists, workerVars
<1>3. \A t \in Tasks : Current(t)' = Current(t) /\ Done(t)' = Done(t)
  BY <1>2 DEF Current, Done
<1>4. FreshInv'
  BY <1>1, <1>2 DEF Ind, FreshInv
<1>5. NumberInv' /\ AloneInv' /\ FailInv'
  BY <1>2, <1>3 DEF Ind, NumberInv, AloneInv, FailInv
<1>6. QueueInv'
  BY <1>2, <1>3 DEF Ind, QueueInv, Calm, Handled
<1>. QED  BY <1>4, <1>5, <1>6 DEF Ind

LEMMA CreateJobInd ==
  ASSUME OneJob, TypeInd, Ind, CreateJob(1)
  PROVE  Ind'
<1>1. job[1].pc = "create" /\ DOMAIN taskMap = {} /\ DOMAIN run = {} /\ fail.pc # "gone" /\ completed = <<>>
  BY DEF CreateJob, Ind, FreshInv
<1>2. PICK pc \in {"assign", "refused"} : Goes(1, pc)
  BY DEF CreateJob
<1>3. job'[1].pc = pc
  BY <1>2, JobIsOne, GoesOf DEF JobPcs, TypeInd, Types
<1>4. DOMAIN taskMap' = {} /\ completed' = <<>> /\ UNCHANGED <<isAlive, task, fail, run, wq>>
  BY <1>1 DEF CreateJob, EmptyMap, workerVars
<1>5. \A t \in Tasks : ~Current(t)' /\ ~Current(t)
  BY <1>1, <1>4 DEF Current
<1>6. Range(assigned) = {}
  BY <1>1 DEF Ind, NumberInv
<1>7. Range(assigned') = {}
  BY <1>6 DEF CreateJob, Range
<1>8. \A n \in Nodes : Range(wq[n]) = {}
  BY <1>1 DEF Ind, NumberInv
<1>9. FreshInv'
  BY <1>1, <1>3, <1>4, <1>5, <1>7 DEF FreshInv
<1>10. NumberInv'
  <2>1. 1 .. 0 = {}
    OBVIOUS
  <2>. QED  BY <1>1, <1>4, <1>5, <1>7, <1>8, <2>1 DEF NumberInv
<1>11. "fault" \in trouble' \/ \A n \in Nodes : queue'[n] = <<>>
  BY DEF CreateJob, Fault, Wrong
<1>12. trouble \subseteq trouble' /\ (queue' = queue \/ \A n \in Nodes : queue'[n] = <<>>)
  BY FaultOrNot DEF CreateJob, TypeInd, Types
<1>13. FailInv'
  BY <1>4, <1>12 DEF Ind, FailInv
<1>14. AloneInv' /\ QueueInv'
  BY <1>5, <1>11 DEF AloneInv, QueueInv, Calm
<1>. QED  BY <1>9, <1>10, <1>13, <1>14 DEF Ind

LEMMA NextIs ==
  ASSUME NEW m \in Nat, DOMAIN taskMap = 1 .. m
  PROVE  NextId = m + 1
<1>1. (1 .. m = {} /\ m = 0) \/ 1 <= m
  OBVIOUS
<1>2. Cardinality(1 .. m) = m
  BY <1>1, FS_Interval, FS_EmptySet
<1>. QED  BY <1>2 DEF NextId

LEMMA AssignInd ==
  ASSUME OneJob, TypeInd, Ind, AssignStage1(1) \/ AssignStage2(1)
  PROVE  Ind'
<1>1. JobTypes /\ QueueTypes /\ MapTypes
  BY DEF TypeInd, Types
<1>2. job'[1].pc = "assign" /\ job'[1].i = job[1].i + 1 /\ job[1].i \in Int
  <2>1. job'[1].pc = "assign" /\ job'[1].i = job[1].i + 1 /\ job[1].i \in 1 .. 2 * K
    BY <1>1, JobIsOne, AssignOf
  <2>. QED  BY <2>1
<1>3. PICK t \in Tasks, w \in Nodes : Assigns(1, t, w)
  BY <1>1, JobIsOne, AssignOf
<1>4. /\ job[1].pc = "assign" /\ t[2] = job[1].i
      /\ DOMAIN run = {} /\ completed = <<>> /\ fail.pc # "gone"
      /\ UNCHANGED <<isAlive, completed, fail, run, wq>>
  BY <1>3 DEF Assigns, workerVars, Ind, FreshInv
<1>5. task'[t] = [id |-> NextId, at |-> w] /\ \A u \in Tasks : u # t => task'[u] = task[u]
  BY <1>1, <1>3 DEF Assigns, MapTypes
<1>6. task'[t].id = NextId /\ task'[t].at = w
  BY <1>5
<1>7. ~Current(t) /\ t \notin Range(assigned)
  BY <1>2, <1>4 DEF Ind, FreshInv
<1>8. PICK m \in Nat : DOMAIN taskMap = 1 .. m
  BY DEF Ind, NumberInv
<1>9. NextId = m + 1 /\ NextId \notin DOMAIN taskMap
  BY <1>8, NextIs
<1>10. Range(assigned) \subseteq Tasks
  BY <1>1, RangeOf DEF QueueTypes
<1>11. CASE Listed(t)
  <2>1. /\ DOMAIN taskMap' = DOMAIN taskMap \cup {NextId} /\ taskMap'[NextId] = t
        /\ \A x \in DOMAIN taskMap : taskMap'[x] = taskMap[x]
    BY <1>9, <1>11 DEF Listed, Put
  <2>2. Range(assigned') = Range(assigned) \cup {t}
    BY <1>1, <1>11, AppendOf DEF Listed, QueueTypes
  <2>3. \A u \in Tasks : Current(u)' <=> Current(u) \/ u = t
    BY <2>1 DEF Current
  <2>4. DOMAIN taskMap' = 1 .. m + 1
    BY <1>8, <1>9, <2>1
  <2>5. FreshInv'
    <3>1. \A u \in Tasks : Current(u) \/ u \in Range(assigned) => u[2] < job[1].i
      BY <1>4 DEF Ind, FreshInv
    <3>2. \A u \in Tasks : u[2] \in Int
      BY JobIsOne
    <3>3. ASSUME NEW u \in Tasks, Current(u)' \/ u \in Range(assigned') PROVE u[2] < job[1].i + 1
      BY <1>2, <1>4, <2>2, <2>3, <3>1, <3>2, <3>3
    <3>. QED  BY <1>2, <1>4, <3>3 DEF FreshInv
  <2>6. NumberInv'
    <3>1. \A id \in DOMAIN taskMap' : taskMap'[id] # NoTask => task'[taskMap'[id]].id = id
      <4>1. ASSUME NEW id \in DOMAIN taskMap, taskMap[id] # NoTask PROVE task'[taskMap[id]].id = id
        <5>1. taskMap[id] \in Tasks /\ taskMap[id] # t
          BY <1>1, <1>7, <4>1 DEF MapTypes, Current
        <5>. QED  BY <1>5, <4>1, <5>1 DEF Ind, NumberInv
      <4>. QED  BY <1>6, <2>1, <4>1
    <3>2. \A u \in Range(assigned') : task'[u].id \in DOMAIN taskMap'
      BY <1>5, <1>6, <1>10, <2>1, <2>2 DEF Ind, NumberInv
    <3>3. \A n \in Nodes : Range(wq'[n]) \subseteq DOMAIN taskMap'
      BY <1>4, <2>1 DEF Ind, NumberInv
    <3>4. \A u \in Tasks : ~Done(u)'
      BY <1>4 DEF Done, Range
    <3>5. \E k \in Nat : DOMAIN taskMap' = 1 .. k
      BY <2>4
    <3>. QED  BY <1>4, <3>1, <3>2, <3>3, <3>4, <3>5 DEF NumberInv
  <2>7. CASE Waits(t)
    <3>1. "crowded" \in trouble' /\ trouble \subseteq trouble' /\ UNCHANGED queue
      BY <2>7 DEF Waits
    <3>2. AloneInv' /\ QueueInv'
      BY <3>1 DEF AloneInv, QueueInv, Calm
    <3>3. FailInv'
      BY <1>4, <3>1 DEF Ind, FailInv
    <3>. QED  BY <2>5, <2>6, <3>2, <3>3 DEF Ind
  <2>8. CASE Placed(t, w)
    <3>1. trouble \subseteq trouble' /\ queue' = [queue EXCEPT ![w] = Append(@, t)] /\ isAlive[w]
      BY <2>8 DEF Placed
    <3>2. ASSUME "crowded" \notin trouble', NEW u \in Tasks, Current(u) PROVE u # t /\ task[u].at # w
      <4>1. \A x \in Range(taskMap) \ {NoTask, t} : task[x].at # w
        BY <2>8, <3>2, SpoiltOf DEF Placed
      <4>2. u # t /\ u # NoTask /\ u \in Range(taskMap)
        BY <1>7, <3>2, Constants DEF Current, Range
      <4>. QED  BY <4>1, <4>2
    <3>3. AloneInv'
      <4>1. SUFFICES ASSUME "crowded" \notin trouble'
                     PROVE  /\ \A u \in Tasks : Current(u)' => task'[u].at \in Nodes
                            /\ \A u, v \in Tasks : Current(u)' /\ Current(v)' /\ task'[u].at = task'[v].at => u = v
        BY DEF AloneInv
      <4>2. "crowded" \notin trouble
        BY <3>1, <4>1
      <4>3. \A u \in Tasks : Current(u) => task'[u] = task[u] /\ task[u].at # w /\ task[u].at \in Nodes
        BY <1>5, <3>2, <4>1, <4>2 DEF Ind, AloneInv
      <4>. QED  BY <1>6, <2>3, <4>2, <4>3 DEF Ind, AloneInv
    <3>4. FailInv'
      BY <1>1, <1>4, <3>1 DEF Ind, FailInv, QueueTypes
    <3>5. QueueInv'
      <4>1. SUFFICES ASSUME Calm'
                     PROVE  /\ \A u \in Tasks : Current(u)' =>
                                 \/ isAlive'[task'[u].at] /\ queue'[task'[u].at] = <<u>>
                                 \/ ~isAlive'[task'[u].at] /\ Handled(task'[u].at)
                            /\ \A n \in Nodes : \/ queue'[n] = <<>>
                                                \/ \E u \in Tasks : Current(u)' /\ task'[u].at = n /\ queue'[n] = <<u>>
        BY <1>4 DEF QueueInv, Handled
      <4>2. Calm /\ "crowded" \notin trouble' /\ "crowded" \notin trouble
        BY <3>1, <4>1 DEF Calm
      <4>3. \A u \in Tasks : Current(u) => task'[u] = task[u] /\ task[u].at # w /\ task[u].at \in Nodes /\ u # t
        BY <1>5, <3>2, <4>2 DEF Ind, AloneInv
      <4>4. queue[w] = <<>>
        BY <4>2, <4>3 DEF Ind, QueueInv
      <4>5. queue'[w] = <<t>> /\ \A n \in Nodes : n # w => queue'[n] = queue[n]
        BY <1>1, <3>1, <4>4 DEF QueueTypes
      <4>7. ASSUME NEW u \in Tasks, Current(u)'
            PROVE  \/ isAlive'[task'[u].at] /\ queue'[task'[u].at] = <<u>>
                   \/ ~isAlive'[task'[u].at] /\ Handled(task'[u].at)
        <5>1. CASE u = t
          BY <1>4, <1>6, <3>1, <4>5, <5>1
        <5>2. CASE u # t
          BY <1>4, <2>3, <4>2, <4>3, <4>5, <4>7, <5>2 DEF Ind, QueueInv
        <5>. QED  BY <5>1, <5>2
      <4>8. ASSUME NEW n \in Nodes
            PROVE  \/ queue'[n] = <<>>
                   \/ \E u \in Tasks : Current(u)' /\ task'[u].at = n /\ queue'[n] = <<u>>
        <5>1. CASE n = w
          BY <1>6, <2>3, <4>5, <5>1
        <5>2. CASE n # w
          BY <2>3, <4>2, <4>3, <4>5, <5>2 DEF Ind, QueueInv
        <5>. QED  BY <5>1, <5>2
      <4>. QED  BY <4>7, <4>8
    <3>. QED  BY <2>5, <2>6, <3>3, <3>4, <3>5 DEF Ind
  <2>. QED  BY <1>3, <2>7, <2>8 DEF Assigns
<1>12. CASE Waits(t) /\ UNCHANGED <<taskMap, assigned>>
  <2>1. "crowded" \in trouble' /\ trouble \subseteq trouble' /\ UNCHANGED queue
    BY <1>12 DEF Waits
  <2>2. AloneInv' /\ QueueInv'
    BY <2>1 DEF AloneInv, QueueInv, Calm
  <2>3. FailInv'
    BY <1>4, <2>1 DEF Ind, FailInv
  <2>4. \A u \in Tasks : Current(u)' = Current(u)
    BY <1>12 DEF Current
  <2>5. FreshInv'
    <3>1. \A u \in Tasks : Current(u) \/ u \in Range(assigned) => u[2] < job[1].i
      BY <1>4 DEF Ind, FreshInv
    <3>2. \A u \in Tasks : u[2] \in Int
      BY JobIsOne
    <3>3. \A u \in Tasks : u[2] < job[1].i => u[2] < job[1].i + 1
      BY <1>2, <3>2
    <3>. QED  BY <1>2, <1>4, <1>12, <2>4, <3>1, <3>3 DEF FreshInv
  <2>6. NumberInv'
    <3>1. \A id \in DOMAIN taskMap : taskMap[id] # NoTask => task'[taskMap[id]].id = id
      <4>1. ASSUME NEW id \in DOMAIN taskMap, taskMap[id] # NoTask PROVE task'[taskMap[id]].id = id
        <5>1. taskMap[id] \in Tasks /\ taskMap[id] # t
          BY <1>1, <1>7, <4>1 DEF MapTypes, Current
        <5>. QED  BY <1>5, <4>1, <5>1 DEF Ind, NumberInv
      <4>. QED  BY <4>1
    <3>2. \A u \in Range(assigned) : task'[u].id \in DOMAIN taskMap
      BY <1>5, <1>7, <1>10 DEF Ind, NumberInv
    <3>4. \A u \in Tasks : ~Done(u)'
      BY <1>4 DEF Done, Range
    <3>. QED  BY <1>4, <1>12, <3>1, <3>2, <3>4 DEF Ind, NumberInv
  <2>. QED  BY <2>2, <2>3, <2>5, <2>6 DEF Ind
<1>. QED  BY <1>3, <1>11, <1>12 DEF Assigns


LEMMA SendAllInd ==
  ASSUME OneJob, TypeInd, Ind, SendAll(1)
  PROVE  Ind'
<1>1. JobTypes /\ QueueTypes /\ MapTypes /\ RunTypes /\ job[1].pc = "assign" /\ Goes(1, "monitor")
  BY DEF SendAll, TypeInd, Types
<1>2. job'[1].pc = "monitor"
  BY <1>1, JobIsOne, GoesOf DEF JobPcs
<1>3. UNCHANGED <<isAlive, queue, task, taskMap, assigned, completed, fail, wq, trouble>>
  BY DEF SendAll, lists
<1>4. ASSUME NEW r \in DOMAIN run' PROVE run'[r].id \in DOMAIN taskMap
  <2>1. Range(assigned) \subseteq Tasks /\ \A t \in Range(assigned) : task[t].at \in Nodes
    BY <1>1, JobIsOne, RangeOf DEF QueueTypes, TypeInd, PlaceInv
  <2>2. PICK R \in SUBSET (Tasks \X Nodes) : Sends(R) /\ \A q \in R : q[1] \in Range(assigned)
    <3>1. {<<t, task[t].at>> : t \in Range(assigned)} \in SUBSET (Tasks \X Nodes)
      BY <2>1
    <3>2. \A q \in {<<t, task[t].at>> : t \in Range(assigned)} : q[1] \in Range(assigned)
      OBVIOUS
    <3>. QED  BY <3>1, <3>2 DEF SendAll
  <2>3. /\ DOMAIN run' = R \cup DOMAIN run
        /\ \A q \in R : run'[q].id = task[q[1]].id
        /\ \A q \in DOMAIN run \ R : run'[q] = run[q]
    BY <1>1, <2>2, SendsOf
  <2>. QED  BY <2>2, <2>3 DEF Ind, NumberInv
<1>5. \A t \in Tasks : Current(t)' = Current(t) /\ Done(t)' = Done(t)
  BY <1>3 DEF Current, Done
<1>6. FreshInv'
  BY <1>1, <1>2, <1>3 DEF Ind, FreshInv
<1>7. NumberInv'
  BY <1>3, <1>4, <1>5 DEF Ind, NumberInv
<1>8. AloneInv' /\ FailInv' /\ QueueInv'
  BY <1>3, <1>5 DEF Ind, AloneInv, FailInv, QueueInv, Calm, Handled
<1>. QED  BY <1>6, <1>7, <1>8 DEF Ind

LEMMA MonitorTickInd ==
  ASSUME OneJob, TypeInd, Ind, MonitorTick(1)
  PROVE  Ind'
<1>1. job'[1].pc = "ended" /\ job[1].pc = "monitor"
  BY JobIsOne, GoesOf DEF MonitorTick, Ticks, JobPcs, TypeInd, Types
<1>2. UNCHANGED <<isAlive, queue, task, taskMap, fail, run, wq, trouble>> /\ assigned' = <<>> /\ completed' = <<>>
  BY DEF MonitorTick, Ticks, workerVars
<1>3. Range(assigned') = {} /\ Range(completed') = {}
  BY <1>2 DEF Range
<1>4. \A t \in Tasks : Current(t)' = Current(t) /\ ~Done(t)'
  BY <1>2, <1>3 DEF Current, Done
<1>5. FreshInv'
  BY <1>1, <1>2 DEF Ind, FreshInv
<1>6. NumberInv'
  BY <1>2, <1>3, <1>4 DEF Ind, NumberInv
<1>7. AloneInv' /\ FailInv' /\ QueueInv'
  BY <1>2, <1>4 DEF Ind, AloneInv, FailInv, QueueInv, Calm, Handled
<1>. QED  BY <1>5, <1>6, <1>7 DEF Ind

\* What happens at a worker or on the way to it.
LEMMA DeliverInd ==
  ASSUME TypeInd, Ind, NEW r \in DOMAIN run, Deliver(r[1], r[2])
  PROVE  Ind'
<1>1. r = <<r[1], r[2]>> /\ r[2] \in Nodes /\ run[r] \in RunRec
  BY DEF TypeInd, Types, RunTypes
<1>2. /\ wq' = [wq EXCEPT ![r[2]] = Append(@, run[r].id)]
      /\ UNCHANGED <<leaderVars, crashes, joins>>
      /\ Fault \/ NoFault
      /\ Runs(r, "running") \/ run' = Over({r})
  BY <1>1 DEF Deliver
<1>3. \A q \in DOMAIN run' : q \in DOMAIN run /\ run'[q].id = run[q].id
  <2>1. RunTypes /\ "running" \in RunPcs
    BY DEF RunPcs, TypeInd, Types
  <2>2. CASE Runs(r, "running")
    BY <2>1, <2>2, RunsOf
  <2>3. CASE run' = Over({r})
    BY <2>1, <2>3, OverOf
  <2>. QED  BY <1>2, <2>2, <2>3
<1>4. ASSUME NEW n \in Nodes PROVE Range(wq'[n]) \subseteq DOMAIN taskMap
  <2>1. wq \in [Nodes -> Seq(Ids)] /\ run[r].id \in Ids
    BY <1>1 DEF TypeInd, Types, WorkerTypes, RunRec
  <2>2. Range(Append(wq[r[2]], run[r].id)) = Range(wq[r[2]]) \cup {run[r].id}
    BY <1>1, <2>1, AppendOf
  <2>3. wq'[n] = wq[n] \/ (n = r[2] /\ wq'[n] = Append(wq[n], run[r].id))
    BY <1>1, <1>2, <2>1
  <2>4. Range(wq[n]) \subseteq DOMAIN taskMap /\ Range(wq[r[2]]) \subseteq DOMAIN taskMap
        /\ run[r].id \in DOMAIN taskMap
    BY <1>1 DEF Ind, NumberInv
  <2>. QED  BY <2>2, <2>3, <2>4
<1>5. trouble \subseteq trouble'
  BY <1>2, FaultOrNot DEF TypeInd, Types
<1>. QED  BY <1>2, <1>3, <1>4, <1>5, Quiet DEF leaderVars, lists, Ind, NumberInv

LEMMA SendFailsInd ==
  ASSUME TypeInd, Ind, NEW r \in DOMAIN run, SendFails(r[1], r[2])
  PROVE  Ind'
<1>1. run' = Over({<<r[1], r[2]>>}) /\ (Fault \/ NoFault) /\ UNCHANGED <<leaderVars, wq, crashes, joins>>
  BY DEF SendFails
<1>2. \A q \in DOMAIN run' : q \in DOMAIN run /\ run'[q].id = run[q].id
  BY <1>1, OverOf DEF TypeInd, Types
<1>3. trouble \subseteq trouble'
  BY <1>1, FaultOrNot DEF TypeInd, Types
<1>. QED  BY <1>1, <1>2, <1>3, Quiet DEF leaderVars, lists, Ind, NumberInv

LEMMA ReportInd ==
  ASSUME TypeInd, Ind, NEW r \in DOMAIN run, Report(r[1], r[2])
  PROVE  Ind'
<1>1. UNCHANGED <<leaderVars, wq>> /\ trouble \subseteq trouble'
  BY ReportOf, FaultOrNot DEF Report, TypeInd, Types
<1>2. wq \in [Nodes -> Seq(Ids)] /\ r[2] \in Nodes
  BY DEF TypeInd, Types, WorkerTypes, RunTypes
<1>3. DOMAIN run' \subseteq DOMAIN run /\ \A q \in DOMAIN run' : run'[q].id \in DOMAIN taskMap
  <2>1. wq[r[2]] # <<>> => Last(wq[r[2]]) \in DOMAIN taskMap
    BY <1>2, LastOf DEF Ind, NumberInv
  <2>2. \A q \in DOMAIN run : run[q].id \in DOMAIN taskMap
    BY DEF Ind, NumberInv
  <2>3. DOMAIN run' \subseteq DOMAIN run /\ \A q \in DOMAIN run' : q # r => run'[q] = run[q]
    BY ReportOf
  <2>4. r \in DOMAIN run' => run'[r].id = run[r].id \/ (wq[r[2]] # <<>> /\ run'[r].id = Last(wq[r[2]]))
    BY ReportOf
  <2>. QED  BY <2>1, <2>2, <2>3, <2>4
<1>. QED  BY <1>1, <1>3, Quiet DEF leaderVars, lists, Ind, NumberInv

LEMMA UpdateTaskInd ==
  ASSUME TypeInd, Ind, NEW t, NEW n, UpdateTask(t, n)
  PROVE  Ind'
<1>1. UNCHANGED <<isAlive, lists, job, fail, run, wq, crashes, joins>> /\ (Fault \/ NoFault)
  BY DEF UpdateTask
<1>2. trouble \subseteq trouble'
  BY <1>1, FaultOrNot DEF TypeInd, Types
<1>. QED  BY <1>1, <1>2, Quiet DEF lists, Ind, NumberInv

LEMMA CheckedInd ==
  ASSUME TypeInd, Ind, NEW r \in DOMAIN run, Checked(r)
  PROVE  Ind'
<1>1. r[2] \in Nodes /\ wq \in [Nodes -> Seq(Ids)] /\ UNCHANGED <<leaderVars, crashes, joins>>
  BY DEF Checked, TypeInd, Types, RunTypes, WorkerTypes
<1>2. trouble \subseteq trouble'
  <2>1. Fault \/ NoFault
    BY DEF Checked
  <2>. QED  BY <1>1, <2>1, FaultOrNot DEF TypeInd, Types
<1>3. DOMAIN run' \subseteq DOMAIN run /\ \A q \in DOMAIN run' : run'[q].id = run[q].id
  <2>1. CASE run' = Over({r})
    BY <2>1, OverOf DEF TypeInd, Types
  <2>2. CASE run' = [run EXCEPT ![r].pc = "telling", ![r].i = K + 1]
    <3>1. PICK v : v = [run[r] EXCEPT !.pc = "telling", !.i = K + 1]
      OBVIOUS
    <3>2. v.id = run[r].id
      BY <3>1 DEF TypeInd, Types, RunTypes, RunRec
    <3>3. run' = [run EXCEPT ![r] = v]
      BY <2>2, <3>1
    <3>. QED  BY <3>2, <3>3
  <2>. QED  BY <2>1, <2>2 DEF Checked
<1>4. ASSUME NEW n \in Nodes PROVE Range(wq'[n]) \subseteq Range(wq[n])
  <2>1. Range(RemoveFirst(wq[r[2]], run[r].id)) \subseteq Range(wq[r[2]])
    BY <1>1, RemoveFirstOf
  <2>2. wq' = wq \/ wq' = [wq EXCEPT ![r[2]] = RemoveFirst(@, run[r].id)]
    BY DEF Checked
  <2>. QED  BY <1>1, <2>1, <2>2
<1>. QED  BY <1>1, <1>2, <1>3, <1>4, Quiet DEF leaderVars, lists, Ind, NumberInv

LEMMA CrashInd ==
  ASSUME TypeInd, Ind, NEW n \in Nodes, Crash(n)
  PROVE  Ind'
<1>1. UNCHANGED <<leaderVars, trouble>> /\ wq' = [wq EXCEPT ![n] = <<>>] /\ wq \in [Nodes -> Seq(Ids)]
  BY DEF Crash, TypeInd, Types, WorkerTypes
<1>2. PICK R : run' = Over(R)
  BY DEF Crash
<1>3. \A q \in DOMAIN run' : q \in DOMAIN run /\ run'[q] = run[q]
  BY <1>2, OverOf DEF TypeInd, Types
<1>4. Range(<<>>) = {}
  BY DEF Range
<1>5. \A m \in Nodes : wq'[m] = wq[m] \/ Range(wq'[m]) = {}
  BY <1>1, <1>4
<1>. QED  BY <1>1, <1>3, <1>5, Quiet DEF leaderVars, lists, Ind, NumberInv

LEMMA ConnectInd ==
  ASSUME Ind, Connect
  PROVE  Ind'
BY Quiet DEF Connect, lists, Ind, NumberInv


\* A report is counted: the task leaves the queue that has no other one in it, or, with
\* a fault, is lost from CompletedTask.
LEMMA MarkInd ==
  ASSUME TypeInd, Ind, NEW id \in DOMAIN taskMap, DOMAIN run # {},
         \/ MarkCompleted(id)
         \/ /\ taskMap' = Put(taskMap, id, NoTask) /\ UNCHANGED <<queue, completed>>
            /\ "fault" \in trouble',
         UNCHANGED <<isAlive, task, assigned, job, fail>>, trouble \subseteq trouble',
         \A r \in DOMAIN run' : r \in DOMAIN run /\ run'[r].id = run[r].id,
         \A n \in Nodes : Range(wq'[n]) \subseteq DOMAIN taskMap
  PROVE  Ind'
<1>1. QueueTypes /\ MapTypes /\ id \in Ids
  BY DEF TypeInd, Types, MapTypes
<1>2. /\ DOMAIN taskMap' = DOMAIN taskMap /\ taskMap'[id] = NoTask
      /\ \A x \in DOMAIN taskMap : x # id => taskMap'[x] = taskMap[x]
  BY DEF MarkCompleted, Put
<1>3. \A t \in Tasks : Current(t)' <=> Current(t) /\ taskMap[id] # t
  <2>1. ASSUME NEW t \in Tasks, Current(t)' PROVE Current(t) /\ taskMap[id] # t
    <3>1. PICK x \in DOMAIN taskMap : x # id /\ taskMap[x] = t
      BY <1>2, <2>1, Constants DEF Current
    <3>2. task[t].id = x /\ (taskMap[id] = t => task[t].id = id)
      BY <3>1, Constants DEF Ind, NumberInv
    <3>. QED  BY <3>1, <3>2 DEF Current
  <2>2. ASSUME NEW t \in Tasks, Current(t), taskMap[id] # t PROVE Current(t)'
    BY <1>2, <2>2 DEF Current
  <2>. QED  BY <2>1, <2>2
<1>4. FreshInv'
  BY DEF Ind, FreshInv
<1>5. NumberInv'
  <2>1. \A t \in Tasks : Done(t)' => Done(t) \/ taskMap[id] = t
    <3>1. taskMap[id] \in Tasks => Range(Append(completed, taskMap[id])) = Range(completed) \cup {taskMap[id]}
      BY <1>1, AppendOf DEF QueueTypes
    <3>2. taskMap[id] \in Tasks \cup {NoTask}
      BY <1>1 DEF MapTypes
    <3>3. completed' = completed \/ (taskMap[id] # NoTask /\ completed' = Append(completed, taskMap[id]))
      BY DEF MarkCompleted, Marked
    <3>4. ASSUME NEW t \in Tasks, t \in Range(completed') PROVE t \in Range(completed) \/ taskMap[id] = t
      <4>1. CASE completed' = completed
        BY <3>4, <4>1
      <4>2. CASE taskMap[id] # NoTask /\ completed' = Append(completed, taskMap[id])
        BY <3>1, <3>2, <3>4, <4>2
      <4>. QED  BY <3>3, <4>1, <4>2
    <3>. QED  BY <3>4 DEF Done
  <2>2. \A t \in Tasks : Done(t)' => ~Current(t)'
    BY <1>3, <2>1 DEF Ind, NumberInv
  <2>. QED  BY <1>2, <2>2 DEF Ind, NumberInv
<1>6. AloneInv'
  BY <1>3 DEF Ind, AloneInv
<1>7. CASE taskMap[id] = NoTask \/ ~MarkCompleted(id)
  <2>1. UNCHANGED queue
    BY <1>7 DEF MarkCompleted, Marked
  <2>2. \A t \in Tasks : MarkCompleted(id) => (Current(t)' <=> Current(t))
    <3>1. \A t \in Tasks : t # NoTask
      BY Constants
    <3>. QED  BY <1>3, <1>7, <3>1
  <2>3. FailInv'
    BY <2>1 DEF Ind, FailInv
  <2>4. MarkCompleted(id) \/ ~Calm'
    BY DEF Calm
  <2>5. QueueInv'
    BY <2>1, <2>2, <2>4 DEF Ind, QueueInv, Calm, Handled
  <2>. QED  BY <1>4, <1>5, <1>6, <2>3, <2>5 DEF Ind
<1>8. CASE taskMap[id] # NoTask /\ MarkCompleted(id)
  <2>1. PICK t \in Tasks : t = taskMap[id]
    BY <1>1, <1>8 DEF MapTypes
  <2>2. /\ task[t].at = NoNode => queue' = queue
        /\ task[t].at # NoNode => queue' = [queue EXCEPT ![task[t].at] = Removed(@, t)]
    BY <1>8, <2>1 DEF MarkCompleted, Marked
  <2>3. \A n \in Nodes : queue[n] \in Seq(Tasks)
    BY <1>1 DEF QueueTypes
  <2>4. ASSUME NEW n \in Nodes PROVE queue'[n] = queue[n] \/ (n = task[t].at /\ queue'[n] = Removed(queue[n], t))
    BY <1>1, <2>2 DEF QueueTypes
  <2>5. FailInv'
    <3>1. \A n \in Nodes : queue[n] = <<>> => queue'[n] = <<>>
      BY <2>3, <2>4, RemovedOf
    <3>. QED  BY <3>1 DEF Ind, FailInv
  <2>6. QueueInv'
    <3>1. SUFFICES ASSUME Calm'
                   PROVE  /\ \A u \in Tasks : Current(u)' =>
                               \/ isAlive[task[u].at] /\ queue'[task[u].at] = <<u>>
                               \/ ~isAlive[task[u].at] /\ Handled(task[u].at)
                          /\ \A n \in Nodes : \/ queue'[n] = <<>>
                                              \/ \E u \in Tasks : Current(u)' /\ task[u].at = n /\ queue'[n] = <<u>>
      BY DEF QueueInv, Handled
    <3>2. Calm /\ "crowded" \notin trouble
      BY <3>1 DEF Calm
    <3>3. Current(t) /\ task[t].at \in Nodes
      BY <2>1, <3>2 DEF Ind, AloneInv, Current
    <3>4. \A u \in Tasks : Current(u) /\ u # t => task[u].at \in Nodes /\ task[u].at # task[t].at
      BY <3>2, <3>3 DEF Ind, AloneInv
    <3>5. queue'[task[t].at] = <<>>
      <4>1. queue[task[t].at] = <<t>> \/ queue[task[t].at] = <<>>
        BY <3>2, <3>3 DEF Ind, QueueInv, FailInv
      <4>2. Removed(queue[task[t].at], t) = <<>>
        BY <2>3, <3>3, <4>1, RemovedOf
      <4>3. task[t].at # NoNode
        BY <3>3, Constants
      <4>. QED  BY <1>1, <2>2, <3>3, <4>2, <4>3 DEF QueueTypes
    <3>6. ASSUME NEW u \in Tasks, Current(u)'
          PROVE  \/ isAlive[task[u].at] /\ queue'[task[u].at] = <<u>>
                 \/ ~isAlive[task[u].at] /\ Handled(task[u].at)
      <4>1. Current(u) /\ u # t
        BY <1>3, <2>1, <3>6
      <4>. QED  BY <2>4, <3>2, <3>4, <4>1 DEF Ind, QueueInv
    <3>7. ASSUME NEW n \in Nodes
          PROVE  \/ queue'[n] = <<>>
                 \/ \E u \in Tasks : Current(u)' /\ task[u].at = n /\ queue'[n] = <<u>>
      <4>1. CASE n = task[t].at
        BY <3>5, <4>1
      <4>2. CASE n # task[t].at
        <5>1. queue'[n] = queue[n]
          BY <2>4, <4>2
        <5>2. ASSUME NEW u \in Tasks, Current(u), task[u].at = n PROVE Current(u)'
          BY <1>3, <2>1, <4>2, <5>2
        <5>. QED  BY <3>2, <5>1, <5>2 DEF Ind, QueueInv
      <4>. QED  BY <4>1, <4>2
    <3>. QED  BY <3>6, <3>7
  <2>. QED  BY <1>4, <1>5, <1>6, <2>5, <2>6 DEF Ind
<1>. QED  BY <1>7, <1>8

LEMMA NotifiedInd ==
  ASSUME TypeInd, Ind, NEW r \in DOMAIN run, Notified(r)
  PROVE  Ind'
<1>1. run[r].id \in DOMAIN taskMap
  BY DEF Ind, NumberInv
<1>2. \A q \in DOMAIN run' : q \in DOMAIN run /\ run'[q].id = run[q].id
  <2>1. RunTypes /\ Runs(r, "marked") /\ "marked" \in RunPcs
    BY DEF Notified, RunPcs, TypeInd, Types
  <2>. QED  BY <2>1, RunsOf
<1>3. trouble \subseteq trouble'
  <2>1. Fault \/ NoFault
    BY DEF Notified
  <2>. QED  BY <2>1, FaultOrNot DEF Notified, TypeInd, Types
<1>4. \/ MarkCompleted(run[r].id)
      \/ /\ taskMap' = Put(taskMap, run[r].id, NoTask) /\ UNCHANGED <<queue, completed>>
         /\ "fault" \in trouble'
  BY DEF Notified, Fault, Wrong
<1>5. UNCHANGED <<isAlive, task, assigned, job, fail, wq>>
  BY DEF Notified
<1>. QED  BY <1>1, <1>2, <1>3, <1>4, <1>5, MarkInd DEF Ind, NumberInv

LEMMA TellReceiverInd ==
  ASSUME TypeInd, Ind, NEW r \in DOMAIN run, TellReceiver(r)
  PROVE  Ind'
<1>1. PICK x : x = task[assigned[run[r].i]].id
  OBVIOUS
<1>2. x \in DOMAIN taskMap /\ MarkCompleted(x)
  <2>1. assigned[run[r].i] \in Range(assigned)
    BY TellOf DEF Range
  <2>. QED  BY <1>1, <2>1, TellOf DEF Ind, NumberInv
<1>3. \A q \in DOMAIN run' : q \in DOMAIN run /\ run'[q].id = run[q].id
  BY TellOf
<1>4. trouble \subseteq trouble'
  BY TellOf, FaultOrNot DEF TellReceiver, TypeInd, Types
<1>5. \A n \in Nodes : Range(wq'[n]) \subseteq Range(wq[n])
  BY TellOf DEF Lessened
<1>6. UNCHANGED <<isAlive, task, assigned, job, fail>>
  BY DEF TellReceiver
<1>7. \A n \in Nodes : Range(wq'[n]) \subseteq DOMAIN taskMap
  BY <1>5 DEF Ind, NumberInv
<1>. QED  BY <1>2, <1>3, <1>4, <1>6, <1>7, MarkInd

LEMMA PanicsInd ==
  ASSUME OneJob, TypeInd, Ind, Panics
  PROVE  Ind'
<1>1. job'[1].pc = "gone"
  BY JobIsOne DEF Panics, NewJob
<1>2. fail'.pc = "gone" /\ DOMAIN run' = {}
  BY DEF Panics, TypeInd, Types, LeaderTypes, FailRec, EmptyMap
<1>3. UNCHANGED <<isAlive, queue, task, taskMap, assigned, completed, wq>> /\ trouble \subseteq trouble'
  BY DEF Panics, lists
<1>4. \A t \in Tasks : Current(t)' = Current(t) /\ Done(t)' = Done(t)
  BY <1>3 DEF Current, Done
<1>5. FreshInv'
  BY <1>1, <1>2 DEF FreshInv
<1>6. NumberInv'
  BY <1>2, <1>3, <1>4 DEF Ind, NumberInv
<1>7. AloneInv' /\ FailInv'
  BY <1>2, <1>3, <1>4 DEF Ind, AloneInv, FailInv
<1>8. QueueInv'
  BY <1>2, <1>3, <1>4 DEF Ind, QueueInv, Calm, Handled
<1>. QED  BY <1>5, <1>6, <1>7, <1>8 DEF Ind

\* A worker that failed: its tasks are handled next.
LEMMA FailSignalInd ==
  ASSUME TypeInd, Ind, NEW n \in Nodes, FailSignal(n)
  PROVE  Ind'
<1>1. /\ isAlive \in [Nodes -> BOOLEAN] /\ isAlive' = [isAlive EXCEPT ![n] = FALSE]
      /\ queue \in [Nodes -> Seq(Tasks)] /\ queue' = [queue EXCEPT ![n] = <<>>]
      /\ fail.pc = "wait" /\ fail'.pc = "sleep" /\ fail'.n = n
  BY DEF FailSignal, TypeInd, Types, LeaderTypes, QueueTypes
<1>2. UNCHANGED <<task, taskMap, assigned, completed, job, run, wq>>
  BY DEF FailSignal, workerVars
<1>3. trouble \subseteq trouble'
  BY DEF FailSignal, NoFault, Wrong
<1>4. \A t \in Tasks : Current(t)' = Current(t) /\ Done(t)' = Done(t)
  BY <1>2 DEF Current, Done
<1>5. FreshInv'
  BY <1>1, <1>2, <1>4 DEF Ind, FreshInv
<1>6. NumberInv' /\ AloneInv'
  BY <1>2, <1>3, <1>4 DEF Ind, NumberInv, AloneInv
<1>7. FailInv'
  BY <1>1, <1>3 DEF Ind, FailInv
<1>8. QueueInv'
  <2>1. SUFFICES ASSUME Calm'
                 PROVE  /\ \A t \in Tasks : Current(t) =>
                             \/ isAlive'[task[t].at] /\ queue'[task[t].at] = <<t>>
                             \/ ~isAlive'[task[t].at] /\ fail'.n = task[t].at
                        /\ \A m \in Nodes : \/ queue'[m] = <<>>
                                            \/ \E t \in Tasks : Current(t) /\ task[t].at = m /\ queue'[m] = <<t>>
    BY <1>1, <1>2, <1>4 DEF QueueInv, Handled
  <2>2. Calm /\ "crowded" \notin trouble
    BY <1>3, <2>1 DEF Calm
  <2>3. \A t \in Tasks : Current(t) => task[t].at \in Nodes /\ isAlive[task[t].at] /\ queue[task[t].at] = <<t>>
    BY <1>1, <2>2 DEF Ind, QueueInv, AloneInv, Handled
  <2>4. \A m \in Nodes : m # n => isAlive'[m] = isAlive[m] /\ queue'[m] = queue[m]
    BY <1>1
  <2>. QED  BY <1>1, <2>2, <2>3, <2>4 DEF Ind, QueueInv
<1>. QED  BY <1>5, <1>6, <1>7, <1>8 DEF Ind

LEMMA HandleNothingInd ==
  ASSUME TypeInd, Ind, HandleNothing
  PROVE  Ind'
<1>1. fail.pc = "sleep" /\ fail'.pc = "wait"
  BY DEF HandleNothing, Slept, TypeInd, Types, LeaderTypes, FailRec
<1>2. UNCHANGED <<isAlive, queue, task, taskMap, assigned, completed, job, run, wq, trouble>>
  BY DEF HandleNothing, lists, workerVars
<1>3. \A t \in Tasks : Current(t)' = Current(t) /\ Done(t)' = Done(t)
  BY <1>2 DEF Current, Done
<1>4. FreshInv' /\ FailInv'
  BY <1>1, <1>2, <1>3 DEF Ind, FreshInv, FailInv
<1>5. NumberInv' /\ AloneInv'
  BY <1>2, <1>3 DEF Ind, NumberInv, AloneInv
<1>6. \A t \in Tasks : Current(t) => task[t].at # fail.n
  BY Constants DEF HandleNothing, Current
<1>7. QueueInv'
  <2>1. \A t \in Tasks : Current(t) => (Handled(task[t].at) <=> Handled(task[t].at)')
    BY <1>1, <1>2, <1>6 DEF Handled
  <2>2. Calm' <=> Calm
    BY <1>2 DEF Calm
  <2>. QED  BY <1>2, <1>3, <2>1, <2>2 DEF Ind, QueueInv
<1>. QED  BY <1>4, <1>5, <1>7 DEF Ind


LEMMA HandleInd ==
  ASSUME OneJob, TypeInd, Ind, NEW t \in Tasks, Handle(t), job[t[1]].i = 2 * K + 1
  PROVE  Ind'
<1>1. /\ Slept /\ task[t].at = fail.n /\ Current(t) /\ task'[t].id = task[t].id
      /\ \A u \in Tasks : u # t => task'[u] = task[u]
      /\ job'[1].pc = job[1].pc /\ job'[1].i = job[1].i
      /\ (\E w \in Nodes : Moved(t, w)) \/ Stranded(t)
      /\ UNCHANGED <<isAlive, taskMap, assigned, completed, wq>>
  BY HandleOf, JobIsOne
<1>2. fail.pc = "sleep" /\ fail.n \in Nodes /\ fail'.pc = "wait"
  BY HandleOf DEF Slept, TypeInd, Types, LeaderTypes, FailRec
<1>3. queue \in [Nodes -> Seq(Tasks)] /\ MapTypes /\ RunTypes
  BY DEF TypeInd, Types, QueueTypes
<1>4. \A u \in Tasks : (Current(u)' <=> Current(u)) /\ (Done(u)' <=> Done(u)) /\ task'[u].id = task[u].id
  BY <1>1 DEF Current, Done
<1>5. FreshInv'
  <2>1. DOMAIN taskMap # {}
    BY <1>1 DEF Current
  <2>2. job[1].pc # "assign"
    BY <1>1, JobIsOne DEF Slept
  <2>. QED  BY <1>1, <1>2, <1>4, <2>1, <2>2 DEF Ind, FreshInv
<1>6. trouble \subseteq trouble'
  BY <1>1 DEF Moved, Stranded
<1>7. NumberInv'
  <2>1. task[t].id \in DOMAIN taskMap
    BY <1>1, Constants DEF Current, Ind, NumberInv
  <2>2. ASSUME NEW r \in DOMAIN run' PROVE run'[r].id \in DOMAIN taskMap
    <3>1. CASE Stranded(t)
      BY <3>1 DEF Stranded, Ind, NumberInv
    <3>2. ASSUME NEW w \in Nodes, Moved(t, w) PROVE run'[r].id \in DOMAIN taskMap
      <4>1. {<<t, w>>} \in SUBSET (Tasks \X Nodes) /\ Sends({<<t, w>>})
        BY <3>2 DEF Moved
      <4>2. r \in {<<t, w>>} \cup DOMAIN run /\ (r = <<t, w>> => run'[r].id = task[t].id)
            /\ (r # <<t, w>> => run'[r] = run[r])
        BY <1>3, <4>1, SendsOf
      <4>. QED  BY <2>1, <4>2 DEF Ind, NumberInv
    <3>. QED  BY <1>1, <3>1, <3>2
  <2>3. \A id \in DOMAIN taskMap : taskMap[id] # NoTask => taskMap[id] \in Tasks
    BY <1>3 DEF MapTypes
  <2>4. \A u \in Range(assigned) : u \in Tasks
    BY RangeOf DEF TypeInd, Types, QueueTypes
  <2>. QED  BY <1>1, <1>4, <2>2, <2>3, <2>4 DEF Ind, NumberInv
<1>8. CASE Stranded(t)
  <2>1. "crowded" \in trouble' /\ UNCHANGED queue
    BY <1>8 DEF Stranded
  <2>. QED  BY <1>1, <1>2, <1>5, <1>7, <2>1 DEF Ind, AloneInv, QueueInv, FailInv, Calm
<1>9. ASSUME NEW w \in Nodes, Moved(t, w) PROVE Ind'
  <2>1. /\ isAlive[w] /\ queue' = [queue EXCEPT ![w] = Append(@, t)] /\ task'[t].at = w
        /\ trouble' = trouble \cup Spoilt(t, w)
    BY <1>9 DEF Moved
  <2>2. ASSUME "crowded" \notin trouble', NEW u \in Tasks, Current(u), u # t PROVE task[u].at # w
    <3>1. \A x \in Range(taskMap) \ {NoTask, t} : task[x].at # w
      BY <2>1, <2>2, SpoiltOf
    <3>2. u # NoTask /\ u \in Range(taskMap)
      BY <2>2, Constants DEF Current, Range
    <3>. QED  BY <2>2, <3>1, <3>2
  <2>3. AloneInv'
    <3>1. SUFFICES ASSUME "crowded" \notin trouble'
                   PROVE  /\ \A u \in Tasks : Current(u) => task'[u].at \in Nodes
                          /\ \A u, v \in Tasks : Current(u) /\ Current(v) /\ task'[u].at = task'[v].at => u = v
      BY <1>4 DEF AloneInv
    <3>2. \A u \in Tasks : Current(u) /\ u # t => task'[u] = task[u] /\ task[u].at # w /\ task[u].at \in Nodes
      BY <1>1, <1>6, <2>2, <3>1 DEF Ind, AloneInv
    <3>. QED  BY <1>6, <2>1, <3>1, <3>2 DEF Ind, AloneInv
  <2>4. FailInv'
    BY <1>1, <1>2, <1>3, <2>1 DEF Ind, FailInv
  <2>5. QueueInv'
    <3>1. SUFFICES ASSUME Calm'
                   PROVE  /\ \A u \in Tasks : Current(u) => isAlive[task'[u].at] /\ queue'[task'[u].at] = <<u>>
                          /\ \A n \in Nodes : \/ queue'[n] = <<>>
                                              \/ \E u \in Tasks : Current(u) /\ task'[u].at = n /\ queue'[n] = <<u>>
      BY <1>1, <1>4 DEF QueueInv
    <3>2. Calm /\ "crowded" \notin trouble' /\ "crowded" \notin trouble /\ ~isAlive[fail.n]
      BY <1>2, <1>6, <3>1 DEF Calm, Ind, FailInv
    <3>3. w # fail.n
      BY <2>1, <3>2
    <3>4. ASSUME NEW u \in Tasks, Current(u), u # t
          PROVE  task'[u] = task[u] /\ task[u].at # w /\ isAlive[task[u].at] /\ queue[task[u].at] = <<u>>
      <4>1. task'[u] = task[u] /\ task[u].at # w /\ task[u].at # fail.n
        BY <1>1, <2>2, <3>2, <3>4 DEF Ind, AloneInv
      <4>. QED  BY <1>2, <3>2, <3>4, <4>1 DEF Ind, QueueInv, Handled
    <3>5. queue[w] = <<>>
      BY <1>1, <2>2, <3>2, <3>3 DEF Ind, QueueInv
    <3>6. queue'[w] = <<t>> /\ \A n \in Nodes : n # w => queue'[n] = queue[n]
      BY <1>3, <2>1, <3>5
    <3>7. ASSUME NEW u \in Tasks, Current(u) PROVE isAlive[task'[u].at] /\ queue'[task'[u].at] = <<u>>
      <4>1. CASE u = t
        BY <2>1, <3>6, <4>1
      <4>2. CASE u # t
        <5>1. task[u].at \in Nodes
          BY <3>2, <3>7 DEF Ind, AloneInv
        <5>. QED  BY <3>4, <3>6, <3>7, <4>2, <5>1
      <4>. QED  BY <4>1, <4>2
    <3>8. ASSUME NEW n \in Nodes
          PROVE  \/ queue'[n] = <<>>
                 \/ \E u \in Tasks : Current(u) /\ task'[u].at = n /\ queue'[n] = <<u>>
      <4>1. CASE n = w
        BY <1>1, <2>1, <3>6, <4>1
      <4>2. CASE n # w
        <5>1. queue'[n] = queue[n]
          BY <3>6, <4>2
        <5>2. queue[n] = <<>> \/ \E u \in Tasks : Current(u) /\ task[u].at = n /\ queue[n] = <<u>>
          BY <3>2 DEF Ind, QueueInv
        <5>3. ASSUME NEW u \in Tasks, Current(u), task[u].at = n, queue[n] = <<u>>
              PROVE  u # t
          <6>1. u = t => n = fail.n
            BY <1>1, <5>3
          <6>2. ~isAlive[n] => queue[n] = <<>>
            BY DEF Ind, FailInv
          <6>3. u = t => queue[n] = <<>>
            BY <3>2, <6>1, <6>2
          <6>. QED  BY <5>3, <6>3
        <5>. QED  BY <1>1, <5>1, <5>2, <5>3
      <4>. QED  BY <4>1, <4>2
    <3>. QED  BY <3>7, <3>8
  <2>. QED  BY <1>5, <1>7, <2>3, <2>4, <2>5 DEF Ind
<1>. QED  BY <1>1, <1>8, <1>9

LEMMA JoinInd ==
  ASSUME OneJob, TypeInd, Ind, NEW n \in Nodes, Join(n)
  PROVE  Ind'
<1>1. /\ UNCHANGED <<queue, task, taskMap, assigned, completed, job, fail, wq, run>>
      /\ isAlive' = [isAlive EXCEPT ![n] = TRUE] /\ isAlive \in [Nodes -> BOOLEAN]
      /\ trouble \subseteq trouble'
  BY DEF Join, lists, TypeInd, Types, LeaderTypes
<1>2. "hurried" \notin trouble' => ~isAlive[n] /\ ~(fail.pc = "sleep" /\ fail.n = n)
  BY DEF Join, TypeInd, Types, LeaderTypes, FailRec
<1>3. fail.pc # "gone"
  <2>1. job[1].pc \in {"create", "assign", "monitor"}
    BY JobIsOne DEF Join, Underway
  <2>. QED  BY <2>1 DEF Ind, FreshInv
<1>4. \A t \in Tasks : Current(t)' = Current(t) /\ Done(t)' = Done(t)
  BY <1>1 DEF Current, Done
<1>5. FreshInv' /\ NumberInv'
  BY <1>1, <1>4 DEF Ind, FreshInv, NumberInv
<1>6. AloneInv'
  BY <1>1, <1>4 DEF Ind, AloneInv
<1>7. FailInv'
  BY <1>1, <1>2 DEF Ind, FailInv
<1>8. QueueInv'
  <2>1. SUFFICES ASSUME Calm'
                 PROVE  /\ \A t \in Tasks : Current(t) =>
                             \/ isAlive'[task[t].at] /\ queue[task[t].at] = <<t>>
                             \/ ~isAlive'[task[t].at] /\ Handled(task[t].at)
                        /\ \A m \in Nodes : \/ queue[m] = <<>>
                                            \/ \E t \in Tasks : Current(t) /\ task[t].at = m /\ queue[m] = <<t>>
    BY <1>1, <1>4 DEF QueueInv, Handled
  <2>2. Calm /\ "crowded" \notin trouble /\ ~isAlive[n] /\ ~Handled(n)
    BY <1>1, <1>2, <1>3, <2>1 DEF Calm, Handled
  <2>3. \A t \in Tasks : Current(t) => task[t].at \in Nodes /\ task[t].at # n
    BY <2>2 DEF Ind, QueueInv, AloneInv
  <2>. QED  BY <1>1, <2>2, <2>3 DEF Ind, QueueInv
<1>. QED  BY <1>5, <1>6, <1>7, <1>8 DEF Ind

LEMMA IndStep ==
  ASSUME OneJob, TypeInd, Ind, [Next]_vars
  PROVE  Ind'
<1>1. ASSUME NEW j \in Jobs, Creator(j) \/ Submit(j) PROVE Ind'
  <2>1. j = 1
    BY JobIsOne
  <2>. QED  BY <1>1, <2>1, SubmitInd, CreateJobInd, AssignInd, SendAllInd, MonitorTickInd DEF Creator
<1>2. ASSUME NEW r \in DOMAIN run, Deliver(r[1], r[2]) \/ SendFails(r[1], r[2]) \/ Report(r[1], r[2])
      PROVE  Ind'
  BY <1>2, DeliverInd, SendFailsInd, ReportInd
<1>3. ASSUME NEW r \in DOMAIN run, Notified(r) \/ Checked(r) \/ TellReceiver(r) \/ TellPanics(r)
      PROVE  Ind'
  BY <1>3, NotifiedInd, CheckedInd, TellReceiverInd, PanicsInd DEF TellPanics
<1>4. ASSUME NEW u \in updates, UpdateTask(u[1], u[2]) PROVE Ind'
  BY <1>4, UpdateTaskInd
<1>5. ASSUME NEW n \in Nodes, FailSignal(n) \/ Crash(n) \/ Join(n) PROVE Ind'
  BY <1>5, FailSignalInd, CrashInd, JoinInd
<1>6. ASSUME NEW t \in Tasks, Handle(t) PROVE Ind'
  BY <1>6, HandleInd, PanicsInd DEF Handle
<1>7. CASE HandleNothing \/ Connect
  BY <1>7, HandleNothingInd, ConnectInd
<1>8. CASE UNCHANGED vars
  <2>1. UNCHANGED <<leaderVars, wq, run, trouble>>
    BY <1>8 DEF vars, workerVars
  <2>. QED  BY <2>1, Quiet DEF leaderVars, lists, Ind, NumberInv
<1>. QED  BY <1>1, <1>2, <1>3, <1>4, <1>5, <1>6, <1>7, <1>8 DEF Next, Progress, Operator, Environment

LEMMA Inductive ==
  ASSUME OneJob
  PROVE  Spec => []Ind
<1>1. Init => Ind
  BY InitInd
<1>2. TypeInd /\ Ind /\ [Next]_vars => Ind'
  BY IndStep
<1>. QED  BY <1>1, <1>2, Typing, PTL DEF Spec

\* While there is one job, the leader's queues, by which it balances the load, agree
\* with its tasks (utils-leader.go:18-75,191-211, leader.go:435-450): each task that is
\* not completed is where the leader thinks, or its worker's failure is being handled,
\* and no queue holds anything else.
THEOREM QueuesRight ==
  ASSUME NumJobs = 1
  PROVE  Spec => []QueuesAgree
<1>1. OneJob
  BY DEF OneJob
<1>2. TypeInd /\ Ind => QueuesAgree
  <2>1. SUFFICES ASSUME TypeInd, Ind, Calm
                 PROVE  /\ \A t \in Tasks : Current(t) =>
                             \/ t \in Range(queue[task[t].at])
                             \/ ~isAlive[task[t].at] \/ fail = [pc |-> "sleep", n |-> task[t].at]
                        /\ \A n \in Nodes : \A t \in Range(queue[n]) : Current(t) /\ task[t].at = n
    BY DEF QueuesAgree, Calm
  <2>2. Range(<<>>) = {} /\ \A t : Range(<<t>>) = {t}
    BY DEF Range
  <2>3. ASSUME NEW t \in Tasks, Current(t), isAlive[task[t].at] PROVE t \in Range(queue[task[t].at])
    <3>1. queue[task[t].at] = <<t>>
      BY <2>1, <2>3 DEF Ind, QueueInv
    <3>. QED  BY <2>2, <3>1
  <2>4. ASSUME NEW n \in Nodes, NEW t \in Range(queue[n]) PROVE Current(t) /\ task[t].at = n
    <3>1. PICK u \in Tasks : Current(u) /\ task[u].at = n /\ queue[n] = <<u>>
      BY <2>1, <2>2, <2>4 DEF Ind, QueueInv
    <3>. QED  BY <2>2, <2>4, <3>1
  <2>. QED  BY <2>3, <2>4
<1>. QED  BY <1>1, <1>2, Inductive, Typing, PTL


-----------------------------------------------------------------------------
(***************************************************************************)
(* The second invariant: what the lists, the runs and CompletedTask have   *)
(* to do with each other, as long as no worker was taken for failed that   *)
(* ran, none had two tasks and none came back before its failure was       *)
(* handled.  Then a task that is not completed has one run at most, at the *)
(* worker the leader thinks.  Lost calls do not matter.                    *)
(***************************************************************************)
Sound == trouble \cap {"doubted", "crowded", "hurried"} = {}
Given1(t) == job[1].pc \in {"monitor", "ended"} \/ (job[1].pc = "assign" /\ t[2] < job[1].i)
Listing(q) == \A x \in DOMAIN q : q[x] = <<1, x>>

\* The i-th task of the job is the i-th in the lists, and has id i.
ListsInv ==
  /\ job[1].ok
  /\ job[1].pc = "assign" => /\ DOMAIN taskMap = 1 .. job[1].i - 1 /\ Listing(taskMap)
                             /\ Len(assigned) = job[1].i - 1 /\ Len(jobTasks[1]) = job[1].i - 1
  /\ job[1].pc = "monitor" => Len(assigned) = 2 * K /\ Len(jobTasks[1]) = 2 * K
  /\ job[1].pc = "ended" => assigned = <<>> /\ \A t \in Tasks : ~Current(t)
  /\ Listing(assigned) /\ Listing(jobTasks[1])
  /\ \A t \in Tasks : Given1(t) => task[t].id = t[2]
  /\ fail.pc = "sleep" => ~up[fail.n]

NoSender == \A t \in Tasks : t[2] \in Stage1 => ~Current(t)
Here(r) == Current(r[1]) /\ task[r[1]].at = r[2]

\* Tasks are sent and run where the leader thinks they are.
RunInv(r) ==
  /\ run[r].id = r[1][2]
  /\ run[r].pc # "sending" => r[1][2] \in Stage1
  /\ run[r].pc \in {"sending", "running"} => Here(r) \/ (r[1][2] \in Stage2 /\ NoSender)
  /\ run[r].pc = "running" => up[r[2]] /\ wq[r[2]] # <<>> /\ Last(wq[r[2]]) = run[r].id
  /\ run[r].pc = "called" /\ Current(r[1]) => task[r[1]].at = r[2]
  /\ run[r].pc \in {"marked", "telling"} => ~Current(r[1])
RunsInv == \A r \in DOMAIN run : RunInv(r)

\* The receivers are told after all senders have reported.
SendersDone == \A t \in Tasks : t[2] \in Stage1 => Done(t)
DonesInv ==
  /\ \A t \in Tasks : Done(t) /\ t[2] \in Stage2 => SendersDone
  /\ assigned # <<>> => \A r \in DOMAIN run : run[r].pc = "telling" => SendersDone
Good == ListsInv /\ RunsInv /\ DonesInv

LEMMA Stages ==
  ASSUME NEW i \in 1 .. 2 * K
  PROVE  /\ i \in Int /\ (i \in Stage1 \/ i \in Stage2)
         /\ ~(i \in Stage1 /\ i \in Stage2)
BY Sizes DEF Stage1, Stage2

\* A run of a task: while there are any, the job is under way or has ended.
LEMMA RunOf ==
  ASSUME TypeInd, Ind, OneJob, NEW r \in DOMAIN run
  PROVE  /\ r[1] \in Tasks /\ r[2] \in Nodes /\ r = <<r[1], r[2]>> /\ r[1][2] \in 1 .. 2 * K
         /\ run[r].pc \in RunPcs
         /\ job[1].pc \in {"monitor", "ended"}
<1>1. r \in Tasks \X Nodes /\ run[r] \in RunRec
  BY DEF TypeInd, Types, RunTypes
<1>2. job[1].pc \in JobPcs
  BY JobIsOne DEF TypeInd, Types, JobTypes, JobRec
<1>3. job[1].pc \in {"monitor", "ended"}
  BY <1>2 DEF Ind, FreshInv, JobPcs
<1>. QED  BY <1>1, <1>3, JobIsOne DEF RunRec

\* By their ids the tasks can be told apart.
LEMMA Numbers ==
  ASSUME OneJob, TypeInd, Ind, ListsInv, job[1].pc \in {"monitor", "ended"}
  PROVE  /\ \A t \in Tasks : task[t].id = t[2]
         /\ \A t, u \in Tasks : SameId(t, u) => t = u
         /\ \A t \in Tasks, x \in DOMAIN taskMap : taskMap[x] = t => x = t[2]
<1>1. \A t \in Tasks : task[t].id = t[2]
  BY DEF ListsInv, Given1
<1>2. \A t, u \in Tasks : SameId(t, u) => t = u
  BY <1>1, JobIsOne DEF SameId
<1>3. \A t \in Tasks, x \in DOMAIN taskMap : taskMap[x] = t => x = t[2]
  BY <1>1, Constants DEF Ind, NumberInv
<1>. QED  BY <1>1, <1>2, <1>3

LEMMA InitGood == ASSUME OneJob, Init PROVE Good
<1>1. DOMAIN EmptyMap = {} /\ Range(<<>>) = {} /\ DOMAIN <<>> = {}
  BY DEF EmptyMap, Range
<1>2. job[1].pc = "new" /\ job[1].ok /\ fail.pc = "wait" /\ jobTasks[1] = <<>>
  BY JobIsOne DEF Init, NewJob
<1>3. ListsInv
  BY <1>1, <1>2 DEF Init, ListsInv, Listing, Given1
<1>. QED  BY <1>1, <1>3 DEF Init, Good, RunsInv, DonesInv, Done

\* Before the job is sent there is nothing to say of runs and of what is done.
LEMMA EarlyGood ==
  ASSUME completed' = <<>>, DOMAIN run' = {}
  PROVE  RunsInv' /\ DonesInv'
<1>1. Range(completed') = {}
  BY DEF Range
<1>. QED  BY <1>1 DEF RunsInv, DonesInv, Done

LEMMA SubmitGood ==
  ASSUME OneJob, TypeInd, Ind, Good, Submit(1)
  PROVE  Good'
<1>1. job[1].pc = "new" /\ job'[1].pc = "create" /\ job'[1].ok = job[1].ok
  <2>1. JobTypes /\ Goes(1, "create") /\ job[1].pc = "new"
    BY DEF Submit, TypeInd, Types
  <2>. QED  BY <2>1, JobIsOne, GoesOf DEF JobPcs
<1>2. UNCHANGED <<task, taskMap, assigned, completed, jobTasks, fail, run, up>>
  BY DEF Submit, lists, workerVars
<1>3. ListsInv'
  BY <1>1, <1>2 DEF Good, ListsInv, Listing, Given1
<1>4. completed' = <<>> /\ DOMAIN run' = {}
  BY <1>1, <1>2 DEF Ind, FreshInv
<1>. QED  BY <1>3, <1>4, EarlyGood DEF Good

LEMMA CreateJobGood ==
  ASSUME OneJob, TypeInd, Ind, Good, CreateJob(1)
  PROVE  Good'
<1>1. job[1].pc = "create" /\ DOMAIN run = {} /\ completed = <<>> /\ job[1].i = 1
  BY JobIsOne DEF CreateJob, Ind, FreshInv, TypeInd, OrderInv
<1>2. PICK pc \in {"assign", "refused"} :
        /\ Goes(1, pc)
        /\ pc = "assign" => taskMap' = EmptyMap /\ assigned' = <<>> /\ completed' = <<>>
                            /\ jobTasks' = [i \in Jobs |-> <<>>]
        /\ pc = "refused" => UNCHANGED <<taskMap, assigned, completed, jobTasks>>
  BY DEF CreateJob
<1>3. job'[1].pc = pc /\ job'[1].i = 1 /\ job'[1].ok = job[1].ok
  BY <1>1, <1>2, JobIsOne, GoesOf DEF JobPcs, TypeInd, Types
<1>4. UNCHANGED <<task, fail, run, up>>
  BY DEF CreateJob, workerVars
<1>5. CASE pc = "assign"
  <2>1. DOMAIN EmptyMap = {} /\ 1 .. 1 - 1 = {} /\ DOMAIN <<>> = {} /\ Len(<<>>) = 0
    BY DEF EmptyMap
  <2>2. jobTasks'[1] = <<>>
    BY <1>2, <1>5, JobIsOne
  <2>3. \A t \in Tasks : ~(t[2] < 1)
    BY JobIsOne
  <2>4. ListsInv'
    BY <1>2, <1>3, <1>4, <1>5, <2>1, <2>2, <2>3 DEF Good, ListsInv, Listing, Given1
  <2>. QED  BY <1>1, <1>2, <1>4, <1>5, <2>4, EarlyGood DEF Good
<1>6. CASE pc = "refused"
  <2>1. ListsInv'
    BY <1>2, <1>3, <1>4, <1>6 DEF Good, ListsInv, Listing, Given1
  <2>. QED  BY <1>1, <1>2, <1>4, <1>6, <2>1, EarlyGood DEF Good
<1>. QED  BY <1>5, <1>6

LEMMA AssignGood ==
  ASSUME OneJob, TypeInd, Ind, Good, AssignStage1(1) \/ AssignStage2(1), Sound'
  PROVE  Good'
<1>1. JobTypes /\ QueueTypes /\ MapTypes
  BY DEF TypeInd, Types
<1>2. /\ job'[1].pc = "assign" /\ job'[1].i = job[1].i + 1 /\ job[1].i \in 1 .. 2 * K
      /\ job'[1].ok = job[1].ok \/ "crowded" \in trouble'
  BY <1>1, JobIsOne, AssignOf
<1>3. PICK t \in Tasks, w \in Nodes : Assigns(1, t, w)
  BY <1>1, JobIsOne, AssignOf
<1>4. job[1].pc = "assign" /\ t = <<1, job[1].i>> /\ DOMAIN run = {} /\ completed = <<>>
      /\ UNCHANGED <<completed, fail, run, up>>
  BY <1>3 DEF Assigns, workerVars, Ind, FreshInv
<1>5. PICK i \in Nat : i = job[1].i /\ job'[1].i = i + 1 /\ 1 .. i = 1 .. i - 1 \cup {i} /\ i + 1 - 1 = i /\ i - 1 + 1 = i
                       /\ i - 1 \in Nat
  BY <1>2
<1>6. Listed(t) /\ "crowded" \notin trouble'
  BY <1>3 DEF Assigns, Waits, Sound
<1>7. NextId = i
  BY <1>4, <1>5, NextIs DEF Good, ListsInv
<1>8. task'[t].id = i /\ \A u \in Tasks : u # t => task'[u] = task[u]
  BY <1>1, <1>3, <1>7 DEF Assigns, MapTypes
<1>9. DOMAIN taskMap' = 1 .. i /\ Listing(taskMap)'
  BY <1>4, <1>5, <1>6, <1>7 DEF Listed, Put, Good, ListsInv, Listing
<1>10. Len(assigned') = i /\ Listing(assigned)'
  <2>1. assigned \in Seq(Tasks) /\ assigned' = Append(assigned, t) /\ Len(assigned) = i - 1
    BY <1>1, <1>4, <1>5, <1>6 DEF Listed, QueueTypes, Good, ListsInv
  <2>. QED  BY <1>4, <1>5, <2>1, AppendOf DEF Good, ListsInv, Listing
<1>11. Len(jobTasks'[1]) = i /\ Listing(jobTasks[1])'
  <2>1. jobTasks[1] \in Seq(Tasks) /\ jobTasks'[1] = Append(jobTasks[1], t) /\ Len(jobTasks[1]) = i - 1
    BY <1>1, <1>3, <1>4, <1>5, JobIsOne DEF Assigns, QueueTypes, Good, ListsInv
  <2>. QED  BY <1>4, <1>5, <2>1, AppendOf DEF Good, ListsInv, Listing
<1>12. \A u \in Tasks : Given1(u)' => task'[u].id = u[2]
  <2>1. ASSUME NEW u \in Tasks, Given1(u)' PROVE task'[u].id = u[2]
    <3>1. u[2] \in Int /\ u[2] < i + 1
      BY <1>2, <1>5, <2>1, JobIsOne DEF Given1
    <3>2. t[2] = i
      BY <1>4, <1>5
    <3>3. CASE u = t
      BY <1>8, <3>2, <3>3
    <3>4. CASE u # t
      <4>1. u[2] < i
        BY <1>5, <3>1, <3>2, <3>4, JobIsOne
      <4>. QED  BY <1>4, <1>5, <1>8, <3>4, <4>1 DEF Good, ListsInv, Given1
    <3>. QED  BY <3>3, <3>4
  <2>. QED  BY <2>1
<1>13. ListsInv'
  <2>1. job'[1].ok /\ (fail'.pc = "sleep" => ~up'[fail'.n])
    BY <1>2, <1>4, <1>6 DEF Good, ListsInv
  <2>. QED  BY <1>2, <1>5, <1>9, <1>10, <1>11, <1>12, <2>1 DEF ListsInv, Listing
<1>. QED  BY <1>4, <1>13, EarlyGood DEF Good


LEMMA SendAllGood ==
  ASSUME OneJob, TypeInd, Ind, Good, SendAll(1)
  PROVE  Good'
<1>1. JobTypes /\ QueueTypes /\ MapTypes /\ RunTypes /\ job[1].pc = "assign" /\ Goes(1, "monitor")
  BY DEF SendAll, TypeInd, Types
<1>2. job'[1].pc = "monitor" /\ job'[1].ok = job[1].ok /\ job[1].i \in 1 .. 2 * K + 1
  BY <1>1, JobIsOne, GoesOf DEF JobPcs, JobTypes, JobRec
<1>3. UNCHANGED <<task, taskMap, assigned, completed, jobTasks, fail, up>> /\ completed = <<>> /\ DOMAIN run = {}
  BY <1>1 DEF SendAll, lists, Ind, FreshInv
<1>4. Len(assigned) = job[1].i - 1 /\ Len(jobTasks[1]) = job[1].i - 1 /\ job[1].ok
      /\ DOMAIN taskMap = 1 .. job[1].i - 1 /\ Listing(taskMap) /\ Listing(assigned)
  BY <1>1 DEF Good, ListsInv
<1>5. job[1].i = 2 * K + 1
  <2>1. job[1].i > K => assigned # <<>>
    BY <1>2, <1>4, Sizes
  <2>. QED  BY <1>4, <2>1 DEF SendAll
<1>6. Len(assigned) = 2 * K /\ Len(jobTasks[1]) = 2 * K
  BY <1>4, <1>5, Sizes
<1>7. \A t \in Tasks : task[t].id = t[2]
  BY <1>1, <1>5, JobIsOne, Sizes DEF Good, ListsInv, Given1
<1>8. ListsInv'
  BY <1>1, <1>2, <1>3, <1>4, <1>6, <1>7 DEF Good, ListsInv, Listing
<1>9. ASSUME NEW r \in DOMAIN run' PROVE RunInv(r)' /\ run'[r].pc = "sending"
  <2>1. Range(assigned) \subseteq Tasks /\ \A t \in Range(assigned) : task[t].at \in Nodes
    BY <1>1, JobIsOne, RangeOf DEF QueueTypes, TypeInd, PlaceInv
  <2>2. PICK R \in SUBSET (Tasks \X Nodes) :
          Sends(R) /\ \A q \in R : q[1] \in Range(assigned) /\ q[2] = task[q[1]].at
    <3>1. {<<t, task[t].at>> : t \in Range(assigned)} \in SUBSET (Tasks \X Nodes)
      BY <2>1
    <3>2. \A q \in {<<t, task[t].at>> : t \in Range(assigned)} : q[1] \in Range(assigned) /\ q[2] = task[q[1]].at
      OBVIOUS
    <3>. QED  BY <1>5, <3>1, <3>2 DEF SendAll
  <2>3. r \in R /\ run'[r].pc = "sending" /\ run'[r].id = task[r[1]].id
    BY <1>1, <1>3, <2>2, SendsOf
  <2>4. r[1] \in Range(assigned) /\ r[1] \in Tasks /\ r[2] = task[r[1]].at
    BY <2>1, <2>2, <2>3
  <2>5. Current(r[1])
    <3>1. PICK x \in DOMAIN assigned : assigned[x] = r[1]
      BY <2>4 DEF Range
    <3>2. x \in DOMAIN taskMap /\ assigned[x] = <<1, x>> /\ taskMap[x] = <<1, x>>
      BY <1>1, <1>4, <3>1 DEF Listing, QueueTypes
    <3>. QED  BY <3>1, <3>2 DEF Current
  <2>. QED  BY <1>3, <1>7, <2>3, <2>4, <2>5 DEF RunInv, Here, Current
<1>10. Range(completed') = {}
  BY <1>3 DEF Range
<1>. QED  BY <1>8, <1>9, <1>10 DEF Good, RunsInv, DonesInv, Done

\* Unless all tasks are done the monitor goes on.
LEMMA TickMeansDone ==
  ASSUME OneJob, TypeInd, Ind, Good, MonitorTick(1)
  PROVE  \A t \in Tasks : Done(t) /\ ~Current(t)
<1>1. job[1].pc = "monitor" /\ \A t \in Range(jobTasks[1]) : checkIfTaskCompleted(t)
  BY DEF MonitorTick, Ticks
<1>2. jobTasks[1] \in Seq(Tasks) /\ completed \in Seq(Tasks) /\ Len(jobTasks[1]) = 2 * K /\ Listing(jobTasks[1])
  BY <1>1, JobIsOne DEF TypeInd, Types, QueueTypes, Good, ListsInv
<1>3. ASSUME NEW t \in Tasks PROVE Done(t)
  <2>1. t[2] \in DOMAIN jobTasks[1] /\ jobTasks[1][t[2]] = t
    BY <1>2, JobIsOne DEF Listing
  <2>2. PICK c \in Range(completed) : SameId(t, c)
    BY <1>1, <2>1 DEF checkIfTaskCompleted, Range
  <2>3. c \in Tasks
    BY <1>2, RangeOf
  <2>. QED  BY <1>1, <2>2, <2>3, Numbers DEF Done, Good
<1>. QED  BY <1>3 DEF Ind, NumberInv

LEMMA MonitorTickGood ==
  ASSUME OneJob, TypeInd, Ind, Good, MonitorTick(1)
  PROVE  Good'
<1>1. job'[1].pc = "ended" /\ job[1].pc = "monitor" /\ job'[1].ok = job[1].ok
  BY JobIsOne, GoesOf DEF MonitorTick, Ticks, JobPcs, TypeInd, Types
<1>2. /\ UNCHANGED <<task, taskMap, fail, up, wq, run>> /\ assigned' = <<>> /\ completed' = <<>>
      /\ jobTasks'[1] = <<>>
  BY JobIsOne DEF MonitorTick, Ticks, workerVars, TypeInd, Types, QueueTypes
<1>3. Range(completed') = {} /\ DOMAIN <<>> = {}
  BY <1>2 DEF Range
<1>4. \A t \in Tasks : Current(t)' = Current(t) /\ ~Done(t)'
  BY <1>2, <1>3 DEF Current, Done
<1>5. ListsInv'
  BY <1>1, <1>2, <1>3, <1>4, TickMeansDone DEF Good, ListsInv, Listing, Given1
<1>6. RunsInv'
  <2>1. ASSUME NEW r \in DOMAIN run PROVE RunInv(r)'
    BY <1>2, <1>4, RunOf DEF Good, RunsInv, RunInv, Here, NoSender
  <2>. QED  BY <1>2, <2>1 DEF RunsInv
<1>7. DonesInv'
  BY <1>2, <1>4 DEF DonesInv
<1>. QED  BY <1>5, <1>6, <1>7 DEF Good

\* A step that leaves the leader's lists alone.
LEMMA QuietGood ==
  ASSUME Good, UNCHANGED <<task, taskMap, assigned, completed, jobTasks, fail>>,
         job'[1].pc = job[1].pc, job'[1].i = job[1].i, job'[1].ok = job[1].ok,
         \A n \in Nodes : up'[n] => up[n], fail.n \in Nodes,
         \A r \in DOMAIN run' : RunInv(r)',
         \A r \in DOMAIN run' : run'[r].pc = "telling" =>
           SendersDone \/ (r \in DOMAIN run /\ run[r].pc = "telling")
  PROVE  Good'
<1>1. \A t \in Tasks : Current(t)' = Current(t) /\ Done(t)' = Done(t)
  BY DEF Current, Done
<1>2. ListsInv'
  BY <1>1 DEF Good, ListsInv, Listing, Given1
<1>3. DonesInv'
  BY <1>1 DEF Good, DonesInv, SendersDone
<1>. QED  BY <1>2, <1>3 DEF Good, RunsInv

\* A run that is left alone, at a worker whose last id stays if it is running.
LEMMA SameRun ==
  ASSUME OneJob, TypeInd, Ind, Good, UNCHANGED <<task, taskMap>>,
         NEW r \in DOMAIN run, run'[r] = run[r],
         run[r].pc = "running" => up'[r[2]] /\ wq'[r[2]] # <<>> /\ Last(wq'[r[2]]) = Last(wq[r[2]])
  PROVE  RunInv(r)'
<1>1. \A t \in Tasks : Current(t)' = Current(t)
  BY DEF Current
<1>2. r[1] \in Tasks /\ RunInv(r)
  BY RunOf DEF Good, RunsInv
<1>3. NoSender' = NoSender /\ Here(r)' = Here(r)
  BY <1>1, <1>2 DEF NoSender, Here
<1>. QED  BY <1>1, <1>2, <1>3 DEF RunInv


LEMMA DeliverGood ==
  ASSUME OneJob, TypeInd, Ind, Good, Sound, NEW r \in DOMAIN run, Deliver(r[1], r[2])
  PROVE  Good'
<1>1. r[1] \in Tasks /\ r[2] \in Nodes /\ r = <<r[1], r[2]>> /\ r[1][2] \in 1 .. 2 * K
  BY RunOf
<1>2. /\ run[r].pc = "sending" /\ up[r[2]] /\ wq' = [wq EXCEPT ![r[2]] = Append(@, run[r].id)]
      /\ UNCHANGED <<leaderVars, up>>
      /\ (r[1][2] \in Stage1 /\ Runs(r, "running")) \/ run' = Over({r})
  BY <1>1 DEF Deliver, Is
<1>3. wq \in [Nodes -> Seq(Ids)] /\ run[r].id \in Ids
  BY DEF TypeInd, Types, WorkerTypes, RunTypes, RunRec
<1>4. /\ Append(wq[r[2]], run[r].id) # <<>> /\ Last(Append(wq[r[2]], run[r].id)) = run[r].id
      /\ wq'[r[2]] = Append(wq[r[2]], run[r].id)
      /\ \A n \in Nodes : n # r[2] => wq'[n] = wq[n]
  BY <1>1, <1>2, <1>3, AppendOf
<1>5. UNCHANGED <<task, taskMap, assigned, completed, jobTasks, fail, job>>
  BY <1>2 DEF leaderVars, lists
<1>6. \A q \in DOMAIN run' : /\ q \in DOMAIN run /\ (q # r => run'[q] = run[q])
                             /\ q = r => run'[q].pc = "running" /\ run'[q].id = run[q].id /\ q[1][2] \in Stage1
  <2>1. RunTypes /\ "running" \in RunPcs
    BY DEF RunPcs, TypeInd, Types
  <2>2. CASE r[1][2] \in Stage1 /\ Runs(r, "running")
    BY <2>1, <2>2, RunsOf
  <2>3. CASE run' = Over({r})
    BY <2>1, <2>3, OverOf
  <2>. QED  BY <1>2, <2>2, <2>3
<1>7. RunInv(r) /\ (r[1][2] \in Stage1 => Here(r))
  BY <1>1, <1>2, Stages DEF Good, RunsInv, RunInv
<1>8. ASSUME NEW q \in DOMAIN run' PROVE RunInv(q)'
  <2>1. CASE q = r
    <3>1. Here(r)' = Here(r)
      BY <1>5 DEF Here, Current
    <3>. QED  BY <1>2, <1>4, <1>6, <1>7, <2>1, <3>1 DEF RunInv
  <2>2. CASE q # r
    <3>1. q \in DOMAIN run /\ q[1] \in Tasks /\ q[2] \in Nodes /\ q = <<q[1], q[2]>> /\ RunInv(q) /\ q[1][2] \in 1 .. 2 * K
      BY <1>6, RunOf DEF Good, RunsInv
    <3>2. ASSUME run[q].pc = "running" PROVE q[2] # r[2]
      <4>1. Here(q) /\ q[1][2] \in Stage1
        BY <3>1, <3>2, Stages DEF RunInv
      <4>2. Here(r)
        BY <1>2, <1>7, <3>1, <4>1 DEF RunInv, NoSender, Here
      <4>. QED  BY <1>1, <2>2, <3>1, <4>1, <4>2 DEF Here, Ind, AloneInv, Sound
    <3>. QED  BY <1>2, <1>4, <1>5, <1>6, <2>2, <3>1, <3>2, SameRun DEF RunInv
  <2>. QED  BY <2>1, <2>2
<1>9. fail.n \in Nodes
  BY DEF TypeInd, Types, LeaderTypes, FailRec
<1>. QED  BY <1>2, <1>5, <1>6, <1>8, <1>9, QuietGood

LEMMA SendFailsGood ==
  ASSUME OneJob, TypeInd, Ind, Good, NEW r \in DOMAIN run, SendFails(r[1], r[2])
  PROVE  Good'
<1>1. run' = Over({<<r[1], r[2]>>}) /\ UNCHANGED <<leaderVars, wq, up>>
  BY DEF SendFails
<1>2. \A q \in DOMAIN run' : q \in DOMAIN run /\ run'[q] = run[q]
  BY <1>1, OverOf DEF TypeInd, Types
<1>3. UNCHANGED <<task, taskMap, assigned, completed, jobTasks, fail, job>>
  BY <1>1 DEF leaderVars, lists
<1>4. \A q \in DOMAIN run' : RunInv(q)'
  BY <1>1, <1>2, <1>3, SameRun DEF Good, RunsInv, RunInv
<1>5. fail.n \in Nodes
  BY DEF TypeInd, Types, LeaderTypes, FailRec
<1>. QED  BY <1>1, <1>2, <1>3, <1>4, <1>5, QuietGood

LEMMA ReportGood ==
  ASSUME OneJob, TypeInd, Ind, Good, NEW r \in DOMAIN run, Report(r[1], r[2])
  PROVE  Good'
<1>1. UNCHANGED <<leaderVars, wq, up>>
  BY DEF Report
<1>2. UNCHANGED <<task, taskMap, assigned, completed, jobTasks, fail, job>>
  BY <1>1 DEF leaderVars, lists
<1>3. r[1] \in Tasks /\ r[2] \in Nodes /\ r[1][2] \in 1 .. 2 * K /\ RunInv(r) /\ run[r].pc = "running"
  BY RunOf, ReportOf DEF Good, RunsInv
<1>4. run[r].id = Last(wq[r[2]]) /\ Here(r) /\ run[r].id = r[1][2] /\ r[1][2] \in Stage1
  BY <1>3, Stages DEF RunInv
<1>5. ASSUME NEW q \in DOMAIN run', q # r PROVE q \in DOMAIN run /\ run'[q] = run[q] /\ RunInv(q)'
  <2>1. q \in DOMAIN run /\ run'[q] = run[q]
    BY <1>5, ReportOf
  <2>. QED  BY <1>1, <1>2, <2>1, SameRun DEF Good, RunsInv, RunInv
<1>6. ASSUME r \in DOMAIN run' PROVE RunInv(r)' /\ run'[r].pc = "called"
  <2>1. run'[r].pc = "called" /\ run'[r].id = run[r].id
    BY <1>4, <1>6, ReportOf
  <2>2. Current(r[1])' = Current(r[1])
    BY <1>2 DEF Current
  <2>. QED  BY <1>2, <1>4, <2>1, <2>2 DEF RunInv, Here
<1>7. fail.n \in Nodes
  BY DEF TypeInd, Types, LeaderTypes, FailRec
<1>8. /\ \A q \in DOMAIN run' : RunInv(q)'
      /\ \A q \in DOMAIN run' : run'[q].pc = "telling" => q \in DOMAIN run /\ run[q].pc = "telling"
  BY <1>5, <1>6
<1>. QED  BY <1>1, <1>2, <1>7, <1>8, QuietGood

LEMMA UpdateTaskGood ==
  ASSUME OneJob, TypeInd, Ind, Good, NEW t, NEW n, UpdateTask(t, n)
  PROVE  Good'
<1>1. UNCHANGED <<task, taskMap, assigned, completed, jobTasks, fail, job, wq, up, run>>
  BY DEF UpdateTask, lists
<1>2. fail.n \in Nodes
  BY DEF TypeInd, Types, LeaderTypes, FailRec
<1>3. \A q \in DOMAIN run' : RunInv(q)'
  BY <1>1, SameRun DEF Good, RunsInv, RunInv
<1>. QED  BY <1>1, <1>2, <1>3, QuietGood

LEMMA ConnectGood ==
  ASSUME OneJob, TypeInd, Ind, Good, Connect
  PROVE  Good'
<1>1. UNCHANGED <<task, taskMap, assigned, completed, jobTasks, fail, job, wq, up, run>>
  BY DEF Connect, lists
<1>2. fail.n \in Nodes
  BY DEF TypeInd, Types, LeaderTypes, FailRec
<1>3. \A q \in DOMAIN run' : RunInv(q)'
  BY <1>1, SameRun DEF Good, RunsInv, RunInv
<1>. QED  BY <1>1, <1>2, <1>3, QuietGood

\* A report that finds all senders completed finds them all done.
LEMMA AllSendersDone ==
  ASSUME OneJob, TypeInd, Ind, Good, job[1].pc \in {"monitor", "ended"}, AllSendersCompleted
  PROVE  SendersDone
<1>1. ASSUME NEW t \in Tasks, t[2] \in Stage1 PROVE Done(t)
  <2>1. PICK c \in Range(completed) : SameId(assigned[t[2]], c)
    BY <1>1 DEF AllSendersCompleted, Stage1
  <2>2. assigned \in Seq(Tasks) /\ completed \in Seq(Tasks) /\ t[2] \in DOMAIN assigned
    BY <1>1, Sizes DEF AllSendersCompleted, Stage1, TypeInd, Types, QueueTypes
  <2>3. assigned[t[2]] = t
    BY <2>2, JobIsOne DEF Good, ListsInv, Listing
  <2>4. c \in Tasks
    BY <2>2, RangeOf
  <2>. QED  BY <2>1, <2>3, <2>4, Numbers DEF Done, Good
<1>. QED  BY <1>1 DEF SendersDone

LEMMA CheckedGood ==
  ASSUME OneJob, TypeInd, Ind, Good, NEW r \in DOMAIN run, Checked(r)
  PROVE  Good'
<1>1. /\ r[1] \in Tasks /\ r[2] \in Nodes /\ r = <<r[1], r[2]>> /\ RunInv(r)
      /\ job[1].pc \in {"monitor", "ended"} /\ run[r].pc = "marked"
  BY RunOf DEF Checked, Is, Good, RunsInv
<1>2. UNCHANGED <<task, taskMap, assigned, completed, jobTasks, fail, job, up>> /\ wq \in [Nodes -> Seq(Ids)]
  BY DEF Checked, leaderVars, lists, TypeInd, Types, WorkerTypes
<1>3. fail.n \in Nodes
  BY DEF TypeInd, Types, LeaderTypes, FailRec
<1>4. CASE AllSendersCompleted
  <2>1. run' = [run EXCEPT ![r].pc = "telling", ![r].i = K + 1] /\ wq' = wq
    BY <1>4 DEF Checked, NoFault
  <2>2. /\ run'[r].pc = "telling" /\ run'[r].id = run[r].id /\ DOMAIN run' = DOMAIN run
        /\ \A q \in DOMAIN run : q # r => run'[q] = run[q]
    <3>1. PICK v : v = [run[r] EXCEPT !.pc = "telling", !.i = K + 1]
      OBVIOUS
    <3>2. v.id = run[r].id /\ v.pc = "telling"
      BY <3>1 DEF TypeInd, Types, RunTypes, RunRec
    <3>3. run' = [run EXCEPT ![r] = v]
      BY <2>1, <3>1
    <3>. QED  BY <3>2, <3>3
  <2>3. RunInv(r)'
    <3>1. Current(r[1])' = Current(r[1])
      BY <1>2 DEF Current
    <3>. QED  BY <1>1, <2>2, <3>1 DEF RunInv
  <2>4. \A q \in DOMAIN run' : RunInv(q)'
    BY <1>2, <2>1, <2>2, <2>3, SameRun DEF Good, RunsInv, RunInv
  <2>. QED  BY <1>1, <1>2, <1>3, <1>4, <2>4, AllSendersDone, QuietGood
<1>5. CASE ~AllSendersCompleted
  <2>1. run' = Over({r}) /\ (wq' = [wq EXCEPT ![r[2]] = RemoveFirst(@, run[r].id)] \/ wq' = wq)
    BY <1>5 DEF Checked, NoFault
  <2>2. \A q \in DOMAIN run' : q \in DOMAIN run /\ q # r /\ run'[q] = run[q]
    BY <2>1, OverOf DEF TypeInd, Types
  <2>3. ASSUME NEW q \in DOMAIN run' PROVE RunInv(q)'
    <3>1. q[1] \in Tasks /\ q[2] \in Nodes /\ RunInv(q) /\ q[1][2] \in 1 .. 2 * K
      BY <2>2, RunOf DEF Good, RunsInv
    <3>2. ASSUME run[q].pc = "running" PROVE wq'[q[2]] # <<>> /\ Last(wq'[q[2]]) = Last(wq[q[2]])
      <4>1. Current(q[1]) /\ wq[q[2]] # <<>> /\ Last(wq[q[2]]) = q[1][2]
        BY <3>1, <3>2, Stages DEF RunInv, Here
      <4>2. ~Current(r[1]) /\ run[r].id = r[1][2]
        BY <1>1 DEF RunInv
      <4>3. Last(wq[q[2]]) # run[r].id
        BY <1>1, <3>1, <4>1, <4>2, JobIsOne
      <4>4. wq[q[2]] \in Seq(Ids)
        BY <1>2, <3>1
      <4>5. RemoveFirst(wq[q[2]], run[r].id) # <<>> /\ Last(RemoveFirst(wq[q[2]], run[r].id)) = Last(wq[q[2]])
        BY <4>1, <4>3, <4>4, RemoveFirstOf
      <4>6. wq'[q[2]] = wq[q[2]] \/ wq'[q[2]] = RemoveFirst(wq[q[2]], run[r].id)
        BY <1>1, <1>2, <2>1, <3>1
      <4>. QED  BY <4>1, <4>5, <4>6
    <3>. QED  BY <1>2, <2>2, <3>1, <3>2, SameRun DEF RunInv
  <2>. QED  BY <1>2, <1>3, <2>2, <2>3, QuietGood
<1>. QED  BY <1>4, <1>5

LEMMA CrashGood ==
  ASSUME OneJob, TypeInd, Ind, Good, NEW n \in Nodes, Crash(n)
  PROVE  Good'
<1>1. /\ UNCHANGED leaderVars /\ up' = [up EXCEPT ![n] = FALSE] /\ wq' = [wq EXCEPT ![n] = <<>>]
      /\ wq \in [Nodes -> Seq(Ids)] /\ up \in [Nodes -> BOOLEAN]
  BY DEF Crash, TypeInd, Types, WorkerTypes
<1>2. PICK late \in SUBSET {r \in At({"called"}) : r[2] = n} :
        run' = Over({r \in At({"running", "called"}) : r[2] = n} \ late)
  BY DEF Crash
<1>3. ASSUME NEW q \in DOMAIN run'
      PROVE  q \in DOMAIN run /\ run'[q] = run[q] /\ (run[q].pc = "running" => q[2] # n)
  <2>. DEFINE R == {r \in At({"running", "called"}) : r[2] = n} \ late
  <2>1. RunTypes
    BY DEF TypeInd, Types
  <2>2. DOMAIN run' = DOMAIN run \ R /\ \A r \in DOMAIN run' : run'[r] = run[r]
    BY <1>2, <2>1, OverOf, Zenon
  <2>3. q \in DOMAIN run /\ q \notin R /\ run'[q] = run[q]
    BY <1>3, <2>2
  <2>4. run[q].pc = "running" => q \notin late
    BY <1>2 DEF At
  <2>. QED  BY <2>3, <2>4 DEF At
<1>4. UNCHANGED <<task, taskMap, assigned, completed, jobTasks, fail, job>>
  BY <1>1 DEF leaderVars, lists
<1>5. fail.n \in Nodes
  BY DEF TypeInd, Types, LeaderTypes, FailRec
<1>6. ASSUME NEW q \in DOMAIN run' PROVE RunInv(q)'
  <2>1. q[2] \in Nodes /\ RunInv(q)
    BY <1>3, RunOf DEF Good, RunsInv
  <2>. QED  BY <1>1, <1>3, <1>4, <2>1, SameRun DEF RunInv
<1>. QED  BY <1>1, <1>3, <1>4, <1>5, <1>6, QuietGood


\* A report under its own id: that task, if any, is the one that is completed.
LEMMA MarkedIs ==
  ASSUME OneJob, TypeInd, Ind, Good, job[1].pc \in {"monitor", "ended"}, NEW s \in Tasks,
         UNCHANGED <<task, assigned, jobTasks, job, fail, up>>,
         \/ MarkCompleted(s[2])
         \/ taskMap' = Put(taskMap, s[2], NoTask) /\ UNCHANGED completed
  PROVE  /\ ListsInv' /\ (NoSender => NoSender')
         /\ ~Current(s)' /\ \A t \in Tasks : t # s => (Current(t)' <=> Current(t))
         /\ \A t \in Tasks : /\ Done(t) => Done(t)'
                             /\ Done(t)' => Done(t) \/ t = s
<1>1. taskMap' = Put(taskMap, s[2], NoTask)
  BY DEF MarkCompleted
<1>2. \A t \in Tasks, x \in DOMAIN taskMap : taskMap[x] = t => x = t[2]
  BY Numbers DEF Good
<1>3. \A t \in Tasks : (Current(t)' <=> Current(t) /\ t # s)
  <2>1. ASSUME NEW t \in Tasks, Current(t)' PROVE Current(t) /\ t # s
    <3>1. PICK x \in DOMAIN taskMap' : taskMap'[x] = t
      BY <2>1 DEF Current
    <3>2. x # s[2] /\ x \in DOMAIN taskMap /\ taskMap[x] = t
      BY <1>1, <3>1, Constants DEF Put
    <3>. QED  BY <1>2, <3>2 DEF Current
  <2>2. ASSUME NEW t \in Tasks, Current(t), t # s PROVE Current(t)'
    <3>1. PICK x \in DOMAIN taskMap : taskMap[x] = t
      BY <2>2 DEF Current
    <3>2. x # s[2]
      BY <1>2, <2>2, <3>1, JobIsOne
    <3>3. x \in DOMAIN taskMap' /\ taskMap'[x] = t
      BY <1>1, <3>1, <3>2 DEF Put
    <3>. QED  BY <3>3 DEF Current
  <2>. QED  BY <2>1, <2>2
<1>4. completed' = completed \/ completed' = Append(completed, s)
  <2>1. CASE MarkCompleted(s[2]) /\ s[2] \in DOMAIN taskMap /\ taskMap[s[2]] # NoTask
    <3>1. taskMap[s[2]] \in Tasks
      BY <2>1 DEF TypeInd, Types, MapTypes
    <3>2. taskMap[s[2]] = s
      BY <1>2, <2>1, <3>1, JobIsOne
    <3>. QED  BY <2>1, <3>2 DEF MarkCompleted, Marked
  <2>2. CASE MarkCompleted(s[2]) /\ ~(s[2] \in DOMAIN taskMap /\ taskMap[s[2]] # NoTask)
    BY <2>2 DEF MarkCompleted, Marked
  <2>3. CASE ~MarkCompleted(s[2])
    BY <2>3
  <2>. QED  BY <2>1, <2>2, <2>3
<1>5. \A t \in Tasks : (Done(t) => Done(t)') /\ (Done(t)' => Done(t) \/ t = s)
  <2>1. completed \in Seq(Tasks)
    BY DEF TypeInd, Types, QueueTypes
  <2>2. Range(Append(completed, s)) = Range(completed) \cup {s}
    BY <2>1, AppendOf
  <2>3. CASE completed' = completed
    BY <2>3 DEF Done
  <2>4. CASE completed' = Append(completed, s)
    BY <2>2, <2>4 DEF Done
  <2>. QED  BY <1>4, <2>3, <2>4
<1>6. ListsInv'
  BY <1>3 DEF Good, ListsInv, Listing, Given1
<1>7. NoSender => NoSender'
  BY <1>3 DEF NoSender
<1>. QED  BY <1>3, <1>5, <1>6, <1>7

LEMMA NotifiedGood ==
  ASSUME OneJob, TypeInd, Ind, Good, NEW r \in DOMAIN run, Notified(r)
  PROVE  Good'
<1>1. /\ r[1] \in Tasks /\ r[2] \in Nodes /\ r = <<r[1], r[2]>> /\ r[1][2] \in 1 .. 2 * K
      /\ RunInv(r) /\ job[1].pc \in {"monitor", "ended"} /\ run[r].pc = "called"
  BY RunOf DEF Notified, Is, Good, RunsInv
<1>2. run[r].id = r[1][2] /\ r[1][2] \in Stage1 /\ (Current(r[1]) => task[r[1]].at = r[2])
  BY <1>1 DEF RunInv
<1>3. UNCHANGED <<task, assigned, jobTasks, job, fail, up, wq>>
  BY DEF Notified
<1>4. MarkCompleted(r[1][2]) \/ (taskMap' = Put(taskMap, r[1][2], NoTask) /\ UNCHANGED completed)
  BY <1>2 DEF Notified
<1>5. /\ ListsInv' /\ (NoSender => NoSender')
      /\ ~Current(r[1])' /\ \A t \in Tasks : t # r[1] => (Current(t)' <=> Current(t))
      /\ \A t \in Tasks : (Done(t) => Done(t)') /\ (Done(t)' => Done(t) \/ t = r[1])
  BY <1>1, <1>3, <1>4, MarkedIs
<1>6. /\ DOMAIN run' = DOMAIN run /\ run'[r].pc = "marked" /\ run'[r].id = run[r].id
      /\ \A q \in DOMAIN run : q # r => run'[q] = run[q]
  <2>1. RunTypes /\ Runs(r, "marked") /\ "marked" \in RunPcs
    BY DEF Notified, RunPcs, TypeInd, Types
  <2>. QED  BY <2>1, RunsOf
<1>7. ASSUME NEW q \in DOMAIN run' PROVE RunInv(q)'
  <2>1. CASE q = r
    BY <1>2, <1>5, <1>6, <2>1 DEF RunInv
  <2>2. CASE q # r
    <3>1. q \in DOMAIN run /\ run'[q] = run[q] /\ q[1] \in Tasks /\ q = <<q[1], q[2]>> /\ RunInv(q)
      BY <1>6, <2>2, RunOf DEF Good, RunsInv
    <3>2. Current(q[1])' => Current(q[1])
      BY <1>5, <3>1
    <3>3. Here(q) => Here(q)'
      <4>1. Here(q) => q[1] # r[1]
        BY <1>1, <1>2, <2>2, <3>1 DEF Here
      <4>. QED  BY <1>3, <1>5, <3>1, <4>1 DEF Here
    <3>. QED  BY <1>3, <1>5, <3>1, <3>2, <3>3 DEF RunInv
  <2>. QED  BY <2>1, <2>2
<1>8. SendersDone => SendersDone'
  BY <1>5 DEF SendersDone
<1>9. ASSUME NEW t \in Tasks, Done(t)', t[2] \in Stage2 PROVE SendersDone'
  <2>1. Done(t)
    BY <1>1, <1>2, <1>5, <1>9, Stages
  <2>. QED  BY <1>8, <1>9, <2>1 DEF Good, DonesInv
<1>10. \A q \in DOMAIN run' : run'[q].pc = "telling" => q \in DOMAIN run /\ run[q].pc = "telling"
  BY <1>6
<1>11. DonesInv'
  BY <1>3, <1>8, <1>9, <1>10 DEF Good, DonesInv
<1>. QED  BY <1>5, <1>7, <1>11 DEF Good, RunsInv

LEMMA TellReceiverGood ==
  ASSUME OneJob, TypeInd, Ind, Good, NEW r \in DOMAIN run, TellReceiver(r)
  PROVE  Good'
<1>1. PICK s \in Tasks : s = assigned[run[r].i]
  BY TellOf
<1>2. run[r].pc = "telling" /\ job[1].pc \in {"monitor", "ended"} /\ run[r].i \in DOMAIN assigned
      /\ run[r].i \in K + 1 .. 2 * K
  BY RunOf, TellOf
<1>3. s[2] = run[r].i /\ s[2] \in Stage2 /\ s[2] \in 1 .. 2 * K /\ task[s].id = s[2]
  BY <1>1, <1>2, Numbers, JobIsOne DEF Good, ListsInv, Listing, Stage2
<1>4. UNCHANGED <<task, assigned, jobTasks, job, fail, up>> /\ MarkCompleted(s[2])
  BY <1>1, <1>3, TellOf DEF TellReceiver
<1>5. SendersDone
  <2>1. assigned # <<>>
    BY <1>2
  <2>. QED  BY <1>2, <2>1 DEF Good, DonesInv
<1>6. NoSender
  BY <1>5 DEF SendersDone, NoSender, Ind, NumberInv
<1>7. /\ ListsInv' /\ NoSender'
      /\ ~Current(s)' /\ \A t \in Tasks : t # s => (Current(t)' <=> Current(t))
      /\ \A t \in Tasks : Done(t) => Done(t)'
  BY <1>2, <1>4, <1>6, MarkedIs
<1>8. \A q \in DOMAIN run' : q \in DOMAIN run /\ run'[q].id = run[q].id /\ run'[q].pc = run[q].pc
  BY TellOf
<1>9. ASSUME NEW q \in DOMAIN run' PROVE RunInv(q)'
  <2>1. q \in DOMAIN run /\ q[1] \in Tasks /\ q[1][2] \in 1 .. 2 * K /\ RunInv(q)
    BY <1>8, RunOf DEF Good, RunsInv
  <2>2. q[1][2] \in Stage1 => ~Current(q[1])
    BY <1>6, <2>1 DEF NoSender
  <2>3. run[q].pc # "running"
    BY <2>1, <2>2, Stages DEF RunInv, Here
  <2>4. run[q].pc = "sending" => q[1][2] \in Stage2
    BY <2>1, <2>2, Stages DEF RunInv, Here
  <2>5. Current(q[1])' => Current(q[1])
    BY <1>7, <2>1
  <2>. QED  BY <1>4, <1>7, <1>8, <2>1, <2>3, <2>4, <2>5 DEF RunInv
<1>10. SendersDone'
  BY <1>5, <1>7 DEF SendersDone
<1>. QED  BY <1>7, <1>9, <1>10 DEF Good, RunsInv, DonesInv

LEMMA PanicsGood ==
  ASSUME OneJob, TypeInd, Ind, Good, Panics
  PROVE  Good'
<1>1. job'[1].pc = "gone" /\ job'[1].ok
  BY JobIsOne DEF Panics, NewJob
<1>2. fail'.pc = "gone" /\ DOMAIN run' = {}
  BY DEF Panics, TypeInd, Types, LeaderTypes, FailRec, EmptyMap
<1>3. UNCHANGED <<task, taskMap, assigned, completed, jobTasks>>
  BY DEF Panics, lists
<1>4. \A t \in Tasks : Done(t)' = Done(t)
  BY <1>3 DEF Done
<1>5. ListsInv'
  BY <1>1, <1>2, <1>3 DEF Good, ListsInv, Listing, Given1
<1>6. RunsInv' /\ DonesInv'
  BY <1>2, <1>4 DEF Good, RunsInv, DonesInv, SendersDone
<1>. QED  BY <1>5, <1>6 DEF Good

LEMMA FailSignalGood ==
  ASSUME OneJob, TypeInd, Ind, Good, NEW n \in Nodes, FailSignal(n), Sound'
  PROVE  Good'
<1>1. ~up[n]
  BY DEF FailSignal, Wrong, Sound
<1>2. fail'.pc = "sleep" /\ fail'.n = n
  BY DEF FailSignal
<1>3. UNCHANGED <<task, taskMap, assigned, completed, jobTasks, job, wq, up, run>>
  BY DEF FailSignal, workerVars
<1>4. \A t \in Tasks : Current(t)' = Current(t) /\ Done(t)' = Done(t)
  BY <1>3 DEF Current, Done
<1>5. ListsInv'
  BY <1>1, <1>2, <1>3, <1>4 DEF Good, ListsInv, Listing, Given1
<1>6. RunsInv'
  BY <1>3, SameRun DEF Good, RunsInv, RunInv
<1>7. DonesInv'
  BY <1>3, <1>4 DEF Good, DonesInv, SendersDone
<1>. QED  BY <1>5, <1>6, <1>7 DEF Good

LEMMA HandleNothingGood ==
  ASSUME OneJob, TypeInd, Ind, Good, HandleNothing
  PROVE  Good'
<1>1. fail'.pc = "wait"
  BY DEF HandleNothing, TypeInd, Types, LeaderTypes, FailRec
<1>2. UNCHANGED <<task, taskMap, assigned, completed, jobTasks, job, wq, up, run>>
  BY DEF HandleNothing, lists, workerVars
<1>3. \A t \in Tasks : Current(t)' = Current(t) /\ Done(t)' = Done(t)
  BY <1>2 DEF Current, Done
<1>4. ListsInv'
  BY <1>1, <1>2, <1>3 DEF Good, ListsInv, Listing, Given1
<1>5. RunsInv'
  BY <1>2, SameRun DEF Good, RunsInv, RunInv
<1>6. DonesInv'
  BY <1>2, <1>3 DEF Good, DonesInv, SendersDone
<1>. QED  BY <1>4, <1>5, <1>6 DEF Good

\* A task is moved: no run of it is left, since it was at the worker that failed.
LEMMA HandleGood ==
  ASSUME OneJob, TypeInd, Ind, Good, NEW t \in Tasks, Handle(t), job[t[1]].i = 2 * K + 1,
         Sound'
  PROVE  Good'
<1>1. /\ Slept /\ task[t].at = fail.n /\ Current(t) /\ task'[t].id = task[t].id
      /\ \A u \in Tasks : u # t => task'[u] = task[u]
      /\ job'[1].pc = job[1].pc /\ job'[1].i = job[1].i /\ job'[1].ok = job[1].ok
      /\ UNCHANGED <<taskMap, assigned, completed, jobTasks, wq, up>>
  BY HandleOf, JobIsOne
<1>2. PICK w \in Nodes : Moved(t, w)
  BY HandleOf DEF Stranded, Sound
<1>3. fail.pc = "sleep" /\ ~up[fail.n] /\ fail'.pc = "wait"
  BY HandleOf DEF Slept, TypeInd, Types, LeaderTypes, FailRec, Good, ListsInv
<1>4. job[1].pc \in {"monitor", "ended"}
  <2>1. job[1].pc \in JobPcs
    BY JobIsOne DEF TypeInd, Types, JobTypes, JobRec
  <2>2. DOMAIN taskMap # {} /\ job[1].pc # "assign"
    BY <1>1, JobIsOne DEF Current, Slept
  <2>. QED  BY <1>3, <2>1, <2>2 DEF JobPcs, Ind, FreshInv
<1>5. ASSUME NEW q \in DOMAIN run PROVE q[1] # t
  <2>1. RunInv(q) /\ run[q].pc \in RunPcs /\ run[q].pc # "sending" /\ (q[2] = fail.n => run[q].pc = "running")
        /\ q[1][2] \in 1 .. 2 * K
    BY <1>1, RunOf DEF Good, RunsInv, Slept
  <2>2. q[2] # fail.n
    BY <1>3, <2>1 DEF RunInv
  <2>3. CASE run[q].pc = "running"
    BY <1>1, <2>1, <2>2, <2>3, Stages DEF RunInv, Here
  <2>4. CASE run[q].pc = "called"
    BY <1>1, <2>1, <2>2, <2>4 DEF RunInv
  <2>5. CASE run[q].pc \in {"marked", "telling"}
    BY <1>1, <2>1, <2>5 DEF RunInv
  <2>. QED  BY <2>1, <2>3, <2>4, <2>5 DEF RunPcs
<1>6. \A u \in Tasks : (Current(u)' <=> Current(u)) /\ (Done(u)' <=> Done(u)) /\ task'[u].id = task[u].id
  BY <1>1 DEF Current, Done
<1>7. ListsInv'
  BY <1>1, <1>3, <1>6 DEF Good, ListsInv, Listing, Given1
<1>8. NoSender' <=> NoSender
  BY <1>6 DEF NoSender
<1>9. /\ DOMAIN run' = {<<t, w>>} \cup DOMAIN run
      /\ run'[<<t, w>>].pc = "sending" /\ run'[<<t, w>>].id = task[t].id
      /\ \A q \in DOMAIN run : q # <<t, w>> => run'[q] = run[q]
  <2>1. {<<t, w>>} \in SUBSET (Tasks \X Nodes) /\ Sends({<<t, w>>}) /\ RunTypes /\ MapTypes
    BY <1>2 DEF Moved, TypeInd, Types
  <2>. QED  BY <2>1, SendsOf
<1>10. ASSUME NEW q \in DOMAIN run' PROVE RunInv(q)'
  <2>1. CASE q = <<t, w>>
    <3>1. Here(q)'
      BY <1>1, <1>2, <1>6, <2>1 DEF Moved, Here
    <3>2. run'[q].id = q[1][2]
      BY <1>4, <1>9, <2>1, Numbers DEF Good
    <3>. QED  BY <1>9, <2>1, <3>1, <3>2 DEF RunInv
  <2>2. CASE q # <<t, w>>
    <3>1. q \in DOMAIN run /\ run'[q] = run[q] /\ q[1] \in Tasks /\ q[1] # t /\ RunInv(q)
      BY <1>5, <1>9, <2>2, RunOf DEF Good, RunsInv
    <3>2. (Here(q)' <=> Here(q)) /\ task'[q[1]] = task[q[1]] /\ (Current(q[1])' <=> Current(q[1]))
      BY <1>1, <1>6, <3>1 DEF Here
    <3>. QED  BY <1>1, <1>8, <3>1, <3>2 DEF RunInv
  <2>. QED  BY <2>1, <2>2
<1>11. DonesInv'
  <2>1. SendersDone' <=> SendersDone
    BY <1>6 DEF SendersDone
  <2>2. \A q \in DOMAIN run' : run'[q].pc = "telling" => q \in DOMAIN run /\ run[q].pc = "telling"
    BY <1>9
  <2>. QED  BY <1>1, <1>6, <2>1, <2>2 DEF Good, DonesInv
<1>. QED  BY <1>7, <1>10, <1>11 DEF Good, RunsInv

LEMMA JoinGood ==
  ASSUME OneJob, TypeInd, Ind, Good, NEW n \in Nodes, Join(n), Sound'
  PROVE  Good'
<1>1. /\ UNCHANGED <<task, taskMap, assigned, completed, jobTasks, job, fail, wq, run>>
      /\ up' = [up EXCEPT ![n] = TRUE] /\ up \in [Nodes -> BOOLEAN]
  BY DEF Join, lists, TypeInd, Types, WorkerTypes
<1>2. ~(fail.pc = "sleep" /\ fail.n = n) /\ fail.n \in Nodes
  BY DEF Join, Sound, TypeInd, Types, LeaderTypes, FailRec
<1>3. \A t \in Tasks : Current(t)' = Current(t) /\ Done(t)' = Done(t)
  BY <1>1 DEF Current, Done
<1>4. ListsInv'
  BY <1>1, <1>2, <1>3 DEF Good, ListsInv, Listing, Given1
<1>5. \A q \in DOMAIN run : q[2] \in Nodes
  BY RunOf
<1>6. RunsInv'
  BY <1>1, <1>5, SameRun DEF Good, RunsInv, RunInv
<1>7. DonesInv'
  BY <1>1, <1>3 DEF Good, DonesInv, SendersDone
<1>. QED  BY <1>4, <1>6, <1>7 DEF Good


\* What went wrong stays so.
LEMMA TroubleGrows ==
  ASSUME TypeInd, [Next]_vars
  PROVE  trouble \subseteq trouble'
<1>1. ASSUME NEW j \in Jobs, Creator(j) \/ Submit(j) PROVE trouble \subseteq trouble'
  BY <1>1 DEF Creator, CreateJob, AssignStage1, AssignStage2, SendAll, MonitorTick, Ticks, Submit,
             Fault, Wrong, NoFault
<1>2. ASSUME NEW r \in DOMAIN run, Deliver(r[1], r[2]) \/ SendFails(r[1], r[2]) \/ Report(r[1], r[2])
      PROVE  trouble \subseteq trouble'
  BY <1>2 DEF Deliver, SendFails, Report, Fault, Wrong, NoFault
<1>3. ASSUME NEW r \in DOMAIN run, Notified(r) \/ Checked(r) \/ TellReceiver(r) \/ TellPanics(r)
      PROVE  trouble \subseteq trouble'
  BY <1>3 DEF Notified, Checked, TellReceiver, TellPanics, Panics, Fault, Wrong, NoFault
<1>4. ASSUME NEW u \in updates, UpdateTask(u[1], u[2]) PROVE trouble \subseteq trouble'
  BY <1>4 DEF UpdateTask, Fault, Wrong, NoFault
<1>5. ASSUME NEW n \in Nodes, FailSignal(n) \/ Crash(n) \/ Join(n) PROVE trouble \subseteq trouble'
  BY <1>5 DEF FailSignal, Crash, Join, Wrong, NoFault
<1>6. ASSUME NEW t \in Tasks, Handle(t) PROVE trouble \subseteq trouble'
  BY <1>6 DEF Handle, MoveTask, Reschedule, Panics
<1>7. CASE HandleNothing \/ Connect \/ UNCHANGED vars
  BY <1>7 DEF HandleNothing, Connect, vars
<1>. QED  BY <1>1, <1>2, <1>3, <1>4, <1>5, <1>6, <1>7 DEF Next, Progress, Operator, Environment

LEMMA GoodStep ==
  ASSUME OneJob, TypeInd, Ind, Sound => Good, [Next]_vars
  PROVE  Sound' => Good'
<1>. SUFFICES ASSUME Sound' PROVE Good'
  OBVIOUS
<1>. Sound /\ Good
  BY TroubleGrows DEF Sound
<1>1. ASSUME NEW j \in Jobs, Creator(j) \/ Submit(j) PROVE Good'
  <2>1. j = 1
    BY JobIsOne
  <2>. QED  BY <1>1, <2>1, SubmitGood, CreateJobGood, AssignGood, SendAllGood, MonitorTickGood DEF Creator
<1>2. ASSUME NEW r \in DOMAIN run, Deliver(r[1], r[2]) \/ SendFails(r[1], r[2]) \/ Report(r[1], r[2])
      PROVE  Good'
  BY <1>2, DeliverGood, SendFailsGood, ReportGood
<1>3. ASSUME NEW r \in DOMAIN run, Notified(r) \/ Checked(r) \/ TellReceiver(r) \/ TellPanics(r)
      PROVE  Good'
  BY <1>3, NotifiedGood, CheckedGood, TellReceiverGood, PanicsGood DEF TellPanics
<1>4. ASSUME NEW u \in updates, UpdateTask(u[1], u[2]) PROVE Good'
  BY <1>4, UpdateTaskGood
<1>5. ASSUME NEW n \in Nodes, FailSignal(n) \/ Crash(n) \/ Join(n) PROVE Good'
  BY <1>5, FailSignalGood, CrashGood, JoinGood
<1>6. ASSUME NEW t \in Tasks, Handle(t) PROVE Good'
  BY <1>6, HandleGood, PanicsGood DEF Handle
<1>7. CASE HandleNothing \/ Connect
  BY <1>7, HandleNothingGood, ConnectGood
<1>8. CASE UNCHANGED vars
  <2>1. UNCHANGED <<task, taskMap, assigned, completed, jobTasks, fail, job, wq, up, run>>
    BY <1>8 DEF vars, leaderVars, lists, workerVars
  <2>2. fail.n \in Nodes
    BY DEF TypeInd, Types, LeaderTypes, FailRec
  <2>3. \A q \in DOMAIN run' : RunInv(q)'
    BY <2>1, SameRun DEF Good, RunsInv, RunInv
  <2>. QED  BY <2>1, <2>2, <2>3, QuietGood
<1>. QED  BY <1>1, <1>2, <1>3, <1>4, <1>5, <1>6, <1>7, <1>8 DEF Next, Progress, Operator, Environment

LEMMA GoodWhileSound ==
  ASSUME OneJob
  PROVE  Spec => [](Sound => Good)
<1>1. Init => (Sound => Good)
  BY InitGood
<1>2. TypeInd /\ Ind /\ (Sound => Good) /\ [Next]_vars => (Sound => Good)'
  BY GoodStep
<1>. QED  BY <1>1, <1>2, Typing, Inductive, PTL DEF Spec

\* While there is one job, a receiver is told that all is done only when no sender of the
\* job is sent or runs anywhere, even after one was moved (leader.go:511-530,
\* utils-leader.go:249-316): the counting of reports by id cannot run ahead of the tasks.
THEOREM SendersFirst ==
  ASSUME NumJobs = 1
  PROVE  Spec => []ReceiversLast
<1>1. OneJob
  BY DEF OneJob
<1>2. TypeInd /\ Ind /\ (Sound => Good) => ReceiversLast
  <2>1. SUFFICES ASSUME TypeInd, Ind, Good, NEW k \in Stage2, Done(<<1, k>>), NEW r \in DOMAIN run,
                        run[r].pc \in {"sending", "running"}
                 PROVE  r[1][2] \notin Stage1
    BY <1>1, JobIsOne DEF ReceiversLast, Sound, At
  <2>2. <<1, k>> \in Tasks /\ <<1, k>>[2] = k
    BY <1>1, Sizes, JobIsOne DEF Stage2
  <2>3. SendersDone
    BY <2>1, <2>2 DEF Good, DonesInv
  <2>4. r[1] \in Tasks /\ RunInv(r) /\ r[1][2] \in 1 .. 2 * K
    BY <1>1, <2>1, RunOf DEF Good, RunsInv
  <2>5. r[1][2] \in Stage1 => Done(r[1]) /\ ~Current(r[1])
    BY <2>1, <2>3, <2>4 DEF SendersDone, Ind, NumberInv
  <2>. QED  BY <2>1, <2>4, <2>5, Stages DEF RunInv, Here
<1>. QED  BY <1>1, <1>2, GoodWhileSound, Inductive, Typing, PTL

\* Only the monitor ends a job.
LEMMA OnlyTicksEnd ==
  ASSUME OneJob, TypeInd, [Next]_vars, job[1].pc = "monitor", job'[1].pc = "ended"
  PROVE  MonitorTick(1)
<1>. SUFFICES ASSUME ~MonitorTick(1) PROVE FALSE
  OBVIOUS
<1>1. ~UNCHANGED job
  OBVIOUS
<1>2. ASSUME NEW j \in Jobs, Creator(j) \/ Submit(j) PROVE FALSE
  <2>1. j = 1
    BY JobIsOne
  <2>. QED  BY <1>2, <2>1 DEF Creator, Submit, CreateJob, AssignStage1, AssignStage2, SendAll
<1>3. ASSUME NEW r \in DOMAIN run, Deliver(r[1], r[2]) \/ SendFails(r[1], r[2]) \/ Report(r[1], r[2])
      PROVE  FALSE
  BY <1>1, <1>3 DEF Deliver, SendFails, Report, leaderVars
<1>4. ASSUME NEW r \in DOMAIN run, Notified(r) \/ Checked(r) \/ TellReceiver(r) PROVE FALSE
  BY <1>1, <1>4 DEF Notified, Checked, TellReceiver, leaderVars
<1>5. ASSUME NEW r \in DOMAIN run, TellPanics(r) PROVE FALSE
  BY <1>5, JobIsOne DEF TellPanics, Panics, NewJob
<1>6. ASSUME NEW u \in updates, UpdateTask(u[1], u[2]) PROVE FALSE
  BY <1>1, <1>6 DEF UpdateTask
<1>7. ASSUME NEW n \in Nodes, FailSignal(n) \/ Crash(n) \/ Join(n) PROVE FALSE
  BY <1>1, <1>7 DEF FailSignal, Crash, Join, leaderVars
<1>8. ASSUME NEW t \in Tasks, Handle(t) PROVE FALSE
  <2>1. CASE job[t[1]].i = 2 * K + 1
    BY <1>8, <2>1, HandleOf, JobIsOne
  <2>2. CASE job[t[1]].i # 2 * K + 1
    BY <1>8, <2>2, JobIsOne DEF Handle, Panics, NewJob
  <2>. QED  BY <2>1, <2>2
<1>9. CASE HandleNothing \/ Connect \/ UNCHANGED vars
  BY <1>1, <1>9 DEF HandleNothing, Connect, vars, leaderVars
<1>. QED  BY <1>2, <1>3, <1>4, <1>5, <1>6, <1>7, <1>8, <1>9 DEF Next, Progress, Operator, Environment

\* "All tasks in the job completed successfully." (leader.go:415): while there is one job,
\* no worker is given two tasks and none comes back before its failure was handled, the
\* monitor says so only of a job whose tasks are all completed and run nowhere.
THEOREM EndIsEarned ==
  ASSUME NumJobs = 1
  PROVE  Spec /\ [](trouble \cap {"crowded", "hurried"} = {}) => EndedIsCompleted
<1>1. OneJob
  BY DEF OneJob
<1>. DEFINE Safe == trouble \cap {"crowded", "hurried"} = {}
            Ended == \A j \in Jobs :
                       (job[j].pc = "monitor" /\ job'[j].pc = "ended" /\ "doubted" \notin trouble) =>
                         \A k \in Stage1 \cup Stage2 :
                           /\ task[<<j, k>>].id # 0 /\ ~Current(<<j, k>>)
                           /\ \A r \in At({"running"}) : r[1] # <<j, k>>
<1>2. TypeInd /\ Ind /\ (Sound => Good) /\ Safe /\ [Next]_vars => [Ended]_vars
  <2>1. SUFFICES ASSUME TypeInd, Ind, Sound => Good, Safe, [Next]_vars,
                        job[1].pc = "monitor", job'[1].pc = "ended", "doubted" \notin trouble,
                        NEW k \in Stage1 \cup Stage2
                 PROVE  /\ task[<<1, k>>].id # 0 /\ ~Current(<<1, k>>)
                        /\ \A r \in At({"running"}) : r[1] # <<1, k>>
    BY <1>1, JobIsOne
  <2>2. Good /\ MonitorTick(1)
    BY <1>1, <2>1, OnlyTicksEnd DEF Sound
  <2>3. <<1, k>> \in Tasks /\ <<1, k>>[2] = k /\ k # 0
    BY <1>1, Sizes, JobIsOne DEF Stage1, Stage2
  <2>4. ~Current(<<1, k>>) /\ task[<<1, k>>].id = k
    BY <1>1, <2>1, <2>2, <2>3, TickMeansDone, Numbers DEF Good
  <2>5. ASSUME NEW r \in At({"running"}) PROVE Current(r[1])
    <3>1. r \in DOMAIN run /\ run[r].pc = "running"
      BY DEF At
    <3>2. RunInv(r) /\ r[1][2] \in 1 .. 2 * K
      BY <1>1, <2>1, <2>2, <3>1, RunOf DEF Good, RunsInv
    <3>. QED  BY <3>1, <3>2, Stages DEF RunInv, Here
  <2>. QED  BY <2>3, <2>4, <2>5
<1>. QED  BY <1>1, <1>2, GoodWhileSound, Inductive, Typing, PTL DEF Spec, EndedIsCompleted


-----------------------------------------------------------------------------
(***************************************************************************)
(* The third invariant: what the workers that run a stage-1 task know of   *)
(* where the stage-2 tasks are, as long as one worker crashed at most and  *)
(* nothing else went wrong.                                                *)
(***************************************************************************)
OneCrash == trouble = {} /\ crashes <= 1
Sent == job[1].pc \in {"monitor", "ended"}
Receives(t) == job[1].out[t[2] - K] = task[t].at

\* The partition map of the job is right as long as there is a sender to use it, and who
\* runs as one has it, or an update is under way to it.  Every task is at a worker the
\* leader is connected to: a call of UpdateTask reaches it.
OutInv == \A t \in Tasks : t[2] \in Stage2 /\ Given1(t) => Receives(t) \/ (Sent /\ NoSender)
TodayOf(r) == wparts[r[2]] = job[1].out \/ <<r[1], r[2]>> \in updates
ToldInv == \A r \in DOMAIN run : run[r].pc = "running" => TodayOf(r)
ConnInv == \A t \in Tasks : Given1(t) => task[t].at \in conns

\* One worker at most has crashed and was not taken for failed yet.
Gone == {n \in Nodes : isAlive[n] /\ ~up[n]}
GoneInv ==
  /\ \A m, n \in Gone : m = n
  /\ fail.pc = "sleep" => Gone = {}
  /\ crashes = 0 => Gone = {} /\ fail.pc # "sleep"

\* Until the failure has been handled every task is where it was first assigned: with the
\* workers recorded then as senders and receivers, and alone there.
Unhurt == crashes = 0 \/ fail.pc = "sleep" \/ Gone # {}
RecordedInv ==
  \A t \in Tasks : Given1(t) =>
    /\ t[2] \in Stage1 => task[t].at \in job[1].senders
    /\ t[2] \in Stage2 => task[t].at \in job[1].receivers /\ Receives(t)
ApartInv == \A t, u \in Tasks : Given1(t) /\ Given1(u) /\ task[t].at = task[u].at => t = u
FirstInv == Unhurt => RecordedInv /\ ApartInv

Routes == OutInv /\ ToldInv /\ ConnInv /\ GoneInv /\ FirstInv

LEMMA InitRoutes == ASSUME OneJob, Init PROVE Routes
<1>1. DOMAIN EmptyMap = {}
  BY DEF EmptyMap
<1>2. job[1].pc = "new" /\ fail.pc = "wait" /\ Gone = {}
  BY JobIsOne DEF Init, NewJob, Gone
<1>3. \A t \in Tasks : ~Given1(t)
  BY <1>2 DEF Given1
<1>. QED  BY <1>1, <1>2, <1>3 DEF Init, Routes, OutInv, ToldInv, ConnInv, GoneInv, FirstInv, RecordedInv, ApartInv

\* A step that gives or moves no task.
LEMMA RoutesKept ==
  ASSUME Routes, UNCHANGED task, conns \subseteq conns',
         job'[1].out = job[1].out, job'[1].senders = job[1].senders, job'[1].receivers = job[1].receivers,
         \A t \in Tasks : Given1(t)' => Given1(t),
         Sent => Sent' /\ \A t \in Tasks : Current(t)' => Current(t),
         ToldInv', GoneInv', Unhurt' => Unhurt
  PROVE  Routes'
<1>1. \A t \in Tasks : Receives(t)' <=> Receives(t)
  BY DEF Receives
<1>2. Sent /\ NoSender => Sent' /\ NoSender'
  BY DEF NoSender
<1>3. OutInv'
  BY <1>1, <1>2 DEF Routes, OutInv
<1>4. ConnInv'
  BY DEF Routes, ConnInv
<1>5. FirstInv'
  BY <1>1 DEF Routes, FirstInv, RecordedInv, ApartInv
<1>. QED  BY <1>3, <1>4, <1>5 DEF Routes

\* Nobody crashes, is taken for failed or joins.
LEMMA GoneKept ==
  ASSUME Routes, UNCHANGED <<isAlive, up, fail, crashes>>
  PROVE  GoneInv' /\ (Unhurt' => Unhurt)
BY DEF Routes, GoneInv, Unhurt, Gone

\* The runs that go on know what they knew.
LEMMA ToldKept ==
  ASSUME Routes, UNCHANGED <<wparts, updates>>, job'[1].out = job[1].out,
         \A r \in DOMAIN run' : run'[r].pc = "running" => r \in DOMAIN run /\ run[r].pc = "running"
  PROVE  ToldInv'
BY DEF Routes, ToldInv, TodayOf

\* A step of a worker or of a report: the leader keeps its job.
LEMMA CallRoutes ==
  ASSUME OneJob, Routes, UNCHANGED <<task, conns, job, isAlive, up, fail, crashes>>,
         \A t \in Tasks : Current(t)' => Current(t), ToldInv'
  PROVE  Routes'
<1>1. \A t \in Tasks : Given1(t)' => Given1(t)
  BY DEF Given1
<1>2. Sent => Sent'
  BY DEF Sent
<1>. QED  BY <1>1, <1>2, GoneKept, RoutesKept

LEMMA GoesKeeps ==
  ASSUME OneJob, TypeInd, NEW pc \in JobPcs, Goes(1, pc)
  PROVE  /\ job'[1].pc = pc /\ job'[1].i = job[1].i
         /\ job'[1].out = job[1].out /\ job'[1].senders = job[1].senders /\ job'[1].receivers = job[1].receivers
<1>1. job' = [job EXCEPT ![1] = [@ EXCEPT !.pc = pc]] /\ job \in [Jobs -> JobRec] /\ 1 \in Jobs
  BY JobIsOne DEF Goes, TypeInd, Types, JobTypes
<1>2. job'[1] = [job[1] EXCEPT !.pc = pc] /\ job[1] \in JobRec
  BY <1>1
<1>. QED  BY <1>2 DEF JobRec

LEMMA CreatorRoutes ==
  ASSUME OneJob, TypeInd, Ind, Good, Routes, trouble' = {},
         Submit(1) \/ CreateJob(1) \/ SendAll(1) \/ MonitorTick(1)
  PROVE  Routes'
<1>1. UNCHANGED <<task, conns, isAlive, up, fail, crashes, wparts, updates>>
  BY DEF Submit, CreateJob, SendAll, MonitorTick, Ticks, lists, workerVars, budget
<1>2. GoneInv' /\ (Unhurt' => Unhurt)
  BY <1>1, GoneKept
<1>3. ASSUME NEW pc \in JobPcs, Goes(1, pc), Sent => Sent' /\ UNCHANGED taskMap,
             \A t \in Tasks : Given1(t)' => Given1(t),
             \A r \in DOMAIN run' : run'[r].pc = "running" => r \in DOMAIN run /\ run[r].pc = "running"
      PROVE  Routes'
  <2>1. /\ job'[1].out = job[1].out /\ job'[1].senders = job[1].senders
        /\ job'[1].receivers = job[1].receivers
    BY <1>3, GoesKeeps
  <2>2. ToldInv'
    BY <1>1, <1>3, <2>1, ToldKept
  <2>3. Sent => Sent' /\ \A t \in Tasks : Current(t)' => Current(t)
    BY <1>3 DEF Current
  <2>. QED  BY <1>1, <1>2, <1>3, <2>1, <2>2, <2>3, RoutesKept
<1>4. CASE Submit(1) \/ CreateJob(1)
  <2>1. PICK pc \in {"create", "assign"} : Goes(1, pc) /\ UNCHANGED run
    BY <1>4 DEF Submit, CreateJob, Fault, Wrong, workerVars
  <2>2. job[1].pc \in {"new", "create"} /\ DOMAIN run = {} /\ job[1].i = 1
    BY <1>4, JobIsOne DEF Submit, CreateJob, Ind, FreshInv, TypeInd, OrderInv
  <2>3. job'[1].pc = pc /\ job'[1].i = 1 /\ pc \in JobPcs
    BY <2>1, <2>2, GoesKeeps DEF JobPcs
  <2>4. \A t \in Tasks : ~Given1(t)'
    <3>1. \A t \in Tasks : ~(t[2] < 1)
      BY JobIsOne
    <3>. QED  BY <2>1, <2>3, <3>1 DEF Given1
  <2>. QED  BY <1>3, <2>1, <2>2, <2>3, <2>4 DEF Sent
<1>5. CASE SendAll(1)
  <2>1. job[1].pc = "assign" /\ Goes(1, "monitor") /\ DOMAIN run = {} /\ "monitor" \in JobPcs
    BY <1>5 DEF SendAll, Ind, FreshInv, JobPcs
  <2>2. job[1].i = 2 * K + 1
    <3>1. Len(assigned) = job[1].i - 1 /\ job[1].ok /\ job[1].i \in Int
      BY <2>1, JobIsOne DEF Good, ListsInv, TypeInd, Types, JobTypes, JobRec
    <3>2. job[1].i > K => assigned # <<>>
      BY <3>1, Sizes
    <3>. QED  BY <1>5, <3>1, <3>2 DEF SendAll
  <2>3. \A t \in Tasks : Given1(t)
    BY <2>1, <2>2, JobIsOne, Sizes DEF Given1
  <2>4. \A r \in DOMAIN run' : run'[r].pc # "running"
    <3>1. PICK R : Sends(R)
      BY <1>5 DEF SendAll
    <3>. QED  BY <2>1, <3>1 DEF Sends, Sending
  <2>. QED  BY <1>3, <2>1, <2>3, <2>4 DEF Sent
<1>6. CASE MonitorTick(1)
  <2>1. job[1].pc = "monitor" /\ Goes(1, "ended") /\ UNCHANGED <<run, taskMap>> /\ "ended" \in JobPcs
    BY <1>6 DEF MonitorTick, Ticks, JobPcs, workerVars
  <2>2. job'[1].pc = "ended"
    BY <2>1, GoesKeeps
  <2>. QED  BY <1>3, <2>1, <2>2 DEF Sent, Given1
<1>. QED  BY <1>4, <1>5, <1>6

\* What an assignment records of the task and the worker it is given to.
Records(t, w) ==
  /\ t[2] \in Stage1 => /\ job'[1].senders = job[1].senders \cup {w}
                        /\ job'[1].out = job[1].out /\ job'[1].receivers = job[1].receivers
  /\ t[2] \in Stage2 => /\ job'[1].out = [job[1].out EXCEPT ![t[2] - K] = w]
                        /\ job'[1].receivers = job[1].receivers \cup {w}
                        /\ job'[1].senders = job[1].senders

LEMMA AssignRecords ==
  ASSUME OneJob, TypeInd, Ind, AssignStage1(1) \/ AssignStage2(1), "crowded" \notin trouble'
  PROVE  \E t \in Tasks, w \in Nodes :
           /\ Assigns(1, t, w) /\ trouble' = trouble \cup Spoilt(t, w) /\ Records(t, w)
<1>1. job \in [Jobs -> JobRec] /\ 1 \in Jobs /\ job[1] \in JobRec
  BY JobIsOne DEF TypeInd, Types, JobTypes
<1>2. PICK i \in 1 .. 2 * K : i = job[1].i
  BY <1>1, JobIsOne, AssignOf DEF TypeInd, Types
<1>3. PICK t \in Tasks : t = <<1, i>> /\ t[2] = i
  BY <1>2, JobIsOne
<1>4. CASE AssignStage1(1)
  <2>1. PICK w \in Candidates(Holders) :
          /\ queue' = [queue EXCEPT ![w] = Append(@, t)]
          /\ task' = [task EXCEPT ![t] = [id |-> NextId, at |-> w]]
          /\ taskMap' = Put(taskMap, NextId, t)
          /\ assigned' = Append(assigned, t)
          /\ job' = [job EXCEPT ![1].i = @ + 1, ![1].senders = @ \cup {w}]
          /\ trouble' = trouble \cup Spoilt(t, w)
          /\ UNCHANGED waiting
    BY <1>2, <1>3, <1>4 DEF AssignStage1
  <2>2. w \in Nodes /\ isAlive[w]
    BY CandidatesOf
  <2>3. Assigns(1, t, w)
    BY <1>2, <1>3, <1>4, <2>1, <2>2 DEF AssignStage1, Assigns, Placed, Listed
  <2>4. t[2] \in Stage1 /\ t[2] \notin Stage2
    BY <1>2, <1>3, <1>4, Stages DEF AssignStage1
  <2>5. job'[1] = [job[1] EXCEPT !.i = @ + 1, !.senders = @ \cup {w}]
    BY <1>1, <2>1
  <2>6. Records(t, w)
    BY <1>1, <2>4, <2>5 DEF Records, JobRec
  <2>. QED  BY <2>1, <2>2, <2>3, <2>6
<1>5. CASE AssignStage2(1)
  <2>1. PICK w \in Candidates({}) :
          /\ queue' = [queue EXCEPT ![w] = Append(@, t)] /\ waiting' = waiting
          /\ task' = [task EXCEPT ![t] = [id |-> NextId, at |-> w]]
          /\ job' = [job EXCEPT ![1].i = i + 1, ![1].out[i - K] = w, ![1].receivers = @ \cup {w}]
          /\ trouble' = trouble \cup Spoilt(t, w)
    <3>1. PICK w \in IF Candidates({}) = {} THEN {NoNode} ELSE Candidates({}) :
            LET at == IF w = NoNode THEN Worker0 ELSE w IN
            /\ queue' = IF w = NoNode THEN queue ELSE [queue EXCEPT ![w] = Append(@, t)]
            /\ waiting' = IF w = NoNode THEN Append(waiting, t) ELSE waiting
            /\ task' = [task EXCEPT ![t] = [id |-> NextId, at |-> at]]
            /\ job' = [job EXCEPT ![1].i = i + 1, ![1].out[i - K] = at, ![1].receivers = @ \cup {at}]
            /\ trouble' = trouble \cup IF w = NoNode THEN {"crowded"} ELSE Spoilt(t, w)
      BY <1>2, <1>3, <1>5 DEF AssignStage2
    <3>2. w # NoNode
      BY <3>1
    <3>3. w \in Candidates({})
      BY <3>1, <3>2
    <3>. QED  BY <3>1, <3>2, <3>3
  <2>2. w \in Nodes /\ isAlive[w]
    BY CandidatesOf
  <2>3. Assigns(1, t, w)
    BY <1>2, <1>3, <1>5, <2>1, <2>2 DEF AssignStage2, Assigns, Placed, Listed
  <2>4. t[2] \in Stage2 /\ t[2] \notin Stage1
    BY <1>2, <1>3, <1>5, Stages DEF AssignStage2
  <2>5. job'[1] = [job[1] EXCEPT !.i = i + 1, !.out[i - K] = w, !.receivers = @ \cup {w}]
    BY <1>1, <2>1
  <2>6. Records(t, w)
    BY <1>1, <1>3, <2>4, <2>5 DEF Records, JobRec
  <2>. QED  BY <2>1, <2>2, <2>3, <2>6
<1>. QED  BY <1>4, <1>5

\* A new task is recorded, at a worker that has no other and is connected.
LEMMA AssignRoutes ==
  ASSUME OneJob, TypeInd, Ind, Good, Routes, AssignStage1(1) \/ AssignStage2(1), trouble' = {}
  PROVE  Routes'
<1>1. PICK t \in Tasks, w \in Nodes :
        Assigns(1, t, w) /\ trouble' = trouble \cup Spoilt(t, w) /\ Records(t, w)
  BY AssignRecords
<1>2. UNCHANGED <<conns, isAlive, up, fail, crashes, wparts, updates, run>>
  BY <1>1 DEF Assigns, workerVars, budget
<1>3. job[1].pc = "assign" /\ t[2] = job[1].i /\ DOMAIN run = {} /\ DOMAIN taskMap = 1 .. job[1].i - 1 /\ Listing(taskMap)
  BY <1>1 DEF Assigns, Ind, FreshInv, Good, ListsInv
<1>4. job'[1].pc = "assign" /\ job'[1].i = job[1].i + 1 /\ job[1].i \in 1 .. 2 * K /\ job[1].out \in PartsType
  <2>1. JobTypes /\ 1 \in Jobs
    BY JobIsOne DEF TypeInd, Types
  <2>. QED  BY <2>1, AssignOf DEF JobTypes, JobRec
<1>5. task'[t].at = w /\ \A u \in Tasks : u # t => task'[u] = task[u]
  BY <1>1 DEF Assigns, TypeInd, Types, MapTypes
<1>6. \A u \in Tasks : Given1(u)' <=> (Given1(u) \/ u = t)
  <2>1. \A u \in Tasks : u[2] < job[1].i + 1 <=> (u[2] < job[1].i \/ u[2] = job[1].i)
    BY <1>4, JobIsOne
  <2>. QED  BY <1>3, <1>4, <2>1, JobIsOne DEF Given1
<1>7. ~Given1(t)
  BY <1>3, <1>4 DEF Given1
<1>8. w \in conns /\ "crowded" \notin Spoilt(t, w)
  BY <1>1 DEF Spoilt
<1>9. ASSUME NEW u \in Tasks, Given1(u) PROVE u # t /\ task[u].at # w /\ task'[u] = task[u]
  <2>1. u[2] \in DOMAIN taskMap
    BY <1>3, <1>4, <1>9, JobIsOne DEF Given1
  <2>2. taskMap[u[2]] = u
    BY <1>3, <2>1, JobIsOne DEF Listing
  <2>3. u \in Range(taskMap) \ {NoTask, t}
    BY <1>7, <1>9, <2>1, <2>2, Constants DEF Range
  <2>. QED  BY <1>5, <1>7, <1>8, <1>9, <2>3, SpoiltOf
<1>10. \A u \in Tasks : u[2] \in Stage2 => u[2] - K \in Stage1
  BY Sizes DEF Stage1, Stage2
<1>11. t[2] \in Stage2 => Receives(t)'
  BY <1>1, <1>4, <1>5, <1>10 DEF Records, Receives, PartsType
<1>12. ASSUME NEW u \in Tasks, Given1(u), u[2] \in Stage2, Receives(u) PROVE Receives(u)'
  <2>1. u[2] - K # t[2] - K
    <3>1. u[2] # t[2]
      BY <1>9, <1>12, JobIsOne
    <3>2. u[2] \in 1 .. 2 * K /\ t[2] \in 1 .. 2 * K
      BY JobIsOne
    <3>. QED  BY <3>1, <3>2, Sizes
  <2>2. t[2] \in Stage1 \/ t[2] \in Stage2
    BY <1>3, <1>4, Stages
  <2>. QED  BY <1>1, <1>4, <1>9, <1>10, <1>12, <2>1, <2>2 DEF Records, Receives, PartsType
<1>13. OutInv'
  <2>1. ~Sent
    BY <1>3 DEF Sent
  <2>2. \A u \in Tasks : u[2] \in Stage2 /\ Given1(u) => Receives(u)
    BY <2>1 DEF Routes, OutInv
  <2>. QED  BY <1>6, <1>11, <1>12, <2>2 DEF OutInv
<1>14. ConnInv'
  BY <1>2, <1>5, <1>6, <1>8, <1>9 DEF Routes, ConnInv
<1>15. GoneInv' /\ (Unhurt' => Unhurt)
  BY <1>2, GoneKept
<1>16. ASSUME Unhurt PROVE RecordedInv' /\ ApartInv'
  <2>1. RecordedInv /\ ApartInv
    BY <1>16 DEF Routes, FirstInv
  <2>2. t[2] \in Stage1 \/ t[2] \in Stage2
    BY <1>3, <1>4, Stages
  <2>3. /\ job[1].senders \subseteq job'[1].senders /\ job[1].receivers \subseteq job'[1].receivers
        /\ t[2] \in Stage1 => w \in job'[1].senders
        /\ t[2] \in Stage2 => w \in job'[1].receivers
    BY <1>1, <2>2 DEF Records
  <2>4. RecordedInv'
    BY <1>5, <1>6, <1>9, <1>11, <1>12, <2>1, <2>3 DEF RecordedInv
  <2>5. ApartInv'
    BY <1>5, <1>6, <1>9, <2>1 DEF ApartInv
  <2>. QED  BY <2>4, <2>5
<1>17. ToldInv'
  BY <1>2, <1>3 DEF ToldInv
<1>. QED  BY <1>13, <1>14, <1>15, <1>16, <1>17 DEF Routes, FirstInv

\* A task is started, with the partition map of the job.
LEMMA DeliverRoutes ==
  ASSUME OneJob, TypeInd, Ind, Good, Routes, NEW r \in DOMAIN run, Deliver(r[1], r[2]), trouble' = {}
  PROVE  Routes'
<1>1. r[1] \in Tasks /\ r[2] \in Nodes /\ r = <<r[1], r[2]>> /\ r[1][1] = 1
  BY RunOf, JobIsOne
<1>2. /\ wparts' = [wparts EXCEPT ![r[2]] = job[1].out] /\ UNCHANGED <<leaderVars, up, crashes>>
      /\ Runs(r, "running") \/ run' = Over({r})
  BY <1>1 DEF Deliver, NoFault, Fault, Wrong
<1>3. UNCHANGED <<task, taskMap, conns, job, isAlive, fail, updates>>
  BY <1>2 DEF leaderVars, lists
<1>4. \A q \in DOMAIN run' : q \in DOMAIN run /\ (q # r => run'[q] = run[q])
  <2>1. RunTypes /\ "running" \in RunPcs
    BY DEF RunPcs, TypeInd, Types
  <2>2. CASE Runs(r, "running")
    BY <2>1, <2>2, RunsOf
  <2>3. CASE run' = Over({r})
    BY <2>1, <2>3, OverOf
  <2>. QED  BY <1>2, <2>2, <2>3
<1>5. wparts \in [Nodes -> PartsType]
  BY DEF TypeInd, Types, WorkerTypes
<1>6. ASSUME NEW q \in DOMAIN run', run'[q].pc = "running" PROVE TodayOf(q)'
  <2>1. q \in DOMAIN run /\ q[2] \in Nodes
    BY <1>4, <1>6, RunOf
  <2>2. CASE q[2] = r[2]
    BY <1>1, <1>2, <1>3, <1>5, <2>2 DEF TodayOf
  <2>3. CASE q[2] # r[2]
    <3>1. run[q].pc = "running" /\ wparts'[q[2]] = wparts[q[2]]
      BY <1>2, <1>4, <1>5, <1>6, <2>1, <2>3
    <3>. QED  BY <1>3, <2>1, <3>1 DEF Routes, ToldInv, TodayOf
  <2>. QED  BY <2>2, <2>3
<1>7. \A t \in Tasks : Current(t)' => Current(t)
  BY <1>3 DEF Current
<1>. QED  BY <1>2, <1>3, <1>6, <1>7, CallRoutes DEF ToldInv

\* A call is lost, a run reports, or its report is handled.
LEMMA ReportRoutes ==
  ASSUME OneJob, TypeInd, Ind, Good, Routes, NEW r \in DOMAIN run, trouble' = {},
         SendFails(r[1], r[2]) \/ Report(r[1], r[2]) \/ Notified(r) \/ Checked(r) \/ TellReceiver(r)
  PROVE  Routes'
<1>1. UNCHANGED <<task, conns, job, isAlive, up, fail, crashes, updates, wparts>>
  BY DEF SendFails, Report, Notified, Checked, TellReceiver, leaderVars, lists, budget, NoFault, Fault, Wrong
<1>2. RunTypes /\ QueueTypes /\ MapTypes /\ {"called", "marked", "telling"} \subseteq RunPcs
  BY DEF TypeInd, Types, RunPcs
<1>3. run[r].id \in Ids /\ r = <<r[1], r[2]>>
  BY <1>2 DEF RunTypes, RunRec
<1>4. \A t \in Tasks : Current(t)' => Current(t)
  <2>1. CASE SendFails(r[1], r[2]) \/ Report(r[1], r[2]) \/ Checked(r)
    BY <2>1 DEF SendFails, Report, Checked, leaderVars, lists, Current
  <2>2. CASE Notified(r)
    <3>1. MarkCompleted(run[r].id)
      BY <2>2 DEF Notified, Fault, Wrong
    <3>. QED  BY <1>2, <1>3, <3>1, MarkOf
  <2>3. CASE TellReceiver(r)
    BY <1>2, <2>3, TellOf, MarkOf
  <2>. QED  BY <2>1, <2>2, <2>3
<1>5. \A q \in DOMAIN run' : q \in DOMAIN run /\ (run'[q].pc = "running" => run[q].pc = "running")
  <2>1. CASE SendFails(r[1], r[2])
    <3>1. run' = Over({r})
      BY <1>3, <2>1 DEF SendFails
    <3>. QED  BY <1>2, <3>1, OverOf
  <2>2. CASE Report(r[1], r[2])
    BY <2>2, ReportOf
  <2>3. CASE Notified(r)
    <3>1. Runs(r, "marked")
      BY <2>3 DEF Notified
    <3>. QED  BY <1>2, <3>1, RunsOf
  <2>4. CASE Checked(r)
    <3>1. CASE AllSendersCompleted
      <4>1. run' = [run EXCEPT ![r].pc = "telling", ![r].i = K + 1]
        BY <2>4, <3>1 DEF Checked
      <4>2. DOMAIN run' = DOMAIN run /\ \A q \in DOMAIN run : q # r => run'[q] = run[q]
        BY <4>1
      <4>3. run'[r].pc = "telling"
        BY <1>2, <4>1 DEF RunTypes, RunRec
      <4>. QED  BY <4>2, <4>3
    <3>2. CASE ~AllSendersCompleted
      <4>1. run' = Over({r})
        BY <2>4, <3>2 DEF Checked
      <4>. QED  BY <1>2, <4>1, OverOf
    <3>. QED  BY <3>1, <3>2
  <2>5. CASE TellReceiver(r)
    BY <2>5, TellOf
  <2>. QED  BY <2>1, <2>2, <2>3, <2>4, <2>5
<1>6. ToldInv'
  BY <1>1, <1>5, ToldKept
<1>. QED  BY <1>1, <1>4, <1>6, CallRoutes

\* An update reaches the worker, which has the task queued: it has the map from then on.
LEMMA UpdateTaskRoutes ==
  ASSUME OneJob, TypeInd, Ind, Good, Routes, NEW u \in updates, UpdateTask(u[1], u[2]), trouble' = {}
  PROVE  Routes'
<1>1. u \in Tasks \X Nodes /\ u[1] \in Tasks /\ u[2] \in Nodes /\ u = <<u[1], u[2]>> /\ u[1][1] = 1
  <2>1. u \in Tasks \X Nodes
    BY DEF TypeInd, Types, LeaderTypes
  <2>. QED  BY <2>1, JobIsOne
<1>2. /\ updates' = updates \ {u}
      /\ wparts' = IF up[u[2]] /\ task[u[1]].id \in Range(wq[u[2]])
                     THEN [wparts EXCEPT ![u[2]] = job[1].out] ELSE wparts
      /\ UNCHANGED <<task, taskMap, conns, job, isAlive, up, fail, crashes, run>>
  BY <1>1 DEF UpdateTask, NoFault, Fault, Wrong, lists
<1>3. wparts \in [Nodes -> PartsType] /\ wq \in [Nodes -> Seq(Ids)]
  BY DEF TypeInd, Types, WorkerTypes
<1>4. ASSUME NEW q \in DOMAIN run', run'[q].pc = "running" PROVE TodayOf(q)'
  <2>1. /\ q \in DOMAIN run /\ run[q].pc = "running" /\ q[1] \in Tasks /\ q[2] \in Nodes
        /\ q = <<q[1], q[2]>> /\ RunInv(q) /\ TodayOf(q) /\ job[1].pc \in {"monitor", "ended"}
    BY <1>2, <1>4, RunOf DEF Good, RunsInv, Routes, ToldInv
  <2>2. wparts'[q[2]] \in {wparts[q[2]], job[1].out}
    BY <1>1, <1>2, <1>3, <2>1
  <2>3. CASE q = u
    <3>1. up[u[2]] /\ wq[u[2]] # <<>> /\ Last(wq[u[2]]) = u[1][2] /\ task[u[1]].id = u[1][2]
      BY <2>1, <2>3, Numbers DEF RunInv, Good
    <3>2. u[1][2] \in Range(wq[u[2]])
      BY <1>1, <1>3, <3>1, LastOf
    <3>. QED  BY <1>1, <1>2, <1>3, <2>3, <3>1, <3>2 DEF TodayOf
  <2>4. CASE q # u
    BY <1>2, <2>1, <2>2, <2>4 DEF TodayOf
  <2>. QED  BY <2>3, <2>4
<1>5. \A t \in Tasks : Current(t)' => Current(t)
  BY <1>2 DEF Current
<1>. QED  BY <1>2, <1>4, <1>5, CallRoutes DEF ToldInv

\* A worker crashes, is taken for failed, joins or is connected; the failed one had no task.
LEMMA NodeRoutes ==
  ASSUME OneJob, TypeInd, Ind, Good, Routes, OneCrash',
         (\E n \in Nodes : Crash(n) \/ FailSignal(n) \/ Join(n)) \/ Connect \/ HandleNothing
  PROVE  Routes'
<1>. DEFINE Same == /\ UNCHANGED <<task, taskMap, job, updates>> /\ conns \subseteq conns'
                    /\ \A r \in DOMAIN run' : run'[r].pc = "running" =>
                         /\ r \in DOMAIN run /\ run[r].pc = "running"
                         /\ wparts'[r[2]] = wparts[r[2]]
<1>1. ASSUME Same, GoneInv', Unhurt' => Unhurt PROVE Routes'
  <2>1. ToldInv'
    BY <1>1 DEF Routes, ToldInv, TodayOf
  <2>2. (\A t \in Tasks : Given1(t)' => Given1(t)) /\ (Sent => Sent' /\ \A t \in Tasks : Current(t)' => Current(t))
    BY <1>1 DEF Given1, Sent, Current
  <2>. QED  BY <1>1, <2>1, <2>2, RoutesKept
<1>2. /\ isAlive \in [Nodes -> BOOLEAN] /\ up \in [Nodes -> BOOLEAN] /\ wparts \in [Nodes -> PartsType]
      /\ fail \in FailRec /\ crashes \in Nat /\ trouble' = {}
  <2>1. crashes \in Nat
    BY Constants DEF TypeInd, Types, BudgetTypes
  <2>. QED  BY <2>1 DEF TypeInd, Types, LeaderTypes, WorkerTypes, OneCrash
<1>3. GoneInv
  BY DEF Routes
<1>4. ASSUME NEW n \in Nodes, Crash(n) PROVE Routes'
  <2>1. /\ UNCHANGED leaderVars /\ up' = [up EXCEPT ![n] = FALSE] /\ crashes' = crashes + 1
        /\ wparts' = [wparts EXCEPT ![n] = NoParts]
    BY <1>4 DEF Crash
  <2>2. crashes = 0
    BY <1>2, <2>1 DEF OneCrash
  <2>3. Gone = {} /\ fail.pc # "sleep" /\ Unhurt
    BY <1>3, <2>2 DEF GoneInv, Unhurt
  <2>4. UNCHANGED <<task, taskMap, job, updates, conns, isAlive, fail>>
    BY <2>1 DEF leaderVars, lists
  <2>5. Gone' \subseteq {n}
    BY <1>2, <2>1, <2>3, <2>4 DEF Gone
  <2>6. GoneInv'
    BY <2>1, <2>2, <2>3, <2>4, <2>5 DEF GoneInv
  <2>7. \A r \in DOMAIN run' : run'[r].pc = "running" =>
          r \in DOMAIN run /\ run[r].pc = "running" /\ r[2] # n /\ r[2] \in Nodes
    <3>1. PICK late \in SUBSET {r \in At({"called"}) : r[2] = n} :
            run' = Over({r \in At({"running", "called"}) : r[2] = n} \ late)
      BY <1>4 DEF Crash
    <3>. DEFINE R == {r \in At({"running", "called"}) : r[2] = n} \ late
    <3>2. DOMAIN run' = DOMAIN run \ R /\ \A r \in DOMAIN run' : run'[r] = run[r]
      <4>1. RunTypes
        BY DEF TypeInd, Types
      <4>. QED  BY <3>1, <4>1, OverOf, Zenon
    <3>3. ASSUME NEW r \in DOMAIN run', run'[r].pc = "running"
          PROVE  r \in DOMAIN run /\ run[r].pc = "running" /\ r[2] # n /\ r[2] \in Nodes
      <4>1. r \in DOMAIN run /\ r \notin R /\ run[r].pc = "running"
        BY <3>2, <3>3
      <4>2. r \notin late
        BY <3>1, <4>1 DEF At
      <4>. QED  BY <4>1, <4>2, RunOf DEF At
    <3>. QED  BY <3>3
  <2>8. Same
    BY <1>2, <2>1, <2>4, <2>7
  <2>. QED  BY <1>1, <2>3, <2>6, <2>8
<1>5. ASSUME NEW n \in Nodes, FailSignal(n) PROVE Routes'
  <2>1. /\ ~up[n] /\ isAlive[n] /\ isAlive' = [isAlive EXCEPT ![n] = FALSE] /\ fail'.pc = "sleep"
        /\ UNCHANGED <<task, taskMap, job, updates, conns, up, wparts, run, crashes>>
    BY <1>2, <1>5 DEF FailSignal, Wrong, workerVars
  <2>2. Gone = {n}
    BY <1>3, <2>1 DEF Gone, GoneInv
  <2>3. Gone' = {} /\ Unhurt /\ crashes # 0
    BY <1>2, <1>3, <2>1, <2>2 DEF Gone, GoneInv, Unhurt
  <2>4. GoneInv'
    BY <2>1, <2>3 DEF GoneInv
  <2>5. Same
    BY <2>1
  <2>. QED  BY <1>1, <2>3, <2>4, <2>5
<1>6. ASSUME NEW n \in Nodes, Join(n) PROVE Routes'
  <2>1. /\ ~isAlive[n] /\ up' = [up EXCEPT ![n] = TRUE] /\ isAlive' = [isAlive EXCEPT ![n] = TRUE]
        /\ UNCHANGED <<task, taskMap, job, updates, conns, fail, wparts, run, crashes>>
    BY <1>2, <1>6 DEF Join, lists
  <2>2. Gone' \subseteq Gone
    BY <1>2, <2>1 DEF Gone
  <2>3. GoneInv' /\ (Unhurt' => Unhurt)
    BY <1>3, <2>1, <2>2 DEF GoneInv, Unhurt
  <2>4. Same
    BY <2>1
  <2>. QED  BY <1>1, <2>3, <2>4
<1>7. CASE Connect
  <2>1. UNCHANGED <<isAlive, up, fail, crashes>> /\ Same
    BY <1>7 DEF Connect, lists, budget
  <2>. QED  BY <1>1, <2>1, GoneKept
<1>8. CASE HandleNothing
  <2>1. fail.pc = "sleep" /\ fail'.pc = "wait" /\ UNCHANGED <<isAlive, up, crashes>> /\ Same
    BY <1>2, <1>8 DEF HandleNothing, Slept, FailRec, lists, workerVars, budget
  <2>2. Gone' = {} /\ crashes # 0
    BY <1>3, <2>1 DEF GoneInv, Gone
  <2>3. GoneInv'
    BY <2>1, <2>2 DEF GoneInv
  <2>. QED  BY <1>1, <2>1, <2>2, <2>3 DEF Unhurt
<1>. QED  BY <1>4, <1>5, <1>6, <1>7, <1>8

\* The task of a failed worker is moved.  If it is a stage-2 task every stage-1 task under
\* way is in the queue of a recorded sender, and the update goes to it.
LEMMA HandleRoutes ==
  ASSUME OneJob, TypeInd, Ind, Good, Routes, trouble = {}, NEW t \in Tasks, Handle(t),
         job[t[1]].i = 2 * K + 1, trouble' = {}
  PROVE  Routes'
<1>. DEFINE n == fail.n
            Told(q) == IF t[2] \in Stage2 /\ n \in job[1].receivers
                         THEN UNION {Range(q[s]) : s \in job[1].senders} ELSE {}
<1>1. /\ Slept /\ task[t].at = n /\ Current(t) /\ fail'.pc = "wait" /\ n \in Nodes
      /\ \A u \in Tasks : u # t => task'[u] = task[u]
      /\ job'[1].pc = job[1].pc /\ job'[1].i = job[1].i
      /\ UNCHANGED <<isAlive, taskMap, conns, up, wq, wparts, crashes>>
  <2>1. fail \in FailRec
    BY DEF TypeInd, Types, LeaderTypes
  <2>. QED  BY <2>1, HandleOf, JobIsOne DEF budget, FailRec
<1>2. PICK w \in Candidates({}) : Reschedule(t, w)
  BY DEF Handle, MoveTask
<1>3. /\ w \in conns /\ task'[t].at = w /\ Sends({<<t, w>>})
      /\ queue \in [Nodes -> Seq(Tasks)] /\ w \in Nodes
  <2>1. task \in [Tasks -> TaskRec] /\ queue \in [Nodes -> Seq(Tasks)]
    BY DEF TypeInd, Types, MapTypes, QueueTypes
  <2>2. task' = [task EXCEPT ![t].at = w] /\ Sends({<<t, w>>}) /\ w \in conns
    BY <1>2 DEF Reschedule, Spoilt
  <2>3. task'[t].at = w
    BY <2>1, <2>2 DEF TaskRec
  <2>. QED  BY <2>1, <2>2, <2>3, CandidatesOf
<1>4. PICK q : q = [queue EXCEPT ![w] = Append(@, t)]
  OBVIOUS
<1>5. PICK told : told = Told(q)
  OBVIOUS
<1>. HIDE DEF Told
<1>6. PICK parts \in NewParts(1, n, w, told) : job' = [job EXCEPT ![1].out = parts]
  <2>1. t[1] = 1
    BY JobIsOne
  <2>2. told = IF t[2] \in Stage2 /\ n \in job[t[1]].receivers
                 THEN UNION {Range(q[s]) : s \in job[t[1]].senders} ELSE {}
    BY <1>5, <2>1 DEF Told
  <2>. DEFINE all == IF t[2] \in Stage2 /\ fail.n \in job[t[1]].receivers
                       THEN UNION {Range([queue EXCEPT ![w] = Append(@, t)][s]) : s \in job[t[1]].senders}
                       ELSE {}
  <2>3. PICK ps \in NewParts(t[1], fail.n, w, all) : job' = [job EXCEPT ![t[1]].out = ps]
    BY <1>2, Zenon DEF Reschedule
  <2>4. told = all
    BY <1>4, <2>2
  <2>. HIDE DEF all
  <2>5. ps \in NewParts(1, n, w, told)
    BY <2>1, <2>3, <2>4
  <2>. QED  BY <2>1, <2>3, <2>5
<1>7. updates' = updates \cup {u \in told \X conns : task[u[1]].id \in Range(wq[u[2]])}
  <2>1. t[1] = 1
    BY JobIsOne
  <2>. QED  BY <1>2, <1>4, <1>5, <2>1 DEF Reschedule, Told
<1>8. fail.pc = "sleep" /\ Unhurt /\ Gone = {} /\ crashes # 0
  BY <1>1 DEF Slept, Unhurt, Routes, GoneInv
<1>9. GoneInv' /\ ~Unhurt'
  BY <1>1, <1>8 DEF GoneInv, Unhurt, Gone
<1>10. Sent
  <2>1. job[1].pc \in JobPcs
    BY JobIsOne DEF TypeInd, Types, JobTypes, JobRec
  <2>2. DOMAIN taskMap # {} /\ job[1].pc # "assign"
    BY <1>1, JobIsOne DEF Current, Slept
  <2>. QED  BY <1>8, <2>1, <2>2 DEF JobPcs, Ind, FreshInv, Sent
<1>11. Sent' /\ \A u \in Tasks : Given1(u) /\ (Current(u)' <=> Current(u))
  BY <1>1, <1>10 DEF Sent, Given1, Current
<1>12. RecordedInv /\ ApartInv
  BY <1>8 DEF Routes, FirstInv
<1>13. job[1].out \in PartsType /\ job'[1].out = parts /\ job[1].senders \subseteq Nodes
  <2>1. job \in [Jobs -> JobRec] /\ 1 \in Jobs /\ job[1] \in JobRec
    BY JobIsOne DEF TypeInd, Types, JobTypes
  <2>2. job'[1] = [job[1] EXCEPT !.out = parts]
    BY <1>6, <2>1
  <2>. QED  BY <2>1, <2>2 DEF JobRec
<1>14. t[2] \in 1 .. 2 * K /\ ~isAlive[n] /\ Calm /\ "crowded" \notin trouble
  BY <1>8, JobIsOne DEF Ind, FailInv, Calm
<1>15. ASSUME NEW r \in DOMAIN run', run'[r].pc = "running"
       PROVE  /\ r \in DOMAIN run /\ r[1] \in Tasks /\ r[2] \in Nodes /\ r = <<r[1], r[2]>>
              /\ r[1][2] \in Stage1 /\ Here(r) /\ TodayOf(r) /\ run[r].pc = "running" /\ RunInv(r)
  <2>1. {<<t, w>>} \in SUBSET (Tasks \X Nodes) /\ RunTypes /\ MapTypes
    BY <1>3 DEF TypeInd, Types
  <2>2. r \in DOMAIN run /\ run[r].pc = "running"
    BY <1>3, <1>15, <2>1, SendsOf
  <2>3. /\ r[1] \in Tasks /\ r[2] \in Nodes /\ r = <<r[1], r[2]>> /\ r[1][2] \in 1 .. 2 * K
        /\ RunInv(r) /\ TodayOf(r)
    BY <2>2, RunOf DEF Good, RunsInv, Routes, ToldInv
  <2>. QED  BY <2>2, <2>3, Stages DEF RunInv
<1>16. ConnInv'
  BY <1>1, <1>3, <1>11 DEF Routes, ConnInv
<1>17. CASE t[2] \in Stage1
  <2>1. told = {} /\ t[2] \notin Stage2
    BY <1>5, <1>14, <1>17, Stages DEF Told
  <2>2. parts = job[1].out
    BY <1>6, <2>1 DEF NewParts
  <2>3. OutInv'
    BY <1>1, <1>11, <1>13, <2>1, <2>2 DEF Routes, OutInv, Receives, Sent, NoSender
  <2>4. ToldInv'
    BY <1>1, <1>7, <1>13, <1>15, <2>2 DEF ToldInv, TodayOf
  <2>. QED  BY <1>9, <1>16, <2>3, <2>4 DEF Routes, FirstInv
<1>18. CASE t[2] \in Stage2
  <2>1. n \in job[1].receivers /\ told = UNION {Range(q[s]) : s \in job[1].senders}
    BY <1>1, <1>5, <1>11, <1>12, <1>18 DEF RecordedInv, Told
  <2>2. ASSUME NEW u \in Tasks, u[2] \in Stage1, Current(u) PROVE u \in told
    <3>1. u # t
      BY <1>14, <1>18, <2>2, Stages
    <3>2. task[u].at # n
      BY <1>1, <1>14, <2>2, <3>1 DEF Ind, AloneInv
    <3>3. queue[task[u].at] = <<u>>
      BY <1>8, <1>14, <2>2, <3>2 DEF Ind, QueueInv, Handled
    <3>4. task[u].at \in job[1].senders /\ task[u].at \in Nodes
      BY <1>11, <1>12, <1>13, <2>2 DEF RecordedInv
    <3>5. u \in Range(q[task[u].at])
      <4>1. q[task[u].at] = <<u>> \/ q[task[u].at] = Append(<<u>>, t)
        BY <1>3, <1>4, <3>3, <3>4
      <4>2. Range(<<u>>) = {u} /\ Range(Append(<<u>>, t)) = {u, t}
        BY DEF Range
      <4>. QED  BY <4>1, <4>2
    <3>. QED  BY <2>1, <3>4, <3>5
  <2>3. t[2] - K \in Stage1
    BY <1>18, Sizes DEF Stage1, Stage2
  <2>4. ASSUME NEW p \in Stage1 PROVE job[1].out[p] = n <=> p = t[2] - K
    <3>1. PICK u \in Tasks : u[2] = K + p
      <4>1. K + p \in 1 .. 2 * K
        BY Sizes DEF Stage1
      <4>2. <<1, K + p>> \in Tasks /\ <<1, K + p>>[2] = K + p
        BY <4>1, JobIsOne
      <4>. QED  BY <4>2
    <3>2. u[2] \in Stage2 /\ u[2] - K = p
      BY <3>1, Sizes DEF Stage1, Stage2
    <3>3. job[1].out[p] = task[u].at
      BY <1>11, <1>12, <3>2 DEF RecordedInv, Receives
    <3>4. job[1].out[t[2] - K] = n
      BY <1>1, <1>11, <1>12, <1>18 DEF RecordedInv, Receives
    <3>5. task[u].at = n => u = t
      BY <1>1, <1>11, <1>12 DEF ApartInv
    <3>. QED  BY <3>2, <3>3, <3>4, <3>5
  <2>5. told # {} => parts = [job[1].out EXCEPT ![t[2] - K] = w]
    <3>1. {p \in Stage1 : job[1].out[p] = n} = {t[2] - K}
      BY <2>3, <2>4
    <3>. QED  BY <1>6, <3>1 DEF NewParts
  <2>6. OutInv'
    <3>1. CASE NoSender
      BY <1>11, <3>1 DEF OutInv, NoSender
    <3>2. CASE ~NoSender
      <4>1. parts = [job[1].out EXCEPT ![t[2] - K] = w]
        BY <2>2, <2>5, <3>2 DEF NoSender
      <4>2. ASSUME NEW u \in Tasks, u[2] \in Stage2 PROVE Receives(u)'
        <5>1. CASE u = t
          BY <1>3, <1>13, <2>3, <4>1, <5>1 DEF Receives, PartsType
        <5>2. CASE u # t
          <6>1. u[2] - K # t[2] - K
            <7>1. u[2] # t[2] /\ u[2] \in 1 .. 2 * K
              BY <5>2, JobIsOne
            <7>. QED  BY <1>14, <7>1, Sizes
          <6>2. job[1].out[u[2] - K] = task[u].at
            BY <1>11, <1>12, <4>2 DEF RecordedInv, Receives
          <6>. QED  BY <1>1, <1>13, <4>1, <5>2, <6>1, <6>2 DEF Receives, PartsType
        <5>. QED  BY <5>1, <5>2
      <4>. QED  BY <4>2 DEF OutInv
    <3>. QED  BY <3>1, <3>2
  <2>7. ASSUME NEW r \in DOMAIN run', run'[r].pc = "running" PROVE TodayOf(r)'
    <3>1. /\ r[1] \in Tasks /\ r[2] \in Nodes /\ r = <<r[1], r[2]>> /\ r[1] \in told
          /\ task[r[1]].at = r[2] /\ r[2] \in conns
      BY <1>11, <1>15, <2>2, <2>7 DEF Here, Routes, ConnInv
    <3>2. task[r[1]].id \in Range(wq[r[2]])
      <4>1. wq[r[2]] \in Seq(Ids) /\ wq[r[2]] # <<>> /\ Last(wq[r[2]]) = r[1][2]
        BY <1>15, <2>7, <3>1 DEF RunInv, TypeInd, Types, WorkerTypes
      <4>2. task[r[1]].id = r[1][2]
        BY <1>10, <3>1, Numbers DEF Good, Sent
      <4>. QED  BY <4>1, <4>2, LastOf
    <3>3. <<r[1], r[2]>> \in updates'
      BY <1>7, <3>1, <3>2
    <3>. QED  BY <3>3 DEF TodayOf
  <2>. QED  BY <1>9, <1>16, <2>6, <2>7 DEF Routes, FirstInv, ToldInv
<1>. QED  BY <1>14, <1>17, <1>18, Stages

LEMMA RoutesStep ==
  ASSUME OneJob, TypeInd, Ind, Sound => Good, OneCrash => Routes, [Next]_vars
  PROVE  OneCrash' => Routes'
<1>. SUFFICES ASSUME OneCrash' PROVE Routes'
  OBVIOUS
<1>1. trouble = {} /\ trouble' = {}
  BY TroubleGrows DEF OneCrash
<1>2. crashes <= crashes'
  <2>1. crashes \in Nat
    BY Constants DEF TypeInd, Types, BudgetTypes
  <2>2. UNCHANGED crashes \/ crashes' = crashes + 1
    BY DEF Next, Progress, Operator, Environment, Creator, CreateJob, AssignStage1, AssignStage2, SendAll,
           MonitorTick, Ticks, Submit, Deliver, SendFails, Report, UpdateTask, Notified, Checked, TellReceiver,
           TellPanics, Panics, FailSignal, Crash, Join, Handle, MoveTask, HandleNothing, Connect, budget, vars
  <2>. QED  BY <2>1, <2>2
<1>3. Good /\ Routes
  <2>1. crashes \in Nat /\ crashes' \in Nat
    <3>1. crashes \in Nat
      BY Constants DEF TypeInd, Types, BudgetTypes
    <3>2. TypeInd'
      BY TypeStep
    <3>. QED  BY <3>1, <3>2, Constants DEF TypeInd, Types, BudgetTypes
  <2>. QED  BY <1>1, <1>2, <2>1 DEF OneCrash, Sound
<1>4. ASSUME NEW j \in Jobs, Creator(j) \/ Submit(j) PROVE Routes'
  <2>1. j = 1
    BY JobIsOne
  <2>. QED  BY <1>1, <1>3, <1>4, <2>1, CreatorRoutes, AssignRoutes DEF Creator
<1>5. ASSUME NEW r \in DOMAIN run, Deliver(r[1], r[2]) \/ SendFails(r[1], r[2]) \/ Report(r[1], r[2])
      PROVE  Routes'
  BY <1>1, <1>3, <1>5, DeliverRoutes, ReportRoutes
<1>6. ASSUME NEW r \in DOMAIN run, Notified(r) \/ Checked(r) \/ TellReceiver(r) PROVE Routes'
  BY <1>1, <1>3, <1>6, ReportRoutes
<1>7. ASSUME NEW r \in DOMAIN run PROVE ~TellPanics(r)
  BY <1>1 DEF TellPanics, Panics
<1>8. ASSUME NEW u \in updates, UpdateTask(u[1], u[2]) PROVE Routes'
  BY <1>1, <1>3, <1>8, UpdateTaskRoutes
<1>9. ASSUME NEW n \in Nodes, FailSignal(n) \/ Crash(n) \/ Join(n) PROVE Routes'
  BY <1>3, <1>9, NodeRoutes
<1>10. ASSUME NEW t \in Tasks, Handle(t) PROVE Routes'
  BY <1>1, <1>3, <1>10, HandleRoutes DEF Handle, Panics
<1>11. CASE HandleNothing \/ Connect
  BY <1>3, <1>11, NodeRoutes
<1>12. CASE UNCHANGED vars
  <2>1. UNCHANGED <<task, taskMap, conns, job, isAlive, up, fail, crashes, run, wparts, updates>>
    BY <1>12 DEF vars, leaderVars, lists, workerVars, budget
  <2>2. \A t \in Tasks : Current(t)' => Current(t)
    BY <2>1 DEF Current
  <2>. QED  BY <1>3, <2>1, <2>2, ToldKept, CallRoutes
<1>. QED  BY <1>4, <1>5, <1>6, <1>7, <1>8, <1>9, <1>10, <1>11, <1>12 DEF Next, Progress, Operator, Environment

\* While there is one job and one worker crashed at most, a running stage-1 task sends to
\* where the stage-2 tasks are, as soon as no update is under way (utils-leader.go:117-190,
\* worker.go:59-88), whenever the crash comes, is noted and is handled.
THEOREM SendersKnow ==
  ASSUME NumJobs = 1
  PROVE  Spec => []SendersRouted
<1>1. OneJob
  BY DEF OneJob
<1>2. Init => (OneCrash => Routes)
  BY <1>1, InitRoutes
<1>3. TypeInd /\ Ind /\ (Sound => Good) /\ (OneCrash => Routes) /\ [Next]_vars => (OneCrash => Routes)'
  BY <1>1, RoutesStep
<1>4. TypeInd /\ Ind /\ (Sound => Good) /\ (OneCrash => Routes) => SendersRouted
  <2>. SUFFICES ASSUME TypeInd, Ind, Good, Routes, updates = {},
                       NEW r \in DOMAIN run, run[r].pc = "running", NEW p \in Stage1
                PROVE  wparts[r[2]][p] = task[<<r[1][1], K + p>>].at
    BY DEF SendersRouted, OneCrash, Sound, At
  <2>1. /\ r[1] \in Tasks /\ r[1][1] = 1 /\ r[1][2] \in Stage1 /\ Current(r[1]) /\ Sent
    <3>1. r[1] \in Tasks /\ r[1][2] \in 1 .. 2 * K /\ RunInv(r) /\ Sent
      BY <1>1, RunOf DEF Good, RunsInv, Sent
    <3>. QED  BY <1>1, <3>1, Stages, JobIsOne DEF RunInv, Here
  <2>2. wparts[r[2]] = job[1].out
    BY DEF Routes, ToldInv, TodayOf
  <2>3. <<1, K + p>> \in Tasks /\ <<1, K + p>>[2] = K + p /\ K + p \in Stage2
    <3>1. K + p \in 1 .. 2 * K /\ K + p \in Stage2
      BY Sizes DEF Stage1, Stage2
    <3>. QED  BY <1>1, <3>1, JobIsOne
  <2>4. job[1].out[p] = task[<<1, K + p>>].at
    <3>. PICK t : t = <<1, K + p>>
      OBVIOUS
    <3>1. t \in Tasks /\ t[2] \in Stage2 /\ t[2] - K = p
      <4>1. t \in Tasks /\ t[2] = K + p /\ K + p \in Stage2
        BY <2>3
      <4>2. \A x \in Int : x = K + p => x - K = p
        BY Sizes DEF Stage1
      <4>3. K + p \in Int
        BY Sizes DEF Stage1
      <4>. QED  BY <4>1, <4>2, <4>3
    <3>2. Given1(t) /\ ~NoSender
      BY <2>1 DEF Given1, Sent, NoSender
    <3>. QED  BY <3>1, <3>2 DEF Routes, OutInv, Receives
  <2>. QED  BY <2>1, <2>2, <2>4
<1>. QED  BY <1>1, <1>2, <1>3, <1>4, GoodWhileSound, Inductive, Typing, PTL DEF Spec
=============================================================================
