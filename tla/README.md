# RainStorm and HyDFS: TLA+ models, checks and proofs

RainStorm is a stream processor (`src/Stream`) on a distributed file system, HyDFS
(`src/HyDfs`), on a membership service with failure detection (`src/GroupMembership`).
Every node runs one process with all three. This directory holds TLA+ modules for their
core logic, the TLC configurations that check them on small instances, and proofs checked
by TLAPS.

## 1. The system

| Part | Keeps | Operations | Talks to |
|---|---|---|---|
| Worker (`Stream/worker.go`, `utils-tasks.go`, `network/transfer.go`) | task queue, tuple acknowledgements, unacknowledged tuples with retry counts, duplicate log (aol) in memory and on disk, counts per key, a mutex | run a stage-1 task: read a partition, op1, send tuples, retry; run a stage-2 task: prepare, take tuples, op2, write, log, acknowledge | other workers (`ExchangeTuples`), leader (`SendNotification`), HyDFS (`DoWriteOperationClient`) |
| Leader (`Stream/leader.go`, `utils-leader.go`, `connection.go`), on the introducer | `Workers` with their task queues, `TaskMap`, `assignedTasks`, `CompletedTask`, `JobTaskMap`, the senders, receivers and partition map of each job, connections | create a job, partition the input, assign, send, mark completed, tell the receivers, monitor every 20 s, reschedule after a failure, tell the senders | workers (`SendTask`, `UpdateTask`, `SendNotification`), HyDFS channels |
| HyDFS node (`HyDfs/AOL`, `fileOperations.go`, `coordinator.go`, `hydfs.go`) | files, an append-only log for each file, `Mapper`/`IsRead`, failed nodes collected | create, append, read, merge, replicate a log entry, merge the logs every 10 s, repair after a failure | other nodes (gRPC), membership (list, channels), leader (channel) |
| Ring (`HyDfs/utils/ring.go`, `utils.go`, `GroupMembership/repairFailures.go`) | nothing | route a file, ranges to send for a failed peer, files in a range | |
| Failure detector (`GroupMembership/process.go`, `membershipList.go`, `messages.go`, `suspicion.go`) | membership list, message buffer, acknowledgement channels, two mutexes | ping the neighbours, suspect, fail, rejuvenate, act on messages | other nodes (UDP), HyDFS (unbuffered channels) |
| Membership (`introducer.go`, `membershipList.go`, `messages.go`) | of every node a sorted list and a buffer of messages, sent on with the pings | join by the introducer, leave, pass on joins, leaves and failures | other nodes and the introducer (UDP) |
| Command line (`CLI/cli.go`) | | `join`, `leave`, `enable_sus`, `disable_sus`, `conn`, `job`, file commands, listings | all of the above |
| Configuration, hashing, log querier, generated code | | | |

Hard to get right, and hard to test:

- *Tuples.* An acknowledgement is awaited for 7 s while the receiver may go on; retries meet
  first calls; output, aol file and acknowledgement are separate steps; maps are reset by
  goroutines that do not take the mutex; the leader moves tasks meanwhile.
- *Scheduling.* Handlers of notifications, creation of jobs, monitors and the failure handler run
  side by side on one set of maps, mostly without the mutex; a worker may fail before, while and
  after its tasks are sent, run, reported and told; one node may get two tasks or none.
- *Gossip.* A message is passed on only by a node to which it is news, to three neighbours, taken
  from a list that each node keeps for itself; joins, leaves and failures of one node meet.
- *Files.* A write goes to three logs, each merged by a timer, a read or a merge request;
  errors are printed and swallowed; a repair removes copies before it adds others.
- *Failures.* A failed peer is found by a ping, by a timer and by messages, and goes through an
  unbuffered channel, sent on with a mutex held, to a reader that may need that mutex.

What makes each part correct: a receiver applies a tuple at most once and only acknowledges
what it wrote; a sender gives nothing up early and ends; an acknowledged write is in the file
once and in order; replicas survive a failure; a failed peer, and only a failed one, is removed
and its files are repaired; every member learns of joins and failures; a job ends, after all of
its tasks, although a worker fails. PROJECT.json lists the hazards line by line, with the properties
that would catch each.

## 2. The modules

| Module | Models | Checked by |
|---|---|---|
| `DedupDelivery` | what the exchange promises: an id is taken once per log, delivered at most once, acknowledged after delivery or failure | |
| `TupleExchange` | workers, their goroutines and handlers, and the leader as far as it moves tasks | `Exchange`, `ExchangeJob`, `LostTuple` |
| `TupleExchange_proofs`, `TupleExchange_report` | theorems about its receivers and its senders | TLAPS |
| `LeaderSchedule` | the leader: jobs, assignment, notifications, the monitor, failures, rescheduling, joins | `Schedule`, `NextJob` |
| `LeaderSchedule_proofs`, `LeaderSchedule_job` | theorems about it, for any number of jobs and for one | TLAPS |
| `AppendOnlyFile` | what HyDFS promises of a file while no node fails | |
| `HydfsRing` | routing and repair ranges, as operators on sets of peer ids | |
| `HydfsFile` | one file: its writes, logs, reads, merges, and repair | `File`, `FileLive`, `FileCrash`, `StaleRead` |
| `HydfsFile_proofs`, `HydfsFile_repair` | theorems about the ring, the types and what the copies hold while no node has failed, and about what is left of them when one fails | TLAPS |
| `FailureDetector` | the goroutines of one node's failure detector and the readers of its channel | `Detector`, `CircularWait` |
| `FailureDetector_proofs` | theorems about it | TLAPS |
| `Membership` | the lists and buffers of several nodes: joins, leaving, failures and how they spread | `Members` |

`MCTupleExchange`, `MCLeaderSchedule`, `MCHydfsFile`, `MCFailureDetector` and `MCMembership` hold
the values of the constants for TLC. The modules meet at narrow places and are checked apart:
what one needs of another is an action of its environment. `TupleExchange` takes the leader's
moves of tasks as steps of its own, `LeaderSchedule` sees of a worker its queue, partition map and
reports; both take a failure as found at any time, which is what `FailureDetector` and `Membership`
are about. A definition introduced by "Mutant of X" is a broken form of X that no
action uses; it exists so that each property can be shown to notice such a break.

### TupleExchange

`ws[w]` is the `WorkerService` of worker `w`, `aol[w]` and `aolFile[w]` its duplicate log in
memory and on disk, `run[t]` the goroutine `PerformTask` of task `t`, `call[c]` the n-th
`ExchangeTuples` stream that a worker opened for a tuple. A goroutine's `pc` names the place
between two of its steps: `scan`/`sending` in the loop over the lines, `sleep`/`lock`/`resend`/
`resending` in `ResendUnackedTuples`, `prepare`/`load`/`loadAol` in `PrepareTask`. A call goes
through `sent`, `ready` (past `prepareTasksDone.Wait`), `taken`, `write`, `log`, and is answered
`SUCCESS`, `COMPLETED`, `FAIL` or `lost`. `Returns` is the sender's side: true only for an
acknowledgement, false at any time, for the 7 s may end whatever the receiver does.

Abstractions:
- A key is the stage-2 task its hash selects; a tuple is its id (task and sequence number) and
  its input line. op1 failing and op1 not selecting the line are one action, `SkipLine`. op2 is
  external: it counts on from the count it is given, or fails.
- `ackMap` is `TupleAckMap` with "absent" for no entry. The branch for an entry that is false
  (utils-tasks.go:142-150) is not reachable: ids are new in each scan. `processedIDs` is never read.
- `prepareTasksDone` is the set of goroutines between `Add` and `Done`.
- The output file is read back (`LoadOutput`) as any prefix of what was written, since HyDFS
  may lag.
- The leader does not fail, and a crashed worker's process is not started again.
- Which worker gets a rescheduled task is any of the candidates: idle ones first. Task ids, the
  leader's queues and several jobs are the matter of `LeaderSchedule`.
- The aol file may fail to open before the id enters the aol (`OpenError`: a FAIL that loses nothing)
  and to take the line after the result was written (`LogError`: a FAIL after the delivery, which the
  retry turns into an acknowledgement). Reading the output or the aol file may fail as well.
- Data races on the worker's slices and maps are not modelled beyond the interleaving of steps.

`epoch` counts how often each aol was started anew; it is a history variable, and with it one
can say "the life of an aol". `MaxEpoch` bounds it and is never reached in the instances.

### LeaderSchedule

Variables of the leader have the names of its fields (`isAlive`, `queue`: `Workers[n]`; `taskMap`;
`assigned`, `completed`: `assignedTasks`, `CompletedTask`; `jobTasks`: `JobTaskMap`; `conns`:
`WorkerConns`). `job[j]` is the goroutine of `CreateJob` and then of `MonitorJobCompletion`, with the
job's senders, receivers and partition map; `fail` is `getFailedNodeSignal`. `run[t, n]` is a task on
its way to a worker (`sending`), run there (`running`), and its report at the leader: `called`,
`marked` (past `MarkTaskCompleted`), `telling` (in `sendAckToReceiver`, at index `i`). `wq`, `wparts`
and `toLeader` are the queue, the partition map and the connection of the worker.

Abstractions: a task is assigned in one step and a report handled in one step per place it may
be overtaken at. The failure handler sleeps 15 s, which outlasts calls begun before (10 s at
most) and assignments: `Slept`. Tuples and the worker's own failures are left to `TupleExchange`;
a worker that retries may report the last task in its queue instead of its own, nothing if the
queue is empty by then, and a report may be lost (`Report`). `NoNode` stands for the `WorkerId` -1.
Mishaps happen only while a job is under way (`Underway`). `Panics` is the end of the leader's process:
an index out of range while receivers are told, or the `ParentJob` of a task that was never sent
(leader.go:257), which takes a failure in a job without room for its tasks and does not occur in the
runs. Jobs are submitted one at a time: two `CreateJob` at once, of consoles on two nodes
(leader.go:568), would share the lists of the leader through all of their assignments. There is no
mutex for it in the code, only the operator; the model assumes that he waits for the command to return.

`trouble` is history: it names what went wrong that a job may not survive. `fault` is a lost call or
an unhandled error, `doubted` the false detection of a worker, `crowded` a second task at one worker
or a task that found none, `unconnected` a task at a worker not connected to the leader, `hurried` a
restart before the failure was handled, `panic` the end of the leader's process. A property says which
of them it tolerates.

### HydfsFile

`req[q]` is a write request: the client and its handler at the primary; `rpc[q, k]` is the k-th
`ReplicateLogEntry` call; `log[n]`, `mapped[n]`, `isRead[n]` and `flush[n]` are the log, its entry
in `Mapper`, `IsRead`, and the `ReadLog` that holds `logMutex`; `read`, `merge[n]`, `failed[n]` and
`repair[n]` are the reader, the `MergeFile` call to `n`, the failures `n` collected and the copies
it sends. The bytes of a write are the request itself and a file is their sequence, so lost,
repeated and reordered writes can be told apart.

Abstractions: the membership lists of all nodes are one list that loses a failed node some time after
the failure; reads go to the primary (a node that has the file, or a named one, may answer in the
code); the reader is a node without a copy of its own; nodes neither join nor restart; a replica
answers one merge call at a time; `ReadOpen` is one step; `Log` computes the replicas in the step that
releases `logMutex`. `read.want`, `read.first` and `merge.calm` are history: what was acknowledged
when the read began, whether the log had never been merged, and whether everything else was done when
the merge was asked for. `errs` records the kinds of errors that occurred, so that a property can say
which errors spoil it.

`MergeFile` is three steps, `MergeRemove`, `MergeOpen` and `MergeWrite`, each of which may fail
(error kind `merge`) and between which anything may happen: the replica has no file, then an empty one
(`empty` is the set of these), and a repair that arrives may delete the one that is being written
(`unlinked`). `Overwriting(n)` holds in between. `Settled` and `Quiet` say that nothing is under way,
the second of merges too. `missed` is history: a copy was looked for, by a repair or for a merge, just
when a merge had it removed. A .csv is never sent by a repair (coordinator.go:148): `Csv` says whether
the file is one, and what is said of repairs is said of the others.

`HydfsRing` has the routing and the repair ranges that `HydfsFile` uses. Peers and hashes are
numbers; a walk around the sorted list is `Succ` and `Pred` on the set of peers. `RepairPlaces` asks
of every failure that `HydfsFile` reaches what the ranges do for a file between any two peers of the
ring that is no .csv; the hashes it tries are those one above a peer's id, and 0.

### FailureDetector

One node with all its goroutines; other nodes are what arrives from them. `round` is the ticker's
goroutine, `ping[c]` the goroutine of a ping and later of the suspicion it raised, `lis` the
listener, `hy` and `leader` the two `getFailedNodeSignal`, `mlm` is `MemberShipListMutex`;
`ackChanMapMutex` is held exactly while `lis.pc = "ack"`. `signalled` is history.

Time is abstracted by guards, from the constants of the code: an acknowledgement arrives within
6 s unless a fault delays it or the listener is held up (`HeldUp`, `Jammed`); a ping times out
after 7 s, which is after the next round began and before the one after it, so a peer that fails has
two pings outstanding (`wait` for the last one, `old` for the one before); a suspicion ends after 4 s,
before the later of the two times out; goroutines that nobody holds up are done within a round
(`Settled`); a batch begins only if nobody has had a failure to report for 20 s. `PingFails` is the
ping that cannot be sent. `MaxPings` bounds the goroutines there are for pings of one peer. With 2,
as in the runs, a ping is skipped (`SkipPing`) only while the mutex or HyDFS holds one of them up; the
proofs are for every bound. The switch of the suspicion mode is an action, by the console here or by
a message, and `wasOn` is the history of it. Not modelled: joining and leaving as its origin
(`Membership`), data races on the list and the buffer.

### Membership

`list[n]` and `buf[n]` are the membership list and the buffered messages of node `n`, `packet[n]` the
pings of its round under way with the messages they carry, `waiting[n][m]` the pings to `m` that will
time out. A node is its peer id. A list is a sequence with possible repetitions, as `Add`
does not look whether the node is there.

Abstractions: timestamps are replaced by how often the node of the message had joined (`at`), with an
arbitrary choice where that does not decide; clocks agree. Pings without messages to nodes that run
change nothing and are left out, apart from those that are not heard (`Lost`) and those that make a
node act on its buffer (`ActOnBuffer`). Suspicion is off. The introducer neither fails nor leaves. A
round copies the buffer, pings, and then empties the buffer (`Round`, `RoundEnd`). Mostly nothing
comes between, and the model takes that as one step; in a slow round (`MaxSlow` bounds them, `copied`
is the copy) anything may, and what came into the buffer meanwhile is erased unsent, a JOIN at the
introducer for one. `swept` is history: the nodes about which such a message was. A node may give the
command join again though it is a member. `odd` is history: the nodes that failed, left, were once not
heard, or joined with something of an earlier membership around.

## 3. Runs

| Run | Instance | Shows |
|---|---|---|
| `Exchange` | 1 sender and 1 receiver on two workers, 1 line, `MAX_RETRY_COUNT` 0, a failure of any kind (of the aol file, too), a crash and the rescheduling after it | types; at most one output line per tuple and aol; nothing logged or acknowledged before it is written; a lost tuple implies a FAIL; mutual exclusion; implements `DedupDelivery` |
| `ExchangeJob` | 2 workers, no failure, fairness | senders terminate, settle each tuple first, send none again once acknowledged; the job completes |
| `LostTuple` | 1 failure, one retry | *violated*: an acknowledged tuple is not in the output |
| `Schedule` | 5 nodes, all joined, a job of 2 tasks per stage, one crash, false detection, lost call or error, and a node that was taken for failed joins again, fairness | each input line in one partition; the leader's queues agree with its tasks; stage-2 tasks are told last; senders know where the tuples go after a rescheduling; a job ends only when its tasks have, and does although a worker fails |
| `NextJob` | 5 nodes, two jobs, nothing fails | *violated*: a job is reported complete while its tasks run |
| `File` | 3 nodes, a CREATE and an APPEND, the primary's timer, 2 reads, a lost or late replica call | acknowledged writes are kept once and in order; reads are growing prefixes, the first is complete; replicas have what their calls brought; implements `AppendOnlyFile` |
| `FileLive` | 3 nodes, all timers, an APPEND to an existing file, a merge request to a replica, two errors of any kind, of a step of the merge too, fairness | writes end and get into the file; a merge makes replicas equal |
| `FileCrash` | 5 nodes, all timers, a file merged before, a crash, a merge request to each of two replicas at any time | a copy at any time, be it in the hands of a merge; three after the repair, unless it missed one that a merge had removed; the ranges restore a file at any place of the ring |
| `StaleRead` | 3 nodes, 2 reads, no errors | *violated*: a read misses an acknowledged write |
| `Detector` | introducer, 2 peers with 2 pings outstanding, a crash, and a ping that fails, a late or lost acknowledgement, a message or a switch of the mode, fairness | a member is dropped after HyDFS was told; the mutex is released; a prompt peer stays; a failed one is removed, repaired, reported |
| `CircularWait` | 2 peers, suspicion off, two crashes, fairness | *violated*: the second failed peer is never removed |
| `Members` | 4 nodes with 2 neighbours, one not yet a member, any two of: a join, a leave, crashes, a restart, an unheard ping, a slow round, fairness | lists stay sorted; joins and failures reach every member; the messages about them die out |

Distinct states, and the time on two cores: `Exchange` 819 thousand (130 s), `ExchangeJob` 14, `Schedule` 347
(70 s), `File` 428 (80 s), `FileLive` 241 (150 s), `FileCrash` 312 (60 s), `Detector` 166 (65 s),
`Members` 110 (90 s).

Bounds. One line is enough for what concerns one tuple; duplicates, losses and retries are about
several calls of one tuple, of which there are `MAX_RETRY_COUNT + 2` at each worker, so two even
without a retry beyond the first. Five workers leave one for a task of a failed worker beside the
four that run tasks; two tasks per stage are what partial completion and the wrong partition need.
Two writes and two reads give every overlap of a pair; five nodes leave two outside the three that
hold the file, so that a repair has somewhere to go, and `RepairPlaces` tries the hashes on both
sides of each peer. The hash of the file in `FileCrash` is one where a range does not wrap, so that a
holder sends to another holder. Two peers are what a circular wait needs. In `Members` each node has two of
three possible neighbours: with the three of the code in a cluster of four everybody hears
everything at first hand. Bounds that count several kinds of events together (`MaxMishaps`,
`MaxEvents`) let every kind happen, in any order, but not all of them in one behaviour. So in `Schedule`,
with one mishap and all nodes joined, the node that joins is one that was wrongly taken for failed; a
restart after a crash, or a node that is new, is in the theorems only. Deadlock is
not checked: jobs, writes, batches and gossip end, and the bounds stop the rest.

Fairness. Every goroutine that can run runs; Go's mutexes hand over to a waiter after 1 ms,
`SendTuple` and the gRPC calls have timeouts, tickers go off. In `TupleExchange` a goroutine that
waits for a mutex again and again gets it (strong fairness). In `FailureDetector` the sender, the
listener and the chain of readers are weakly fair and the pings of each peer strongly, as they
wait for a mutex. In `HydfsFile` weak fairness is enough, as a log is merged finitely often; in
`LeaderSchedule` too, for no step of a job is repeated for ever, and there it is asked only of the
program as a whole. In `Membership` every node has its rounds and its pings arrive or time out
(weak fairness per node). Crashes, failures, reads, merges, joins, restarts, switches and rumours
are never required to happen, and neither is what the operator types.

### What the properties of jobs and gossip exempt

- `JobEnds` tolerates a crash or a false detection at any time and none of the other troubles. A
  lost notification is not repeated, two tasks on a worker may be reported as one, and of two tasks
  of a failed worker only one is rescheduled (leader.go:504): each leaves a job that never ends.
  `HurriedJoins` is FALSE: with it a worker that is started again at once gets tasks that the
  handler of its failure then moves, and `QueuesAgree` and `JobEnds` say so by `trouble`.
- `MutexReleased` exempts, once suspicion was on, a message of another node and a second failure. Either
  lets a ping find the peer suspected already, and it returns with the mutex (process.go:297-300): the
  message by itself, the second failure because HyDFS and the leader hold up the report of the first
  suspicion past the next timeout. Two pings of the one failed peer do not, as the first is reported
  and the peer removed in between.
- `JoinSpreads` holds while the nodes that join, fail or leave are fewer than a node has neighbours.
  Beyond that a JOIN can end at nodes that know it already or are gone, and nobody repeats it. Of a
  node about which a message was erased between the copy of a buffer and its emptying (process.go:168,
  185; `swept`) nothing is claimed: without any failure nobody else may learn that it joined.
- `CopyRemains` counts the bytes that a `MergeFile` call has in its hands, and `ThreeReplicas` exempts a
  repair or merge that looked for a copy while another merge had it removed (`missed`), and .csv files.
- `FailSpreads` exempts nodes that had joined a moment ago: JOIN and FAILED of such a node may follow
  each other around the ring and add it again. `GossipDies` exempts for the same reason runs in
  which a node of `odd` joined, and those with a leave, as `RemoveMsgIfNoActionNeeded` never drops a
  LEFT.

### What the violated runs say

- `LostTuple`: the id enters the aol (utils-tasks.go:546) before op2 and the write to HyDFS. If
  one of them fails the sender is told FAIL and retries; the retry is a duplicate and is
  acknowledged. `LossNeedsFailure` shows that a FAIL after the id entered the aol is the only way to lose
  an acknowledged tuple.
- `NextJob`: `CreateJob` drops what the leader knows of earlier jobs, their tasks in `JobTaskMap`
  included (leader.go:351-354). The monitor of the first job finds none of its tasks left
  (leader.go:406) and reports "All tasks in the job completed successfully." (leader.go:415) while
  they run; it also clears the lists of the second job (leader.go:412-414). `Schedule` submits one
  job, for which the report is true.
- `StaleRead`: `IsRead` is never reset, so only the first read merges the log (aol.go:191,216).
  `FirstReadComplete` and `ReadsGrow` are what reads do promise.
- `CircularWait`: `markNodeFailed` sends on an unbuffered channel with `MemberShipListMutex` held
  (process.go:339-342) while the reader of the channel waits for the mutex to repair an earlier
  failure (repairFailures.go:23). With suspicion on the failed peer is reported without the mutex.

## 4. Proofs

Every theorem holds for all values of the constants that the `ASSUME` of its module admits,
and rests on nothing else than what its statement names. Each proof has one lemma per action
(or per kind of action), and facts about an operator are stated once, as lemmas.

What the modules assume. `TupleExchange`: stage-1 and stage-2 tasks exist and are disjoint, each is
placed at a worker, each line has a key. `LeaderSchedule`: the leader and worker 0 are nodes, there
is a job, a task per stage, room for a task at a worker. `HydfsFile`: nodes are numbers, three or
more, more than may crash; the file holds no write twice to begin with. `FailureDetector`: there is
a peer. Bounds are natural numbers.

### TupleExchange

`TupleExchange_proofs`. `Ind` is `TypeOK`, `LockDiscipline`, and `ScanInv`, which says that a
goroutine in its scan has room for another id: without it the type of ids is not inductive.

- `TypeCorrect`; `MutualExclusion`: `LockDiscipline`, although the scan, `PrepareTask` and
  `UpdateTask` never take the mutex.
- `AolSound`: `AolDiscipline`. `AtMostOnce`: `AtMostOncePerAol`. The latter alone is not inductive:
  one must know that a line stems from a call past its write and that no second call of the
  tuple is processed under the same aol, which is `AolDiscipline`.

Whatever is in an aol was written, has failed, or is in the hands of the one
handler that holds the mutex (`SettledInv`), and a call is past its write only with its line in the
output (`WriteInv`). A duplicate is recognised under the mutex, so after that handler is done.

- `WrittenFirst`: `LoggedIsWritten`. `LossExplained`: `LossNeedsFailure`: the run `LostTuple` shows the
  only way to lose an acknowledged tuple.
- `Refinement`: `ImplementsDedup`, step by step: a step takes an id, delivers it or answers in
  `DedupDelivery`, or is a stutter there.

`TupleExchange_report`. What is in `UnackedTuples` is not acknowledged, is there once and was numbered
before by the execution at this worker (`SendInv`); the count of its retries is behind the streams
opened for it (`ReportInv`).

- `NotSentAgain`: `NoSendAfterAck`.
- `ReportedSettled`: `ReportedIsSettled`, if `Apart`: no worker crashes and every stage-1 task has
  its worker to itself. Without that it is not so: a second task at the worker empties
  `UnackedTuples` and the acknowledgements of the first (`StartTask`, `PrepareBegin`), which then ends
  with nothing to retry.

### LeaderSchedule

`LeaderSchedule_proofs`, for any number of jobs.

- `PartitionsCovered`: `PartitionsCover`. The length is rounded up, so n partitions have room for every
  line; `line \div length` is the only one to have it.
- `TypeCorrect`. Not a matter of form is that ids stay within `Ids`: an id is one more than the size
  of `TaskMap`, to which a report of an unknown id adds. But reports bring only ids given before,
  and those are bounded by `Given(j)`, which grows with each job and task.

`LeaderSchedule_job`, for one job (`NumJobs = 1`). With two the statements are false in the code: the
second job empties `TaskMap` while tasks of the first run, so that ids are given twice and a report
strikes off another task (`NextJob` is where that leads). The first invariant: the ids are numbers
without a gap and every id on its way is one of them; a worker has one task, unless it is crowded;
the failure handler's node and the leader's lists go together; queues hold the current tasks.
The second holds while no detection was false and no worker crowded or restarted early (`Sound`): a
task is sent and run where the leader has it, no run of a task that was moved is left, and of
each task that is done its report, not another's, has completed it. The third (`Routes`) is about
partition maps, while one worker crashed at most and nothing else went wrong: a worker that runs a
stage-1 task has the map of the job or an update is under way to it, and the map names where the
tasks are as long as there is a sender to use it. For that, until the failure was handled
(`Unhurt`), all tasks are where they were first assigned: alone, and recorded as senders and receivers.

- `QueuesRight`: `QueuesAgree`. `SendersFirst`: `ReceiversLast`.
- `SendersKnow`: `SendersRouted`. It has no hypothesis but the one job; the one crash is in the property.
- `EndIsEarned`: `EndedIsCompleted` in behaviours without `"crowded"` and `"hurried"`. What the property
  exempts by itself (`"doubted"`) needs no hypothesis. In both cases a task may run twice, and that its
  first report counts is a matter of how runs are counted, which the invariant does not do; TLC
  checks it without the hypothesis.

### HydfsFile

`HydfsFile_proofs`.

- `TypeCorrect`. Not form: that a file is routed to members and that a repair has a target.
- `RingRepaired`: in a ring of three or more with one failed peer, the ranges sent for it
  (`HandleFileTransferRequestsInFailureRepair`, `GetFilesInRange`) bring each file to all of its new
  replicas, provided the file's hash is not a peer's id and it is no .csv. `OneFailureRepaired`: hence
  `RepairPlaces` when at most one node fails and no peer id is 0 or next to another (the hashes it
  tries lie beside the ids). With a hash that is a peer's id it fails, which is the hazard at
  `GetFilesInRange`; with two failures found in one batch `RepairPlaces` is left to TLC.

While no node has failed, file and log of a request are at the three nodes of
the ring, each entry is a write, a replica is called once and in turn, and the merge of a log has put
the entries before its index into the file and keeps the others. What was acknowledged is in the file
or in the log, once; this needs that the file and the log of a node have no write in common.

- `WritesAreKept`: `AckedKept`. `WritesAreReplicated`: `ReplicasKept`, before the first merge request,
  which replaces a replica by what the primary had. `OrderIsKept`: `KeptInOrder`, likewise.
- `ReadsOnlyGrow`: `ReadsGrow`. `FirstReadReturnsAll`: `FirstReadComplete`. `MergeMakesGood`:
  `MergeRestores`, in every behaviour.
- `PrimaryIsAFile`: the primary implements `AppendOnlyFile`, for a file that was empty and in behaviours
  whose only errors are lost calls.

That no node has failed and no merge was requested are hypotheses on the behaviours
(`live = Nodes`, `NoMerge`), not on the constants; every behaviour satisfies them until it happens.

`HydfsFile_repair`, when one node fails. A receiver removes its copy before it logs the one it is sent
(fileOperations.go:267-286), so a copy is safe only at a node that sends the file and is sent none, or
only by nodes that never had it (`Safe`). In a ring of five or more there is such a node. Merges
remove its copy as well, but have another in their hands, `Overwriting`, the whole file if they can be
`Trusted`: those asked for before a copy was missed, and all those of the node that is primary after
the failure (`DataInv`, `SafeInv`). Every node that is to get the file has it or is still owed it by a
safe one, as long as no copy was missed: the failure is on that one's list, or the receiver is, or the
file is under way (`Owed`). All copies, in files, logs, merge calls and repairs, are the whole file
(`CopyInv`).

- `OneFailureLeavesACopy`: `CopyRemains`; `OneFailureIsRepaired`: `ThreeReplicas`; both as long as at most one
  node has failed, for five nodes or more, with nothing written since the start (`Done(q)` of all requests)
  and the file's hash no node's id, while merges are asked for and break off at any time. Each hypothesis
  is needed. With four nodes two holders may send the file to each other, since `GetFilesInRange` selects a
  file that is not in the range when the range does not wrap; a file at a node's id may be missed by every
  range; an append during the repair is the hazard at fileOperations.go:267.

### FailureDetector

`Ind` is `TypeOK`; that the listener is inside an action only with a message to act on; that LEFT comes
from other nodes only; and that a goroutine about to drop a peer has told HyDFS.

- `TypeCorrect`; `SignalledFirst`: `DroppedIsSignalled`.
- `MutexHeldByFailure`: `MutexReleased` as long as suspicion was never enabled, for any number of pings.
- `MutexIsReleased` and `PromptPeerStays`: `MutexReleased` and `PromptSurvives`, with suspicion and its
  switches, for any number of outstanding pings of a peer. That one peer fails at most and no other node
  speaks of it is in the properties.

The two rest on `PromptInv`. Of the pings of a peer one at most waits for the current round's
acknowledgement, the others are old or past their timeout (`OneWaits`). A peer is suspected in the list
exactly if the goroutine of one of its pings is inside the suspicion (`SaidOf`), and each peer is either
`Untouched` or `Failing`. While one is failing, its failure is told at most once by its pings
and at most once by the listener; HyDFS and the leader take both, so neither holds up the listener
(`NeverHeldUp`), acknowledgements are read in time, and the first suspicion has ended when the second
ping times out. `PeerNext` says once what any step may do to one peer, and every proof about a peer cites
it. Both theorems speak of the model's time: an acknowledgement that is neither delayed nor held up comes
before the timeout, and what nobody holds up is done before the next round.

### Membership

`Membership_proofs`. `TypeCorrect`, for any nodes, neighbours and bounds. Not form: that the lists stay
in order (`AddOf`, `RemoveFirstOf`), through folds over the messages of a buffer, and that no node has more
than two pings of a peer unanswered, for which one must know that a node that still pings a peer has
room for one more (`PingInv`).

### What is only model-checked

- Liveness, as fairness and `ENABLED` are out of the prover's reach.
- `PromptSurvives`, or with suspicion `MutexReleased`, with two failures is not claimed: TLC refutes it in the
  model. The leader sleeps 15 s for the first failure, HyDFS waits to pass on the second, and the
  listener or a ping waits for HyDFS.
- `SendersRouted` says nothing of two crashes: then it is false in the model, for the receivers are
  recorded where they are first assigned, and the failure of a worker that a task was moved to is not
  told to the senders.
- `CopyRemains`, `ThreeReplicas` and `RepairPlaces` when more than one node fails.
- `QueuesAgree`, `ReceiversLast` and `EndedIsCompleted` are not claimed for two jobs.
- What `Membership` is about, how far joins and failures spread, is liveness; its types are proved.

What a fold or a recursive function of the library returns was proved where it was needed
(`FoldLeft` over the entries of a log, `FoldSet` and `SumFunction` over finite sets), by taking the
least input for which it fails: the induction theorems of the library cannot be instantiated here, as
they take an operator. `SubsetInduction` and `FoldExists` in `Membership_proofs` say it once for sets.

## 5. What is missing, and the plan

Not modelled: suspicion among several nodes, reads from other nodes than the primary, multi-append
(several appends), the files a `conn` clears, configuration and hashing (constants here), listings
of the command line, the log querier (a stateless grep), the unused cache and stubs, generated
code. `PROJECT.json` says for each hazard without a property why it has none.

Next, in this order:

1. Two sender tasks on a worker in `TupleExchange` (the last task of the queue, reset maps).
2. A run for an append during a repair: `FileCrash` has none, because with one a node that has
   only the append sends it as the whole file (in `PROJECT.json` under hazards).
3. Reads that a replica answers, in `HydfsFile`.
