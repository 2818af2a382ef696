---------------------------- MODULE TupleExchange ----------------------------
(***************************************************************************)
(* The tuple exchange of RainStorm (src/Stream): stage-1 tasks scan their  *)
(* partition of the input, turn each line into a tuple and send it to the  *)
(* worker that runs the stage-2 task of the tuple's key; the receiver      *)
(* discards duplicates by its append-only log (the "aol"), runs op2,       *)
(* appends the result to the HyDFS output file and acknowledges.  The      *)
(* sender waits 7 s for each acknowledgement, keeps the tuples that got    *)
(* none and retries them every 20 s, MAX_RETRY_COUNT + 1 times at most.    *)
(* The leader reschedules one task of a worker that failed.                *)
(*                                                                         *)
(* A key is identified with the stage-2 task its hash selects.  Sleeps are *)
(* left to the interleaving: a sleeping goroutine may be woken at once or  *)
(* never be scheduled.  The files a worker keeps on its own disk survive a *)
(* crash but, as the leader never reuses a crashed worker here, are not    *)
(* read again.                                                             *)
(***************************************************************************)
EXTENDS Naturals, Sequences, FiniteSets, SequencesExt

CONSTANTS
  Workers,          \* the worker processes (one WorkerService each)
  Stage1, Stage2,   \* the tasks of type TASK_1 (senders) and TASK_2 (receivers)
  Lines,            \* lines in the input partition of each stage-1 task
  KeyOf,            \* the key (stage-2 task) of each line of each stage-1 task
  Place,            \* the worker AssignTasks gave each task
  MAX_RETRY_COUNT,  \* constants.go:26, 8 in the code
  MaxFaults,        \* bound on op1/op2/HyDFS/aol file/notification failures
  MaxCrashes,       \* bound on worker crashes
  MaxEpoch          \* bound on the history variable epoch, chosen out of reach

Tasks   == Stage1 \cup Stage2
LineNo  == 0 .. (Lines - 1)
Ids     == Stage1 \X LineNo           \* createTupleId(job, task, sequence number)
Attempt == 0 .. (MAX_RETRY_COUNT + 1)
Calls   == Workers \X Ids \X Attempt  \* the n-th ExchangeTuples stream of a tuple

ASSUME TasksAssumption ==
  /\ Stage1 # {} /\ Stage2 # {}
  /\ Stage1 \cap Stage2 = {}
  /\ Place \in [Tasks -> Workers]
ASSUME KeysAssumption == KeyOf \in [Ids -> Stage2]
ASSUME BoundsAssumption ==
  /\ Lines \in Nat \ {0}
  /\ MAX_RETRY_COUNT \in Nat
  /\ MaxFaults \in Nat
  /\ MaxCrashes \in Nat
  /\ MaxEpoch \in Nat \ {0}

VARIABLES
  up,          \* up[w]: the process of worker w runs
  ws,          \* ws[w]: the fields of its WorkerService, but for aol
  aol,         \* ws[w].aol: the set of tuple ids it takes for processed
  aolFile,     \* the ids in its file Stream/aol.txt
  run,         \* run[t]: the goroutine PerformTask(t) and where it runs
  call,        \* call[c]: the ExchangeTuples stream of call c at its receiver
  outFile,     \* the lines of the HyDFS output file
  completed,   \* the leader's CompletedTask
  parts,       \* the leader's ParentJob.OutputPartitions
  updates,     \* UpdateTask requests in flight: <<task, partitions>>
  faults, crashes,  \* budget used so far
  epoch        \* history: how often the aol of each worker was started anew

workerVars == <<up, ws, aol, aolFile, epoch>>
leaderVars == <<completed, parts, updates>>
vars == <<workerVars, run, call, outFile, leaderVars, faults, crashes>>

Status == {"none", "sent", "ready", "taken", "write", "log",
           "SUCCESS", "COMPLETED", "FAIL", "lost"}
Answered == {"SUCCESS", "COMPLETED", "FAIL", "lost"}
Pcs == {"assigned", "scan", "sending", "sleep", "lock", "resend", "resending",
        "finish", "prepare", "load", "loadAol", "done", "failed", "abandoned"}

NoCall == [st |-> "none", line |-> 0, to |-> Place[CHOOSE t \in Tasks : TRUE],
           ep |-> 0, cnt |-> 0]

NoCounts == [k \in Stage2 |-> 0]

InitWorker(p) ==
  [mu |-> FALSE, queue |-> <<>>, ackMap |-> [id \in Ids |-> "absent"],
   unacked |-> <<>>, retries |-> [id \in Ids |-> 0], parts |-> p,
   preparing |-> {}, outputMap |-> NoCounts]

Goroutine(pc, w) ==
  [pc |-> pc, at |-> w, line |-> 0, seq |-> 0, n |-> 0, i |-> 1, allMax |-> TRUE,
   fin |-> CHOOSE t \in Tasks : TRUE]

InitParts == [k \in Stage2 |-> Place[k]]

Init ==
  /\ up = [w \in Workers |-> TRUE]
  /\ ws = [w \in Workers |-> InitWorker(InitParts)]
  /\ aol = [w \in Workers |-> {}]
  /\ aolFile = [w \in Workers |-> {}]
  /\ run = [t \in Tasks |-> Goroutine("assigned", Place[t])]
  /\ call = [c \in Calls |-> NoCall]
  /\ outFile = <<>>
  /\ completed = {}
  /\ parts = InitParts
  /\ updates = {}
  /\ faults = 0 /\ crashes = 0
  /\ epoch = [w \in Workers |-> 1]

Fault == faults < MaxFaults /\ faults' = faults + 1
NoFault == faults' = faults
At(t, pc) == run[t].pc = pc /\ up[run[t].at]
\* A task is queued at most once, so any occurrence is the first.
Dequeue(q, t) ==
  IF \E i \in 1 .. Len(q) : q[i] = t
    THEN RemoveAt(q, CHOOSE i \in 1 .. Len(q) : q[i] = t) ELSE q
Goto(t, pc) == run' = [run EXCEPT ![t].pc = pc]

(***************************************************************************)
(* The sender: PerformTask of a TASK_1.                                    *)
(***************************************************************************)

\* The task arrives and its goroutine resets the worker's maps under mu,
\* then looks for the input file, which may have to be fetched from HyDFS.
StartTask(t) ==
  LET w == run[t].at
      me == ws[w]
  IN
  /\ At(t, "assigned") /\ ~ws[w].mu
  /\ ws' = [ws EXCEPT ![w] = [me EXCEPT !.outputMap = NoCounts,
                                        !.unacked = <<>>,
                                        !.retries = [id \in Ids |-> 0],
                                        !.parts = parts,
                                        !.queue = Append(me.queue, t)]]
  /\ \/ NoFault /\ Goto(t, IF t \in Stage1 THEN "scan" ELSE "prepare")
     \/ Fault /\ Goto(t, "done")
  /\ UNCHANGED <<up, aol, aolFile, epoch, call, outFile, leaderVars, crashes>>

\* SendTuple opens the n-th stream of worker w for tuple id, to the worker that
\* OutputPartitionMap gives for the tuple's key; a dead one breaks the stream.
NextStream(w, id, n) ==
  /\ call[<<w, id, n>>].st = "none"
  /\ \A m \in 0 .. n - 1 : call[<<w, id, m>>].st # "none"

Issue(c, line) ==
  LET to == ws[c[1]].parts[KeyOf[<<c[2][1], line>>]]
  IN call' = [call EXCEPT ![c] = [st |-> IF up[to] THEN "sent" ELSE "lost",
                                  line |-> line, to |-> to, ep |-> 0, cnt |-> 0]]

\* What SendTuple may return for call c: TRUE only for an acknowledgement,
\* FALSE for a FAIL, a broken stream or after 7 s whatever the receiver does.
Returns(c, ack) == ack => call[c].st \in {"SUCCESS", "COMPLETED"}

\* op1 fails for a line or does not select it: no tuple, no sequence number.
SkipLine(t) ==
  /\ At(t, "scan") /\ run[t].line < Lines
  /\ Fault
  /\ run' = [run EXCEPT ![t].line = @ + 1]
  /\ UNCHANGED <<workerVars, call, outFile, leaderVars, crashes>>

ScanSend(t) ==
  LET w == run[t].at
      id == <<t, run[t].seq>>
  IN
  /\ At(t, "scan") /\ run[t].line < Lines
  /\ \E n \in Attempt :
       /\ NextStream(w, id, n) /\ Issue(<<w, id, n>>, run[t].line)
       /\ run' = [run EXCEPT ![t].pc = "sending", ![t].n = n]
  /\ UNCHANGED <<workerVars, outFile, leaderVars, faults, crashes>>

ScanReturn(t, ack) ==
  LET w == run[t].at
      me == ws[w]
      id == <<t, run[t].seq>>
  IN
  /\ At(t, "sending") /\ Returns(<<w, id, run[t].n>>, ack)
  /\ ws' = [ws EXCEPT ![w] = [me EXCEPT
       !.ackMap = [me.ackMap EXCEPT ![id] = IF ack THEN "acked" ELSE "unacked"],
       !.unacked = IF ack THEN me.unacked
                   ELSE Append(me.unacked, [id |-> id, line |-> run[t].line]),
       !.retries = IF ack THEN me.retries ELSE [me.retries EXCEPT ![id] = 0]]]
  /\ run' = [run EXCEPT ![t].pc = "scan", ![t].line = @ + 1, ![t].seq = @ + 1]
  /\ UNCHANGED <<up, aol, aolFile, epoch, call, outFile, leaderVars, faults, crashes>>

\* After the last line: finish if every tuple in TupleAckMap is acknowledged.
AllAcknowledged(w) ==
  /\ \E id \in Ids : ws[w].ackMap[id] # "absent"
  /\ \A id \in Ids : ws[w].ackMap[id] # "unacked"

ScanDone(t) ==
  LET w == run[t].at IN
  /\ At(t, "scan") /\ run[t].line = Lines /\ ~ws[w].mu
  /\ run' = IF AllAcknowledged(w)
              THEN [run EXCEPT ![t].pc = "finish", ![t].fin = t]
              ELSE [run EXCEPT ![t].pc = "sleep"]
  /\ UNCHANGED <<workerVars, call, outFile, leaderVars, faults, crashes>>

\* ResendUnackedTuples: one pass every RETRY_TIMEOUT seconds.  It acts for
\* the last task of the worker's queue, which need not be its own.
Wake(t) ==
  LET w == run[t].at
      q == ws[w].queue
  IN
  /\ At(t, "sleep")
  /\ run' = IF q = <<>> THEN [run EXCEPT ![t].pc = "done"]
            ELSE [run EXCEPT ![t].pc = IF ws[w].unacked = <<>> THEN "finish" ELSE "lock",
                             ![t].fin = Last(q)]
  /\ UNCHANGED <<workerVars, call, outFile, leaderVars, faults, crashes>>

\* Mutant of LockForResend: mu is not taken.
LockForResendUnguarded(t) ==
  LET w == run[t].at IN
  /\ At(t, "lock")
  /\ ws' = [ws EXCEPT ![w].mu = TRUE]
  /\ run' = [run EXCEPT ![t].pc = "resend", ![t].i = 1, ![t].allMax = TRUE]
  /\ UNCHANGED <<up, aol, aolFile, epoch, call, outFile, leaderVars, faults, crashes>>

LockForResend(t) ==
  LET w == run[t].at IN
  /\ At(t, "lock") /\ ~ws[w].mu
  /\ ws' = [ws EXCEPT ![w].mu = TRUE]
  /\ run' = [run EXCEPT ![t].pc = "resend", ![t].i = 1, ![t].allMax = TRUE]
  /\ UNCHANGED <<up, aol, aolFile, epoch, call, outFile, leaderVars, faults, crashes>>

Current(t) == ws[run[t].at].unacked[run[t].i]

ResendSend(t) ==
  LET w == run[t].at
      id == Current(t).id
  IN
  /\ At(t, "resend") /\ run[t].i <= Len(ws[w].unacked)
  /\ \E n \in Attempt :
       /\ NextStream(w, id, n) /\ Issue(<<w, id, n>>, Current(t).line)
       /\ run' = [run EXCEPT ![t].pc = "resending", ![t].n = n]
  /\ UNCHANGED <<workerVars, outFile, leaderVars, faults, crashes>>

\* Mutant of Leaves: one retry too many.
LeavesLate(ack, r) == ack \/ r > MAX_RETRY_COUNT + 1

\* Mutant of Leaves: one retry too few.
LeavesEarly(ack, r) == ack \/ r >= MAX_RETRY_COUNT

\* Mutant of Leaves: nothing is ever given up.
LeavesAcked(ack, r) == ack

\* Mutant of Leaves: acknowledged tuples stay.
LeavesGivenUpOnly(ack, r) == r >= MAX_RETRY_COUNT + 1

\* An acknowledged tuple leaves the list; one that failed for the
\* (MAX_RETRY_COUNT + 1)-th time leaves it too and is given up.
Leaves(ack, r) == ack \/ r >= MAX_RETRY_COUNT + 1

ResendReturn(t, ack) ==
  LET w == run[t].at
      me == ws[w]
      id == Current(t).id
      r == me.retries[id] + 1
      leaves == Leaves(ack, r)
  IN
  /\ At(t, "resending") /\ Returns(<<w, id, run[t].n>>, ack)
  /\ ws' = [ws EXCEPT ![w] = [me EXCEPT
       !.ackMap = [me.ackMap EXCEPT ![id] = IF ack THEN "acked" ELSE "unacked"],
       !.unacked = IF leaves THEN RemoveAt(me.unacked, run[t].i) ELSE me.unacked,
       !.retries = [me.retries EXCEPT ![id] = IF leaves THEN 0 ELSE r]]]
  /\ run' = [run EXCEPT ![t].pc = "resend",
                        ![t].i = IF leaves THEN @ ELSE @ + 1,
                        ![t].allMax = IF leaves THEN @ ELSE FALSE]
  /\ UNCHANGED <<up, aol, aolFile, epoch, call, outFile, leaderVars, faults, crashes>>

\* Mutant of ResendEnd: mu is not released.
ResendEndLocked(t) ==
  /\ At(t, "resend") /\ run[t].i > Len(ws[run[t].at].unacked)
  /\ Goto(t, IF run[t].allMax THEN "finish" ELSE "sleep")
  /\ UNCHANGED <<workerVars, call, outFile, leaderVars, faults, crashes>>

ResendEnd(t) ==
  LET w == run[t].at IN
  /\ At(t, "resend") /\ run[t].i > Len(ws[w].unacked)
  /\ ws' = [ws EXCEPT ![w].mu = FALSE]
  /\ Goto(t, IF run[t].allMax THEN "finish" ELSE "sleep")
  /\ UNCHANGED <<up, aol, aolFile, epoch, call, outFile, leaderVars, faults, crashes>>

\* finishTask: notify the leader, then drop the task from the queue.  If the
\* notification fails (the leader may have got it all the same) the task
\* stays in the queue and nobody tries again.
Finish(t) ==
  LET w == run[t].at
      fin == run[t].fin
  IN
  /\ At(t, "finish")
  /\ \/ /\ NoFault
        /\ completed' = completed \cup {fin}
        /\ ws' = [ws EXCEPT ![w].queue = Dequeue(@, fin)]
     \/ /\ Fault
        /\ completed' \in {completed, completed \cup {fin}}
        /\ UNCHANGED ws
  /\ Goto(t, "done")
  /\ UNCHANGED <<up, aol, aolFile, epoch, call, outFile, parts, updates, crashes>>

(***************************************************************************)
(* The receiver: PrepareTask of a TASK_2.                                  *)
(***************************************************************************)

\* prepareTasksDone.Add(1), then the worker's maps are made anew, without mu.
PrepareBegin(t) ==
  LET w == run[t].at
      me == ws[w]
  IN
  /\ At(t, "prepare") /\ epoch[w] < MaxEpoch
  /\ ws' = [ws EXCEPT ![w] = [me EXCEPT !.preparing = me.preparing \cup {t},
                                        !.outputMap = NoCounts,
                                        !.ackMap = [id \in Ids |-> "absent"]]]
  /\ aol' = [aol EXCEPT ![w] = {}]
  /\ epoch' = [epoch EXCEPT ![w] = @ + 1]
  /\ Goto(t, "load")
  /\ UNCHANGED <<up, aolFile, call, outFile, leaderVars, faults, crashes>>

\* The last line for key k among the first n of the output file, if any.
LastLine(k, n) == {i \in 1 .. n : /\ outFile[i].key = k
                                 /\ \A j \in i + 1 .. n : outFile[j].key # k}
CountRead(k, n, old) ==
  IF LastLine(k, n) = {} THEN old ELSE outFile[CHOOSE i \in LastLine(k, n) : TRUE].cnt

\* The output file is read back from HyDFS, which may lag behind the writes;
\* when the read fails PrepareTask returns without loading the aol file.
LoadOutput(t) ==
  LET w == run[t].at IN
  /\ At(t, "load")
  /\ \/ /\ NoFault
        /\ \E n \in 0 .. Len(outFile) :
             ws' = [ws EXCEPT ![w].outputMap =
                      [k \in Stage2 |-> CountRead(k, n, ws[w].outputMap[k])]]
        /\ Goto(t, "loadAol")
     \/ /\ Fault
        /\ ws' = [ws EXCEPT ![w].preparing = @ \ {t}]
        /\ Goto(t, "done")
  /\ UNCHANGED <<up, aol, aolFile, epoch, call, outFile, leaderVars, crashes>>

LoadAol(t) ==
  LET w == run[t].at IN
  /\ At(t, "loadAol")
  /\ aol' = [aol EXCEPT ![w] = @ \cup aolFile[w]]
  /\ ws' = [ws EXCEPT ![w].preparing = @ \ {t}]
  /\ Goto(t, "done")
  /\ UNCHANGED <<up, aolFile, epoch, call, outFile, leaderVars, faults, crashes>>

(***************************************************************************)
(* The receiver: ExchangeTuples and ProcessReceivedTuples for one call.    *)
(***************************************************************************)

Is(c, st) == call[c].st = st /\ up[call[c].to]
Becomes(c, st) == call' = [call EXCEPT ![c].st = st]
Unlock(w) == ws' = [ws EXCEPT ![w].mu = FALSE]

\* prepareTasksDone.Wait() returns; the tuple is received, mu not yet held.
Accept(c) ==
  /\ Is(c, "sent") /\ ws[call[c].to].preparing = {}
  /\ Becomes(c, "ready")
  /\ UNCHANGED <<workerVars, run, outFile, leaderVars, faults, crashes>>

\* The aol file cannot be opened: the tuple is refused before the duplicate
\* check, and its id does not enter the aol.
OpenError(c) ==
  /\ Is(c, "ready") /\ ~ws[call[c].to].mu /\ Fault
  /\ Becomes(c, "FAIL")
  /\ UNCHANGED <<workerVars, run, outFile, leaderVars, crashes>>

\* Mutant of Seen: no duplicate check.
SeenNever(c) == FALSE

\* Mutant of Seen: the file is consulted, not the set.
SeenOnDisk(c) == c[2] \in aolFile[call[c].to]

\* The duplicate check, in the set in memory.
Seen(c) == c[2] \in aol[call[c].to]

Duplicate(c) ==
  LET w == call[c].to IN
  /\ Is(c, "ready") /\ ~ws[w].mu
  /\ Seen(c)
  /\ Becomes(c, "COMPLETED")
  /\ UNCHANGED <<workerVars, run, outFile, leaderVars, faults, crashes>>

\* The id enters the aol before anything is done for it, here in vain.
NoReceiverTask(c) ==
  LET w == call[c].to IN
  /\ Is(c, "ready") /\ ~ws[w].mu
  /\ ~Seen(c) /\ ws[w].queue = <<>>
  /\ aol' = [aol EXCEPT ![w] = @ \cup {c[2]}]
  /\ call' = [call EXCEPT ![c].st = "FAIL", ![c].ep = epoch[w]]
  /\ UNCHANGED <<up, ws, aolFile, epoch, run, outFile, leaderVars, faults, crashes>>

\* mu is held from here on; op2 is started with the current count of the key.
\* With a stage-1 task last in the queue getArguments passes op1's pattern
\* instead, and op2 counts from nothing.
Take(c) ==
  LET w == call[c].to
      key == KeyOf[<<c[2][1], call[c].line>>]
  IN
  /\ Is(c, "ready") /\ ~ws[w].mu
  /\ ~Seen(c) /\ ws[w].queue # <<>>
  /\ aol' = [aol EXCEPT ![w] = @ \cup {c[2]}]
  /\ ws' = [ws EXCEPT ![w].mu = TRUE]
  /\ call' = [call EXCEPT ![c].st = "taken", ![c].ep = epoch[w],
                          ![c].cnt = IF Last(ws[w].queue) \in Stage2
                                       THEN ws[w].outputMap[key] ELSE 0]
  /\ UNCHANGED <<up, aolFile, epoch, run, outFile, leaderVars, faults, crashes>>

Op2(c) ==
  LET w == call[c].to
      key == KeyOf[<<c[2][1], call[c].line>>]
  IN
  /\ Is(c, "taken")
  /\ ws' = [ws EXCEPT ![w].outputMap[key] = call[c].cnt + 1]
  /\ call' = [call EXCEPT ![c].st = "write", ![c].cnt = @ + 1]
  /\ UNCHANGED <<up, aol, aolFile, epoch, run, outFile, leaderVars, faults, crashes>>

Op2Error(c) ==
  /\ Is(c, "taken") /\ Fault
  /\ Unlock(call[c].to) /\ Becomes(c, "FAIL")
  /\ UNCHANGED <<up, aol, aolFile, epoch, run, outFile, leaderVars, crashes>>

OutLine(c) ==
  [id |-> c[2], line |-> call[c].line, key |-> KeyOf[<<c[2][1], call[c].line>>],
   cnt |-> call[c].cnt, by |-> call[c].to, ep |-> call[c].ep]

WriteOutput(c) ==
  /\ Is(c, "write")
  /\ outFile' = Append(outFile, OutLine(c))
  /\ Becomes(c, "log")
  /\ UNCHANGED <<workerVars, run, leaderVars, faults, crashes>>

\* Mutant of WriteError: a lost write is taken for done.
WriteErrorIgnored(c) ==
  /\ Is(c, "write") /\ Fault
  /\ Becomes(c, "log")
  /\ UNCHANGED <<workerVars, run, outFile, leaderVars, crashes>>

\* PerformWriteData reports an error; the write may have been applied.
WriteError(c) ==
  /\ Is(c, "write") /\ Fault
  /\ outFile' \in {outFile, Append(outFile, OutLine(c))}
  /\ Unlock(call[c].to) /\ Becomes(c, "FAIL")
  /\ UNCHANGED <<up, aol, aolFile, epoch, run, leaderVars, crashes>>

\* The id goes to the aol file, mu is released, SUCCESS is sent.
LogAndAck(c) ==
  LET w == call[c].to IN
  /\ Is(c, "log")
  /\ aolFile' = [aolFile EXCEPT ![w] = @ \cup {c[2]}]
  /\ Unlock(w) /\ Becomes(c, "SUCCESS")
  /\ UNCHANGED <<up, aol, epoch, run, outFile, leaderVars, faults, crashes>>

\* The result is written, the line of the aol file is not.
LogError(c) ==
  /\ Is(c, "log") /\ Fault
  /\ Unlock(call[c].to) /\ Becomes(c, "FAIL")
  /\ UNCHANGED <<up, aol, aolFile, epoch, run, outFile, leaderVars, crashes>>

(***************************************************************************)
(* Failure of a worker and what the leader does about it.                  *)
(***************************************************************************)

Crash(w) ==
  /\ up[w] /\ crashes < MaxCrashes /\ epoch[w] < MaxEpoch
  /\ crashes' = crashes + 1
  /\ up' = [up EXCEPT ![w] = FALSE]
  /\ ws' = [ws EXCEPT ![w] = InitWorker(InitParts)]
  /\ aol' = [aol EXCEPT ![w] = {}]
  /\ epoch' = [epoch EXCEPT ![w] = @ + 1]
  /\ run' = [t \in Tasks |->
               IF run[t].at = w THEN Goroutine("failed", w) ELSE run[t]]
  /\ call' = [c \in Calls |->
               IF call[c].to = w /\ call[c].st \notin Answered \cup {"none"}
                 THEN [call[c] EXCEPT !.st = "lost"] ELSE call[c]]
  /\ UNCHANGED <<aolFile, outFile, leaderVars, faults>>

\* Workers the leader may choose: idle ones first.
Idle == {w \in Workers : up[w] /\ \A t \in Tasks \ completed : run[t].at # w}
Candidates == IF Idle # {} THEN Idle ELSE {w \in Workers : up[w]}

\* The senders AssignTasks recorded in PrevWorkers; never brought up to date.
PrevWorkers == {Place[s] : s \in Stage1}

\* handleWorkerFailure reschedules one unfinished task of the failed worker
\* and stops at its break; for a TASK_2 the tasks queued at the recorded
\* senders are multicast with the new partition map.
Reschedule(t, w) ==
  LET old == run[t].at
      told == {s \in Tasks \ completed :
                 s # t /\ run[s].at \in PrevWorkers /\ up[run[s].at]}
      recorded == old \in {Place[r] : r \in Stage2}
      mine == {k \in Stage2 : parts[k] = old}
      multicast == t \in Stage2 /\ recorded /\ told # {} /\ mine # {}
  IN
  /\ run[t].pc = "failed" /\ t \notin completed
  /\ w \in Candidates
  /\ run' = [x \in Tasks |->
               CASE x = t -> Goroutine("assigned", w)
                 [] x # t /\ run[x].pc = "failed" /\ run[x].at = old
                      -> Goroutine("abandoned", old)
                 [] OTHER -> run[x]]
  /\ IF multicast
       THEN \E k \in mine :
              /\ parts' = [parts EXCEPT ![k] = w]
              /\ updates' = updates \cup {<<s, parts'>> : s \in told}
       ELSE UNCHANGED <<parts, updates>>
  /\ UNCHANGED <<workerVars, call, outFile, completed, faults, crashes>>

\* UpdateTask at the worker that has the task queued; elsewhere it is ignored.
UpdateTask(u) ==
  LET w == run[u[1]].at IN
  /\ u \in updates
  /\ updates' = updates \ {u}
  /\ IF up[w] /\ u[1] \in Range(ws[w].queue)
       THEN ws' = [ws EXCEPT ![w].parts = u[2]]
       ELSE UNCHANGED ws
  /\ UNCHANGED <<up, aol, aolFile, epoch, run, call, outFile, completed, parts,
                 faults, crashes>>

\* Once every sender has reported, the leader marks the receiver tasks
\* completed and tells their workers to drop them.
NotifyReceiver(t) ==
  LET w == run[t].at IN
  /\ Stage1 \subseteq completed /\ t \in Stage2 \ completed
  /\ completed' = completed \cup {t}
  /\ \/ NoFault /\ ws' = IF up[w] THEN [ws EXCEPT ![w].queue = Dequeue(@, t)] ELSE ws
     \/ Fault /\ UNCHANGED ws
  /\ UNCHANGED <<up, aol, aolFile, epoch, run, call, outFile, parts, updates, crashes>>

-----------------------------------------------------------------------------

Sender(t) ==
  \/ StartTask(t) \/ SkipLine(t) \/ ScanSend(t) \/ ScanDone(t)
  \/ \E ack \in BOOLEAN : ScanReturn(t, ack) \/ ResendReturn(t, ack)
  \/ Wake(t) \/ LockForResend(t) \/ ResendSend(t) \/ ResendEnd(t) \/ Finish(t)

Receiver(t) == StartTask(t) \/ PrepareBegin(t) \/ LoadOutput(t) \/ LoadAol(t)

Handler(c) ==
  \/ Accept(c) \/ OpenError(c) \/ Duplicate(c) \/ NoReceiverTask(c) \/ Take(c)
  \/ Op2(c) \/ Op2Error(c) \/ WriteOutput(c) \/ WriteError(c)
  \/ LogAndAck(c) \/ LogError(c)

Leader ==
  \/ \E t \in Tasks, w \in Workers : Reschedule(t, w)
  \/ \E u \in updates : UpdateTask(u)
  \/ \E t \in Stage2 : NotifyReceiver(t)

Next ==
  \/ \E t \in Stage1 : Sender(t)
  \/ \E t \in Stage2 : Receiver(t)
  \/ \E c \in Calls : Handler(c)
  \/ \E w \in Workers : Crash(w)
  \/ Leader

Spec == Init /\ [][Next]_vars

(***************************************************************************)
(* Fairness.  A goroutine that can run does run (the Go scheduler), a      *)
(* waiter on mu gets it in the end (sync.Mutex serves waiters in order     *)
(* once one has waited 1 ms), SendTuple returns after 7 s at the latest,   *)
(* op2 and the HyDFS calls return.                                         *)
(***************************************************************************)
FairSpec ==
  /\ Spec
  /\ \A t \in Stage1 : SF_vars(Sender(t))
  /\ \A t \in Stage2 : SF_vars(Receiver(t)) /\ WF_vars(NotifyReceiver(t))
  /\ \A c \in Calls : SF_vars(Handler(c))

-----------------------------------------------------------------------------
TupleRec == [id : Ids, line : LineNo]
CallRec  == [st : Status, line : LineNo, to : Workers, ep : Nat, cnt : Nat]
OutRec   == [id : Ids, line : LineNo, key : Stage2, cnt : Nat, by : Workers, ep : Nat]
WorkerRec ==
  [mu : BOOLEAN, queue : Seq(Tasks), ackMap : [Ids -> {"absent", "acked", "unacked"}],
   unacked : Seq(TupleRec), retries : [Ids -> 0 .. MAX_RETRY_COUNT],
   parts : [Stage2 -> Workers], preparing : SUBSET Stage2, outputMap : [Stage2 -> Nat]]
RunRec ==
  [pc : Pcs, at : Workers, line : 0 .. Lines, seq : 0 .. Lines, n : Attempt, i : Nat \ {0},
   allMax : BOOLEAN, fin : Tasks]

\* The types of the variables (the fields of WorkerService, worker.go:23-36).
TypeOK ==
  /\ up \in [Workers -> BOOLEAN]
  /\ ws \in [Workers -> WorkerRec]
  /\ aol \in [Workers -> SUBSET Ids]
  /\ aolFile \in [Workers -> SUBSET Ids]
  /\ run \in [Tasks -> RunRec]
  /\ call \in [Calls -> CallRec]
  /\ outFile \in Seq(OutRec)
  /\ completed \subseteq Tasks
  /\ parts \in [Stage2 -> Workers]
  /\ updates \subseteq Tasks \X [Stage2 -> Workers]
  /\ faults \in 0 .. MaxFaults
  /\ crashes \in 0 .. MaxCrashes
  /\ epoch \in [Workers -> 1 .. MaxEpoch]

\* A receiver never writes the result of a tuple twice while it keeps its aol
\* (utils-tasks.go:526-546): one line per tuple, worker and aol.
AtMostOncePerAol ==
  \A i, j \in 1 .. Len(outFile) :
    (/\ outFile[i].id = outFile[j].id
     /\ outFile[i].by = outFile[j].by
     /\ outFile[i].ep = outFile[j].ep) => i = j

Written(id) == \E i \in 1 .. Len(outFile) : outFile[i].id = id

\* An id is in a worker's aol file, and SUCCESS is sent for it, only after its
\* result was written to HyDFS (utils-tasks.go:607-612).
LoggedIsWritten ==
  /\ \A w \in Workers : \A id \in aolFile[w] :
       \E i \in 1 .. Len(outFile) : outFile[i].id = id /\ outFile[i].by = w
  /\ \A c \in Calls : call[c].st = "SUCCESS" =>
       c[2] \in aolFile[call[c].to]

\* The only way an acknowledged tuple can be missing from the output is a call
\* of it that was answered FAIL after its id had entered the aol
\* (utils-tasks.go:546-552, 583-586, 607-610 before 526-531); a refusal before
\* that (522-525) loses nothing.
LossNeedsFailure ==
  \A w \in Workers, id \in Ids :
    (ws[w].ackMap[id] = "acked" /\ ~Written(id)) =>
      \E c \in Calls : c[2] = id /\ call[c].st = "FAIL" /\ call[c].ep # 0

\* A stage-1 task is reported to the leader only when each tuple it sent is
\* acknowledged or was sent MAX_RETRY_COUNT + 2 times in vain
\* (utils-tasks.go:190-207, 331-385): nothing is given up early.
ReportedIsSettled ==
  \A t \in Stage1 \cap completed, n \in LineNo :
    LET w == run[t].at
        id == <<t, n>>
    IN call[<<w, id, 0>>].st # "none" =>
         \/ ws[w].ackMap[id] = "acked"
         \/ call[<<w, id, MAX_RETRY_COUNT + 1>>].st # "none"

\* Who holds the mutex of a worker: a pass over its unacknowledged tuples, or a
\* handler from the check of the aol to the append to its file.
InResend(t)  == run[t].pc \in {"resend", "resending"}
InProcess(c) == call[c].st \in {"taken", "write", "log"}

\* ws.mu excludes retry passes and tuple handlers of one worker from each other,
\* although PrepareTask, the scan and UpdateTask do not take it
\* (utils-tasks.go:341,376, worker.go:158-208).
LockDiscipline ==
  /\ \A t \in Tasks : InResend(t) => ws[run[t].at].mu
  /\ \A c \in Calls : InProcess(c) => ws[call[c].to].mu
  /\ \A t, u \in Tasks :
       (InResend(t) /\ InResend(u) /\ run[t].at = run[u].at) => t = u
  /\ \A c, d \in Calls :
       (InProcess(c) /\ InProcess(d) /\ call[c].to = call[d].to) => c = d
  /\ \A t \in Tasks, c \in Calls :
       (InResend(t) /\ InProcess(c)) => run[t].at # call[c].to

\* Under one aol one call of a tuple is processed, its id stays in the aol, and
\* each line of the output stems from such a call that got past its write.
AolDiscipline ==
  /\ \A c \in Calls :
       /\ call[c].ep <= epoch[call[c].to]
       /\ (call[c].ep # 0 /\ call[c].ep = epoch[call[c].to]) => c[2] \in aol[call[c].to]
       /\ InProcess(c) => call[c].ep # 0
       /\ call[c].st \in {"none", "sent", "ready"} => call[c].ep = 0
  /\ \A c, d \in Calls :
       (/\ call[c].ep # 0 /\ c[2] = d[2]
        /\ call[c].to = call[d].to /\ call[c].ep = call[d].ep) => c = d
  /\ \A i \in 1 .. Len(outFile) : \E c \in Calls :
       /\ c[2] = outFile[i].id /\ call[c].to = outFile[i].by
       /\ call[c].ep = outFile[i].ep /\ call[c].ep # 0
       /\ call[c].st \in {"log", "SUCCESS", "FAIL", "lost"}

\* A worker never sends again a tuple it holds an acknowledgement for
\* (the removals from UnackedTuples, utils-tasks.go:354-359).
NoSendAfterAck ==
  [][\A c \in Calls : (call[c].st = "none" /\ call'[c].st # "none") =>
        ws[c[1]].ackMap[c[2]] # "acked"]_vars

\* Exactly-once, the half of it an acknowledgement promises (Stream/Readme.md:4):
\* the result of an acknowledged tuple is in the output file.
AckedIsWritten ==
  \A w \in Workers, id \in Ids : ws[w].ackMap[id] = "acked" => Written(id)

\* Every stage-1 goroutine comes to its end: the scan, the retries and the
\* report terminate whatever the receivers do (utils-tasks.go:321-388).
SendersTerminate == \A t \in Stage1 : <>(run[t].pc = "done")

\* Without failures the leader learns of the end of every task and so of the
\* job (utils-tasks.go:400-423, utils-leader.go:249-288).
JobCompletes == <>(Tasks \subseteq completed)

(***************************************************************************)
(* What the exchange does promise, as an abstract specification.           *)
(***************************************************************************)
Taken == {<<c[2], <<call[c].to, call[c].ep>>>> : c \in {d \in Calls : call[d].ep # 0}}
Failed == {<<c[2], <<call[c].to, call[c].ep>>>> :
             c \in {d \in Calls : call[d].ep # 0 /\ call[d].st = "FAIL"}}
Acked == {c[2] : c \in {d \in Calls : call[d].st \in {"SUCCESS", "COMPLETED"}}}
Delivered == [i \in 1 .. Len(outFile) |->
                <<outFile[i].id, <<outFile[i].by, outFile[i].ep>>>>]

Dedup == INSTANCE DedupDelivery
           WITH Logs <- Workers \X (1 .. MaxEpoch),
                taken <- Taken, failed <- Failed, acked <- Acked, delivered <- Delivered

\* The exchange implements the abstract delivery with duplicate detection.
ImplementsDedup == Dedup!Spec
=============================================================================
