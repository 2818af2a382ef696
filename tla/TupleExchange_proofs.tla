------------------------ MODULE TupleExchange_proofs ------------------------
(***************************************************************************)
(* Proofs about TupleExchange: its types, the mutual exclusion of retry    *)
(* passes and tuple handlers, and the receivers' side: none writes the     *)
(* result of a tuple twice under one aol, none acknowledges what it has    *)
(* not written and will not fail, and the whole implements DedupDelivery,  *)
(* for every number of workers, tasks, lines, retries, faults and crashes. *)
(* The senders' side is in TupleExchange_report.                           *)
(***************************************************************************)
EXTENDS TupleExchange, TLAPS, SequenceTheorems

\* What TypeOK rests on: an execution has numbered no more tuples than it has
\* read lines, and nothing shrinks UnackedTuples under a waiting retry pass.
ScanInv ==
  \A t \in Tasks :
    /\ run[t].seq <= run[t].line
    /\ run[t].pc = "sending" => run[t].line < Lines
    /\ run[t].pc = "resending" => run[t].i <= Len(ws[run[t].at].unacked)

Ind == TypeOK /\ ScanInv /\ LockDiscipline

-----------------------------------------------------------------------------
(* Lemmas about the operators. *)

\* Dropping the first occurrence of a task leaves a sequence of tasks
\* (finishTask and SendNotification remove a task from a TaskQueue).
LEMMA RemoveAtType ==
  ASSUME NEW S, NEW q \in Seq(S), NEW i \in 1 .. Len(q)
  PROVE  RemoveAt(q, i) \in Seq(S)
<1>1. SubSeq(q, 1, i - 1) \in Seq(S)
  BY SubSeqProperties
<1>2. SubSeq(q, i + 1, Len(q)) \in Seq(S)
  BY SubSeqProperties
<1>. QED  BY <1>1, <1>2, ConcatProperties DEF RemoveAt

\* Taking a task off a queue leaves a queue of tasks.
LEMMA DequeueType ==
  ASSUME NEW S, NEW q \in Seq(S), NEW t
  PROVE  Dequeue(q, t) \in Seq(S)
BY RemoveAtType DEF Dequeue

-----------------------------------------------------------------------------
(* The initial states. *)

\* Nothing runs at first: all three parts of Ind hold.
LEMMA InitInd == Init => Ind
<1>. SUFFICES ASSUME Init PROVE Ind
  OBVIOUS
<1>. USE TasksAssumption, KeysAssumption, BoundsAssumption
<1>1. \E t \in Tasks : TRUE
  BY DEF Tasks
<1>2. (CHOOSE t \in Tasks : TRUE) \in Tasks
  BY <1>1
<1>3. InitParts \in [Stage2 -> Workers]
  BY DEF InitParts, Tasks
<1>4. TypeOK
  <2>1. ws \in [Workers -> WorkerRec]
    BY <1>3 DEF Init, InitWorker, WorkerRec, NoCounts, Ids, LineNo
  <2>2. run \in [Tasks -> RunRec]
    BY <1>2 DEF Init, Goroutine, RunRec, Pcs, Tasks, Attempt
  <2>3. call \in [Calls -> CallRec]
    BY <1>2 DEF Init, NoCall, CallRec, Status, LineNo
  <2>. QED  BY <1>3, <2>1, <2>2, <2>3 DEF Init, TypeOK
<1>5. ScanInv
  BY DEF Init, ScanInv, Goroutine
<1>6. LockDiscipline
  BY DEF Init, LockDiscipline, InResend, InProcess, Goroutine, NoCall
<1>. QED  BY <1>4, <1>5, <1>6 DEF Ind

-----------------------------------------------------------------------------
(* Updates of one field keep a record's type. *)

\* A goroutine's record.
LEMMA RunFields ==
  ASSUME NEW r \in RunRec
  PROVE  /\ \A x \in Pcs : [r EXCEPT !.pc = x] \in RunRec
         /\ \A x \in 0 .. Lines : [r EXCEPT !.line = x] \in RunRec
         /\ \A x \in 0 .. Lines : [r EXCEPT !.seq = x] \in RunRec
         /\ \A x \in Attempt : [r EXCEPT !.n = x] \in RunRec
         /\ \A x \in Nat \ {0} : [r EXCEPT !.i = x] \in RunRec
         /\ \A x \in BOOLEAN : [r EXCEPT !.allMax = x] \in RunRec
         /\ \A x \in Tasks : [r EXCEPT !.fin = x] \in RunRec
BY DEF RunRec

\* A worker's record.
LEMMA WorkerFields ==
  ASSUME NEW r \in WorkerRec
  PROVE  /\ \A x \in BOOLEAN : [r EXCEPT !.mu = x] \in WorkerRec
         /\ \A x \in Seq(Tasks) : [r EXCEPT !.queue = x] \in WorkerRec
         /\ \A x \in [Ids -> {"absent", "acked", "unacked"}] : [r EXCEPT !.ackMap = x] \in WorkerRec
         /\ \A x \in Seq(TupleRec) : [r EXCEPT !.unacked = x] \in WorkerRec
         /\ \A x \in [Ids -> 0 .. MAX_RETRY_COUNT] : [r EXCEPT !.retries = x] \in WorkerRec
         /\ \A x \in [Stage2 -> Workers] : [r EXCEPT !.parts = x] \in WorkerRec
         /\ \A x \in SUBSET Stage2 : [r EXCEPT !.preparing = x] \in WorkerRec
         /\ \A x \in [Stage2 -> Nat] : [r EXCEPT !.outputMap = x] \in WorkerRec
BY DEF WorkerRec

\* A call's record.
LEMMA CallFields ==
  ASSUME NEW r \in CallRec
  PROVE  /\ \A x \in Status : [r EXCEPT !.st = x] \in CallRec
         /\ \A x \in Nat : [r EXCEPT !.ep = x] \in CallRec
         /\ \A x \in Nat : [r EXCEPT !.cnt = x] \in CallRec
BY DEF CallRec

\* What the types say of a worker, a goroutine and a call.
LEMMA Typed ==
  ASSUME TypeOK
  PROVE  /\ ws \in [Workers -> WorkerRec] /\ run \in [Tasks -> RunRec]
         /\ call \in [Calls -> CallRec]
         /\ \A w \in Workers :
              /\ ws[w] \in WorkerRec /\ ws[w].queue \in Seq(Tasks)
              /\ ws[w].ackMap \in [Ids -> {"absent", "acked", "unacked"}]
              /\ ws[w].unacked \in Seq(TupleRec)
              /\ ws[w].retries \in [Ids -> 0 .. MAX_RETRY_COUNT]
              /\ ws[w].parts \in [Stage2 -> Workers]
              /\ ws[w].preparing \in SUBSET Stage2
              /\ ws[w].outputMap \in [Stage2 -> Nat]
              /\ ws[w].mu \in BOOLEAN
         /\ \A t \in Tasks :
              /\ run[t] \in RunRec /\ run[t].at \in Workers /\ run[t].fin \in Tasks
              /\ run[t].i \in Nat \ {0} /\ run[t].line \in 0 .. Lines
              /\ run[t].seq \in 0 .. Lines
         /\ \A c \in Calls :
              /\ call[c] \in CallRec /\ call[c].to \in Workers /\ call[c].line \in LineNo
              /\ call[c].ep \in Nat /\ call[c].cnt \in Nat /\ call[c].st \in Status
BY DEF TypeOK, WorkerRec, RunRec, CallRec

\* What a call's name says: the id it carries, and the key of its line.
LEMMA CallNames ==
  ASSUME NEW c \in Calls
  PROVE  /\ c[1] \in Workers /\ c[2] \in Ids /\ c[2][1] \in Stage1
         /\ \A n \in LineNo : KeyOf[<<c[2][1], n>>] \in Stage2
BY KeysAssumption DEF Calls, Ids

\* A step after which every holder of a mutex held it before, and still does.
LEMMA LockKept ==
  ASSUME LockDiscipline,
         \A t \in Tasks : InResend(t)' =>
           InResend(t) /\ run'[t].at = run[t].at /\ ws'[run[t].at].mu,
         \A c \in Calls : InProcess(c)' =>
           InProcess(c) /\ call'[c].to = call[c].to /\ ws'[call[c].to].mu
  PROVE  LockDiscipline'
BY DEF LockDiscipline

\* A step that starts no send and takes no tuple from the lists of those waiting.
LEMMA ScanKept ==
  ASSUME ScanInv,
         \A t \in Tasks :
           /\ run'[t].seq = run[t].seq /\ run'[t].line = run[t].line
           /\ run'[t].pc = "sending" => run[t].pc = "sending"
           /\ run'[t].pc = "resending" =>
                /\ run[t].pc = "resending" /\ run'[t].i = run[t].i
                /\ Len(ws[run[t].at].unacked) = Len(ws'[run'[t].at].unacked)
  PROVE  ScanInv'
BY DEF ScanInv

-----------------------------------------------------------------------------
(* The steps of a handler. *)

\* The opening of a stream takes no mutex and changes one call.
LEMMA AcceptInd == ASSUME NEW c \in Calls, Ind, Accept(c) PROVE Ind'
<1>1. UNCHANGED <<up, ws, aol, aolFile, epoch, run, outFile, completed, parts, updates, faults, crashes>>
  BY DEF Accept, workerVars, leaderVars
<1>2. call' \in [Calls -> CallRec]
  BY Typed, CallFields DEF Ind, Accept, Becomes, Status
<1>3. \A d \in Calls : InProcess(d)' => InProcess(d) /\ call'[d].to = call[d].to
  BY Typed DEF Ind, Accept, Becomes, InProcess, CallRec
<1>4. TypeOK'
  BY <1>1, <1>2 DEF Ind, TypeOK
<1>5. ScanInv'
  BY <1>1 DEF Ind, ScanInv
<1>6. LockDiscipline'
  BY <1>1, <1>3, LockKept DEF Ind, LockDiscipline, InResend
<1>. QED  BY <1>4, <1>5, <1>6 DEF Ind

\* A tuple found in the aol is acknowledged before mu is taken.
LEMMA DuplicateInd == ASSUME NEW c \in Calls, Ind, Duplicate(c) PROVE Ind'
<1>1. UNCHANGED <<up, ws, aol, aolFile, epoch, run, outFile, completed, parts, updates, faults, crashes>>
  BY DEF Duplicate, workerVars, leaderVars
<1>2. call' \in [Calls -> CallRec]
  BY Typed, CallFields DEF Ind, Duplicate, Becomes, Status
<1>3. \A d \in Calls : InProcess(d)' => InProcess(d) /\ call'[d].to = call[d].to
  BY Typed DEF Ind, Duplicate, Becomes, InProcess, CallRec
<1>4. TypeOK'
  BY <1>1, <1>2 DEF Ind, TypeOK
<1>5. ScanInv'
  BY <1>1 DEF Ind, ScanInv
<1>6. LockDiscipline'
  BY <1>1, <1>3, LockKept DEF Ind, LockDiscipline, InResend
<1>. QED  BY <1>4, <1>5, <1>6 DEF Ind

\* A tuple for a task the worker does not have is answered before mu is taken.
LEMMA NoReceiverTaskInd == ASSUME NEW c \in Calls, Ind, NoReceiverTask(c) PROVE Ind'
<1>1. UNCHANGED <<up, ws, aolFile, epoch, run, outFile, completed, parts, updates, faults, crashes>>
  BY DEF NoReceiverTask, leaderVars
<1>2. call' \in [Calls -> CallRec]
  <2>1. epoch[call[c].to] \in Nat
    BY Typed DEF Ind, TypeOK
  <2>. QED  BY <2>1, Typed, CallFields DEF Ind, NoReceiverTask, Status
<1>3. aol' \in [Workers -> SUBSET Ids]
  BY CallNames DEF Ind, TypeOK, NoReceiverTask
<1>4. \A d \in Calls : InProcess(d)' => InProcess(d) /\ call'[d].to = call[d].to
  BY Typed DEF Ind, NoReceiverTask, InProcess, CallRec
<1>5. TypeOK'
  BY <1>1, <1>2, <1>3 DEF Ind, TypeOK
<1>6. ScanInv'
  BY <1>1 DEF Ind, ScanInv
<1>7. LockDiscipline'
  BY <1>1, <1>4, LockKept DEF Ind, LockDiscipline, InResend
<1>. QED  BY <1>5, <1>6, <1>7 DEF Ind

\* A handler takes mu only when it is free: it becomes its one holder.
LEMMA TakeInd == ASSUME NEW c \in Calls, Ind, Take(c) PROVE Ind'
<1>. DEFINE w == call[c].to
            key == KeyOf[<<c[2][1], call[c].line>>]
            cnt == IF Last(ws[w].queue) \in Stage2 THEN ws[w].outputMap[key] ELSE 0
<1>1. UNCHANGED <<up, aolFile, epoch, run, outFile, completed, parts, updates, faults, crashes>>
  BY DEF Take, leaderVars
<1>2. w \in Workers /\ ~ws[w].mu /\ call[c].st = "ready"
  BY Typed DEF Ind, Take, Is
<1>3. call' = [call EXCEPT ![c].st = "taken", ![c].ep = epoch[w], ![c].cnt = cnt]
  BY DEF Take
<1>4. call' \in [Calls -> CallRec]
  <2>1. epoch[w] \in Nat /\ cnt \in Nat
    BY <1>2, Typed, CallNames DEF Ind, TypeOK
  <2>2. [call[c] EXCEPT !.st = "taken"] \in CallRec
    BY Typed, CallFields DEF Ind, Status
  <2>3. [call[c] EXCEPT !.st = "taken", !.ep = epoch[w]] \in CallRec
    BY <2>1, <2>2, CallFields
  <2>4. [call[c] EXCEPT !.st = "taken", !.ep = epoch[w], !.cnt = cnt] \in CallRec
    BY <2>1, <2>3, CallFields
  <2>. HIDE DEF cnt, w
  <2>. QED  BY <2>4, <1>3, Typed DEF Ind
<1>5. ws' \in [Workers -> WorkerRec] /\ aol' \in [Workers -> SUBSET Ids]
  BY Typed, WorkerFields, CallNames DEF Ind, TypeOK, Take
<1>6. /\ ws'[w].mu /\ ws'[w].unacked = ws[w].unacked
      /\ \A v \in Workers : v # w => ws'[v] = ws[v]
  BY <1>2, Typed DEF Ind, Take, WorkerRec
<1>7. /\ call'[c].to = w
      /\ \A d \in Calls : d # c => call'[d] = call[d]
  BY <1>3, Typed DEF Ind, CallRec
<1>8. TypeOK'
  BY <1>1, <1>4, <1>5 DEF Ind, TypeOK
<1>9. ScanInv'
  BY <1>1, <1>6, Typed DEF Ind, ScanInv
<1>10. \A t \in Tasks : InResend(t)' <=> InResend(t)
  BY <1>1 DEF InResend
<1>11. \A d \in Calls : d # c => (InProcess(d)' <=> InProcess(d))
  BY <1>7 DEF InProcess
<1>12. \A t \in Tasks : InResend(t) => run[t].at # w
  BY <1>2 DEF Ind, LockDiscipline
<1>13. \A d \in Calls : InProcess(d) => call[d].to # w
  BY <1>2 DEF Ind, LockDiscipline
<1>14. LockDiscipline'
  <2>. HIDE DEF w
  <2>1. \A t \in Tasks : InResend(t)' => ws'[run'[t].at].mu
    BY <1>1, <1>6, <1>10, <1>12, Typed DEF Ind, LockDiscipline
  <2>2. \A d \in Calls : InProcess(d)' => ws'[call'[d].to].mu
    BY <1>6, <1>7, <1>11, <1>13, Typed DEF Ind, LockDiscipline
  <2>3. \A t, u \in Tasks : (InResend(t)' /\ InResend(u)' /\ run'[t].at = run'[u].at) => t = u
    BY <1>1, <1>10 DEF Ind, LockDiscipline
  <2>4. \A d, e \in Calls : (InProcess(d)' /\ InProcess(e)' /\ call'[d].to = call'[e].to) => d = e
    BY <1>7, <1>11, <1>13 DEF Ind, LockDiscipline
  <2>5. \A t \in Tasks, d \in Calls : (InResend(t)' /\ InProcess(d)') => run'[t].at # call'[d].to
    BY <1>1, <1>7, <1>10, <1>11, <1>12 DEF Ind, LockDiscipline
  <2>. QED  BY <2>1, <2>2, <2>3, <2>4, <2>5 DEF LockDiscipline
<1>. QED  BY <1>8, <1>9, <1>14 DEF Ind

\* op2 runs under mu, which its handler keeps.
LEMMA Op2Ind == ASSUME NEW c \in Calls, Ind, Op2(c) PROVE Ind'
<1>. DEFINE w == call[c].to
            key == KeyOf[<<c[2][1], call[c].line>>]
<1>1. UNCHANGED <<up, aol, aolFile, epoch, run, outFile, completed, parts, updates, faults, crashes>>
  BY DEF Op2, leaderVars
<1>2. w \in Workers /\ key \in Stage2 /\ call[c].cnt + 1 \in Nat /\ call[c].st = "taken"
  BY Typed, CallNames DEF Ind, Op2, Is
<1>3. call' \in [Calls -> CallRec]
  BY <1>2, Typed, CallFields DEF Ind, Op2, Status
<1>4. ws' \in [Workers -> WorkerRec]
  <2>1. [ws[w].outputMap EXCEPT ![key] = call[c].cnt + 1] \in [Stage2 -> Nat]
    BY <1>2, Typed DEF Ind
  <2>. QED  BY <1>2, <2>1, Typed, WorkerFields DEF Ind, Op2
<1>5. \A v \in Workers : ws'[v].mu = ws[v].mu /\ ws'[v].unacked = ws[v].unacked
  BY <1>2, Typed DEF Ind, Op2, WorkerRec
<1>6. \A d \in Calls : InProcess(d)' => InProcess(d) /\ call'[d].to = call[d].to
  BY <1>2, Typed DEF Ind, Op2, InProcess, CallRec
<1>7. TypeOK'
  BY <1>1, <1>3, <1>4 DEF Ind, TypeOK
<1>8. ScanInv'
  BY <1>1, <1>5, ScanKept, Typed DEF Ind
<1>9. LockDiscipline'
  BY <1>1, <1>5, <1>6, LockKept, Typed DEF Ind, LockDiscipline, InResend
<1>. QED  BY <1>7, <1>8, <1>9 DEF Ind

\* A handler that answers releases mu, which it alone held.
LEMMA HandlerReleases ==
  ASSUME NEW c \in Calls, Ind, InProcess(c), UNCHANGED run, Unlock(call[c].to),
         call'[c].st \in Answered,
         \A d \in Calls : d # c => call'[d] = call[d]
  PROVE  ws' \in [Workers -> WorkerRec] /\ ScanInv' /\ LockDiscipline'
<1>. DEFINE w == call[c].to
<1>1. w \in Workers
  BY Typed DEF Ind
<1>2. ws' \in [Workers -> WorkerRec]
  BY <1>1, Typed, WorkerFields DEF Ind, Unlock
<1>3. /\ ws'[w].unacked = ws[w].unacked
      /\ \A v \in Workers : v # w => ws'[v] = ws[v]
  BY <1>1, Typed DEF Ind, Unlock, WorkerRec
<1>4. ScanInv'
  BY <1>1, <1>3, ScanKept, Typed DEF Ind
<1>5. \A t \in Tasks : InResend(t)' =>
        InResend(t) /\ run'[t].at = run[t].at /\ ws'[run[t].at].mu
  BY <1>1, <1>3, Typed DEF Ind, LockDiscipline, InResend
<1>6. \A d \in Calls : InProcess(d)' =>
        InProcess(d) /\ call'[d].to = call[d].to /\ ws'[call[d].to].mu
  BY <1>1, <1>3, Typed DEF Ind, LockDiscipline, InProcess, Answered
<1>. QED  BY <1>2, <1>4, <1>5, <1>6, LockKept DEF Ind

\* An error of op2 answers FAIL and releases mu.
LEMMA Op2ErrorInd == ASSUME NEW c \in Calls, Ind, Op2Error(c) PROVE Ind'
<1>1. /\ UNCHANGED <<up, aol, aolFile, epoch, run, outFile, completed, parts, updates, crashes>>
      /\ InProcess(c) /\ Unlock(call[c].to)
  BY DEF Op2Error, leaderVars, InProcess, Is
<1>2. faults' \in 0 .. MaxFaults
  BY BoundsAssumption DEF Ind, TypeOK, Op2Error, Fault
<1>3. call' \in [Calls -> CallRec]
  BY Typed, CallFields DEF Ind, Op2Error, Becomes, Status
<1>4. call'[c].st \in Answered /\ \A d \in Calls : d # c => call'[d] = call[d]
  BY Typed DEF Ind, Op2Error, Becomes, Answered, CallRec
<1>5. ws' \in [Workers -> WorkerRec] /\ ScanInv' /\ LockDiscipline'
  BY <1>1, <1>4, HandlerReleases
<1>. QED  BY <1>1, <1>2, <1>3, <1>5 DEF Ind, TypeOK

\* When the aol file cannot be opened the call fails and nothing else changes.
LEMMA OpenErrorInd == ASSUME NEW c \in Calls, Ind, OpenError(c) PROVE Ind'
<1>1. UNCHANGED <<up, ws, aol, aolFile, epoch, run, outFile, completed, parts, updates, crashes>>
  BY DEF OpenError, workerVars, leaderVars
<1>2. faults' \in 0 .. MaxFaults
  BY BoundsAssumption DEF Ind, TypeOK, OpenError, Fault
<1>3. call' \in [Calls -> CallRec]
  BY Typed, CallFields DEF Ind, OpenError, Becomes, Status
<1>4. \A d \in Calls : InProcess(d)' => InProcess(d) /\ call'[d].to = call[d].to
  BY Typed DEF Ind, OpenError, Becomes, InProcess, CallRec
<1>5. TypeOK'
  BY <1>1, <1>2, <1>3 DEF Ind, TypeOK
<1>6. ScanInv'
  BY <1>1, ScanKept, Typed DEF Ind
<1>7. LockDiscipline'
  BY <1>1, <1>4, LockKept, Typed DEF Ind, LockDiscipline, InResend
<1>. QED  BY <1>5, <1>6, <1>7 DEF Ind

\* A handler that cannot write to the aol file answers FAIL and releases mu.
LEMMA LogErrorInd == ASSUME NEW c \in Calls, Ind, LogError(c) PROVE Ind'
<1>1. /\ UNCHANGED <<up, aol, aolFile, epoch, run, outFile, completed, parts, updates, crashes>>
      /\ InProcess(c) /\ Unlock(call[c].to)
  BY DEF LogError, leaderVars, InProcess, Is
<1>2. faults' \in 0 .. MaxFaults
  BY BoundsAssumption DEF Ind, TypeOK, LogError, Fault
<1>3. call' \in [Calls -> CallRec]
  BY Typed, CallFields DEF Ind, LogError, Becomes, Status
<1>4. call'[c].st \in Answered /\ \A d \in Calls : d # c => call'[d] = call[d]
  BY Typed DEF Ind, LogError, Becomes, Answered, CallRec
<1>5. ws' \in [Workers -> WorkerRec] /\ ScanInv' /\ LockDiscipline'
  BY <1>1, <1>4, HandlerReleases
<1>. QED  BY <1>1, <1>2, <1>3, <1>5 DEF Ind, TypeOK

\* The line a handler writes has the fields of an output line.
LEMMA OutLineType == ASSUME NEW c \in Calls, Ind PROVE OutLine(c) \in OutRec
BY Typed, CallNames DEF Ind, OutLine, OutRec

\* The write to HyDFS appends one line, with mu kept.
LEMMA WriteOutputInd == ASSUME NEW c \in Calls, Ind, WriteOutput(c) PROVE Ind'
<1>1. UNCHANGED <<up, ws, aol, aolFile, epoch, run, completed, parts, updates, faults, crashes>>
  BY DEF WriteOutput, workerVars, leaderVars
<1>2. call' \in [Calls -> CallRec]
  BY Typed, CallFields DEF Ind, WriteOutput, Becomes, Status
<1>3. outFile' \in Seq(OutRec)
  BY OutLineType, AppendProperties DEF Ind, TypeOK, WriteOutput
<1>4. \A d \in Calls : InProcess(d)' => InProcess(d) /\ call'[d].to = call[d].to
  BY Typed DEF Ind, WriteOutput, Becomes, InProcess, CallRec, Is
<1>5. TypeOK'
  BY <1>1, <1>2, <1>3 DEF Ind, TypeOK
<1>6. ScanInv'
  BY <1>1 DEF Ind, ScanInv
<1>7. LockDiscipline'
  BY <1>1, <1>4, LockKept DEF Ind, LockDiscipline, InResend
<1>. QED  BY <1>5, <1>6, <1>7 DEF Ind

\* A failed write answers FAIL and releases mu.
LEMMA WriteErrorInd == ASSUME NEW c \in Calls, Ind, WriteError(c) PROVE Ind'
<1>1. /\ UNCHANGED <<up, aol, aolFile, epoch, run, completed, parts, updates, crashes>>
      /\ InProcess(c) /\ Unlock(call[c].to)
  BY DEF WriteError, leaderVars, InProcess, Is
<1>2. faults' \in 0 .. MaxFaults
  BY BoundsAssumption DEF Ind, TypeOK, WriteError, Fault
<1>3. call' \in [Calls -> CallRec]
  BY Typed, CallFields DEF Ind, WriteError, Becomes, Status
<1>4. outFile' \in Seq(OutRec)
  <2>1. outFile \in Seq(OutRec) /\ OutLine(c) \in OutRec
    BY OutLineType DEF Ind, TypeOK
  <2>2. Append(outFile, OutLine(c)) \in Seq(OutRec)
    BY <2>1, AppendProperties
  <2>3. outFile' = outFile \/ outFile' = Append(outFile, OutLine(c))
    BY DEF WriteError
  <2>. QED  BY <2>1, <2>2, <2>3
<1>5. call'[c].st \in Answered /\ \A d \in Calls : d # c => call'[d] = call[d]
  BY Typed DEF Ind, WriteError, Becomes, Answered, CallRec
<1>6. ws' \in [Workers -> WorkerRec] /\ ScanInv' /\ LockDiscipline'
  BY <1>1, <1>5, HandlerReleases
<1>. QED  BY <1>1, <1>2, <1>3, <1>4, <1>6 DEF Ind, TypeOK

\* The tuple goes into the aol, is acknowledged, and mu is released.
LEMMA LogAndAckInd == ASSUME NEW c \in Calls, Ind, LogAndAck(c) PROVE Ind'
<1>1. /\ UNCHANGED <<up, aol, epoch, run, outFile, completed, parts, updates, faults, crashes>>
      /\ InProcess(c) /\ Unlock(call[c].to)
  BY DEF LogAndAck, leaderVars, InProcess, Is
<1>2. call' \in [Calls -> CallRec]
  BY Typed, CallFields DEF Ind, LogAndAck, Becomes, Status
<1>3. aolFile' \in [Workers -> SUBSET Ids]
  BY CallNames DEF Ind, TypeOK, LogAndAck
<1>4. call'[c].st \in Answered /\ \A d \in Calls : d # c => call'[d] = call[d]
  BY Typed DEF Ind, LogAndAck, Becomes, Answered, CallRec
<1>5. ws' \in [Workers -> WorkerRec] /\ ScanInv' /\ LockDiscipline'
  BY <1>1, <1>4, HandlerReleases
<1>. QED  BY <1>1, <1>2, <1>3, <1>5 DEF Ind, TypeOK

\* A waiting execution looks at the list it is to send again.
LEMMA WakeInd == ASSUME NEW t \in Stage1, Ind, Wake(t) PROVE Ind'
<1>1. UNCHANGED <<up, ws, aol, aolFile, epoch, call, outFile, completed, parts, updates, faults, crashes>>
  BY DEF Wake, workerVars, leaderVars
<1>2. run \in [Tasks -> RunRec] /\ t \in Tasks /\ ws[run[t].at].queue \in Seq(Tasks)
  BY DEF Ind, TypeOK, Tasks, RunRec, WorkerRec
<1>3. ws[run[t].at].queue # <<>> => Last(ws[run[t].at].queue) \in Tasks
  BY <1>2 DEF Last
<1>4. run' \in [Tasks -> RunRec]
  BY <1>2, <1>3, RunFields DEF Wake, Pcs
<1>5. /\ run'[t].pc \in {"done", "finish", "lock"} 
      /\ \A u \in Tasks : u # t => run'[u] = run[u]
      /\ \A u \in Tasks : run'[u].seq = run[u].seq /\ run'[u].line = run[u].line
  BY <1>2 DEF Wake, RunRec
<1>6. TypeOK'
  BY <1>1, <1>4 DEF Ind, TypeOK
<1>7. ScanInv'
  BY <1>1, <1>2, <1>5 DEF Ind, ScanInv
<1>8. LockDiscipline'
  BY <1>1, <1>2, <1>5 DEF Ind, LockDiscipline, InResend, InProcess
<1>. QED  BY <1>6, <1>7, <1>8 DEF Ind

\* A retry pass takes mu only when it is free: it becomes its one holder.
LEMMA LockForResendInd == ASSUME NEW t \in Stage1, Ind, LockForResend(t) PROVE Ind'
<1>1. UNCHANGED <<up, aol, aolFile, epoch, call, outFile, completed, parts, updates, faults, crashes>>
  BY DEF LockForResend, workerVars, leaderVars
<1>2. /\ run \in [Tasks -> RunRec] /\ ws \in [Workers -> WorkerRec] /\ call \in [Calls -> CallRec]
      /\ t \in Tasks /\ run[t].at \in Workers
      /\ \A u \in Tasks : run[u].at \in Workers
      /\ \A c \in Calls : call[c].to \in Workers
  BY DEF Ind, TypeOK, Tasks, RunRec, WorkerRec, CallRec
<1>3. run' \in [Tasks -> RunRec]
  <2>1. [run[t] EXCEPT !.pc = "resend"] \in RunRec
    BY <1>2, RunFields DEF Pcs
  <2>0. 1 \in Nat \ {0}
    OBVIOUS
  <2>2. [run[t] EXCEPT !.pc = "resend", !.i = 1] \in RunRec
    BY <2>0, <2>1, RunFields, Zenon
  <2>3. [run[t] EXCEPT !.pc = "resend", !.i = 1, !.allMax = TRUE] \in RunRec
    BY <2>2, RunFields, Zenon
  <2>. QED  BY <1>2, <2>3 DEF LockForResend
<1>4. ws' \in [Workers -> WorkerRec]
  BY <1>2, WorkerFields DEF LockForResend
<1>5. /\ run'[t].pc = "resend"
      /\ \A u \in Tasks : u # t => run'[u] = run[u]
      /\ \A u \in Tasks : run'[u].seq = run[u].seq /\ run'[u].line = run[u].line /\ run'[u].at = run[u].at
  BY <1>2 DEF LockForResend, RunRec
<1>6. /\ ws'[run[t].at].mu /\ ~ws[run[t].at].mu
      /\ \A w \in Workers : w # run[t].at => ws'[w] = ws[w]
      /\ \A w \in Workers : ws'[w].unacked = ws[w].unacked
  BY <1>2 DEF LockForResend, WorkerRec
<1>7. TypeOK'
  BY <1>1, <1>3, <1>4 DEF Ind, TypeOK
<1>8. ScanInv'
  BY <1>1, <1>2, <1>5, <1>6 DEF Ind, ScanInv
<1>9. LockDiscipline'
  BY <1>1, <1>2, <1>5, <1>6 DEF Ind, LockDiscipline, InResend, InProcess
<1>. QED  BY <1>7, <1>8, <1>9 DEF Ind

\* A line op1 fails on is passed over and numbers no tuple.
LEMMA SkipLineInd == ASSUME NEW t \in Stage1, Ind, SkipLine(t) PROVE Ind'
<1>1. UNCHANGED <<up, ws, aol, aolFile, epoch, call, outFile, completed, parts, updates, crashes>>
  BY DEF SkipLine, workerVars, leaderVars
<1>2. t \in Tasks /\ run[t].pc = "scan" /\ run[t].line + 1 \in 0 .. Lines
  BY Typed, BoundsAssumption DEF Ind, Tasks, SkipLine, At
<1>3. run' \in [Tasks -> RunRec]
  BY <1>2, Typed, RunFields DEF Ind, SkipLine
<1>4. faults' \in 0 .. MaxFaults
  BY BoundsAssumption DEF Ind, TypeOK, SkipLine, Fault
<1>5. /\ run'[t].pc = "scan" /\ run'[t].seq = run[t].seq /\ run'[t].line = run[t].line + 1
      /\ \A u \in Tasks : u # t => run'[u] = run[u]
  BY <1>2, Typed DEF Ind, SkipLine, RunRec
<1>6. TypeOK'
  BY <1>1, <1>3, <1>4 DEF Ind, TypeOK
<1>7. ScanInv'
  BY <1>1, <1>2, <1>5, Typed DEF Ind, ScanInv
<1>8. LockDiscipline'
  BY <1>1, <1>2, <1>5 DEF Ind, LockDiscipline, InResend, InProcess
<1>. QED  BY <1>6, <1>7, <1>8 DEF Ind

\* SendTuple opens a stream; nobody holds a mutex for it yet.
LEMMA IssueType ==
  ASSUME NEW c \in Calls, NEW line \in LineNo, Ind, Issue(c, line), call[c].st = "none"
  PROVE  /\ call' \in [Calls -> CallRec]
         /\ \A d \in Calls : d # c => call'[d] = call[d]
         /\ \A d \in Calls : InProcess(d)' => InProcess(d) /\ call'[d].to = call[d].to
<1>. DEFINE to == ws[c[1]].parts[KeyOf[<<c[2][1], line>>]]
            rec == [st |-> IF up[to] THEN "sent" ELSE "lost", line |-> line, to |-> to, ep |-> 0, cnt |-> 0]
<1>1. to \in Workers
  BY Typed, CallNames DEF Ind
<1>2. rec \in CallRec
  BY <1>1 DEF CallRec, Status
<1>3. call' = [call EXCEPT ![c] = rec]
  BY DEF Issue
<1>4. rec.st \in {"sent", "lost"}
  OBVIOUS
<1>. HIDE DEF rec
<1>. QED  BY <1>2, <1>3, <1>4, Typed DEF Ind, InProcess

\* A line sent takes the next number, which is at most its own.
LEMMA ScanSendInd == ASSUME NEW t \in Stage1, Ind, ScanSend(t) PROVE Ind'
<1>. DEFINE w == run[t].at
            id == <<t, run[t].seq>>
<1>1. UNCHANGED <<up, ws, aol, aolFile, epoch, outFile, completed, parts, updates, faults, crashes>>
  BY DEF ScanSend, workerVars, leaderVars
<1>2. t \in Tasks /\ run[t].pc = "scan" /\ run[t].line < Lines /\ run[t].line \in LineNo
      /\ run[t].seq \in LineNo
  BY Typed, BoundsAssumption DEF Ind, ScanInv, Tasks, ScanSend, At, LineNo
<1>3. PICK n \in Attempt : /\ NextStream(w, id, n) /\ Issue(<<w, id, n>>, run[t].line)
                           /\ run' = [run EXCEPT ![t].pc = "sending", ![t].n = n]
  BY DEF ScanSend
<1>4. <<w, id, n>> \in Calls /\ call[<<w, id, n>>].st = "none"
  BY <1>2, <1>3, Typed DEF Ind, Calls, Ids, NextStream
<1>5. /\ call' \in [Calls -> CallRec]
      /\ \A d \in Calls : InProcess(d)' => InProcess(d) /\ call'[d].to = call[d].to
  <2>. HIDE DEF w, id
  <2>. QED  BY <1>2, <1>3, <1>4, IssueType
<1>6. run' \in [Tasks -> RunRec]
  <2>1. "sending" \in Pcs
    BY DEF Pcs
  <2>. QED  BY <1>2, <1>3, <2>1, Typed, RunFields DEF Ind
<1>7. /\ run'[t].pc = "sending" /\ run'[t].seq = run[t].seq /\ run'[t].line = run[t].line
      /\ \A u \in Tasks : u # t => run'[u] = run[u]
  BY <1>2, <1>3, Typed DEF Ind, RunRec
<1>8. TypeOK'
  BY <1>1, <1>5, <1>6 DEF Ind, TypeOK
<1>9. ScanInv'
  BY <1>1, <1>2, <1>7 DEF Ind, ScanInv
<1>10. LockDiscipline'
  BY <1>1, <1>2, <1>5, <1>7, LockKept, Typed DEF Ind, LockDiscipline, InResend
<1>. QED  BY <1>8, <1>9, <1>10 DEF Ind

\* The answer to a first sending settles one id.
LEMMA ScanReturnInd ==
  ASSUME NEW t \in Stage1, NEW ack \in BOOLEAN, Ind, ScanReturn(t, ack) PROVE Ind'
<1>. DEFINE w == run[t].at
            id == <<t, run[t].seq>>
            tup == [id |-> id, line |-> run[t].line]
            mark == IF ack THEN "acked" ELSE "unacked"
            un == IF ack THEN ws[w].unacked ELSE Append(ws[w].unacked, tup)
            am == [ws[w].ackMap EXCEPT ![id] = mark]
            re == IF ack THEN ws[w].retries ELSE [ws[w].retries EXCEPT ![id] = 0]
<1>1. UNCHANGED <<up, aol, aolFile, epoch, call, outFile, completed, parts, updates, faults, crashes>>
  BY DEF ScanReturn, leaderVars
<1>2. t \in Tasks /\ w \in Workers /\ run[t].pc = "sending" /\ run[t].line \in LineNo /\ id \in Ids
      /\ run[t].line + 1 \in 0 .. Lines /\ run[t].seq + 1 \in 0 .. Lines
  <2>1. t \in Tasks /\ run[t].pc = "sending"
    BY DEF Tasks, ScanReturn, At
  <2>2. /\ run[t].line < Lines /\ run[t].seq <= run[t].line
        /\ run[t].line \in 0 .. Lines /\ run[t].seq \in 0 .. Lines /\ w \in Workers
    BY <2>1, Typed DEF Ind, ScanInv
  <2>3. run[t].line \in LineNo /\ run[t].seq \in LineNo
    BY <2>2, BoundsAssumption DEF LineNo
  <2>. QED  BY <2>1, <2>2, <2>3, BoundsAssumption DEF Ids
<1>3. un \in Seq(TupleRec)
  <2>1. tup \in TupleRec
    BY <1>2 DEF TupleRec
  <2>2. ws[w].unacked \in Seq(TupleRec)
    BY <1>2, Typed DEF Ind
  <2>. HIDE DEF tup
  <2>. QED  BY <2>1, <2>2, AppendProperties
<1>4. am \in [Ids -> {"absent", "acked", "unacked"}]
  BY <1>2, Typed DEF Ind
<1>5. re \in [Ids -> 0 .. MAX_RETRY_COUNT]
  <2>1. 0 \in 0 .. MAX_RETRY_COUNT
    BY BoundsAssumption
  <2>2. ws[w].retries \in [Ids -> 0 .. MAX_RETRY_COUNT]
    BY <1>2, Typed DEF Ind
  <2>. QED  BY <1>2, <2>1, <2>2
<1>6. ws' = [ws EXCEPT ![w] = [@ EXCEPT !.ackMap = am, !.unacked = un, !.retries = re]]
  BY DEF ScanReturn
<1>. DEFINE rec == [ws[w] EXCEPT !.ackMap = am, !.unacked = un, !.retries = re]
<1>7. rec \in WorkerRec /\ rec.mu = ws[w].mu
  <2>. HIDE DEF am, un, re
  <2>1. ws[w] \in WorkerRec
    BY <1>2, Typed DEF Ind
  <2>. QED  BY <1>3, <1>4, <1>5, <2>1 DEF WorkerRec
<1>8. /\ ws' \in [Workers -> WorkerRec]
      /\ \A v \in Workers : ws'[v].mu = ws[v].mu
      /\ \A v \in Workers : Len(ws[v].unacked) <= Len(ws'[v].unacked)
  <2>1. ws' = [ws EXCEPT ![w] = rec]
    BY <1>6
  <2>2. rec.unacked = un
    BY <1>2, Typed DEF Ind, WorkerRec
  <2>3. Len(un) >= Len(ws[w].unacked)
    BY <1>2, Typed DEF Ind
  <2>4. \A v \in Workers : Len(ws[v].unacked) >= Len(ws[v].unacked)
    BY Typed DEF Ind
  <2>. HIDE DEF rec, w, un
  <2>. QED  BY <1>2, <1>7, <2>1, <2>2, <2>3, <2>4, Typed DEF Ind
<1>9. run' \in [Tasks -> RunRec]
  <2>1. [run[t] EXCEPT !.pc = "scan"] \in RunRec
    BY <1>2, Typed, RunFields DEF Ind, Pcs
  <2>2. [run[t] EXCEPT !.pc = "scan", !.line = run[t].line + 1] \in RunRec
    BY <1>2, <2>1, RunFields, Zenon
  <2>3. [run[t] EXCEPT !.pc = "scan", !.line = run[t].line + 1, !.seq = run[t].seq + 1] \in RunRec
    BY <1>2, <2>2, RunFields, Zenon
  <2>. QED  BY <1>2, <2>3, Typed DEF Ind, ScanReturn
<1>10. /\ run'[t].pc = "scan" /\ run'[t].seq = run[t].seq + 1 /\ run'[t].line = run[t].line + 1
       /\ \A u \in Tasks : u # t => run'[u] = run[u]
  BY <1>2, Typed DEF Ind, ScanReturn, RunRec
<1>11. TypeOK'
  BY <1>1, <1>8, <1>9 DEF Ind, TypeOK
<1>12. ScanInv'
  <2>. SUFFICES ASSUME NEW u \in Tasks
                PROVE  /\ run'[u].seq <= run'[u].line
                       /\ run'[u].pc = "sending" => run'[u].line < Lines
                       /\ run'[u].pc = "resending" => run'[u].i <= Len(ws'[run'[u].at].unacked)
    BY DEF ScanInv
  <2>1. CASE u = t
    BY <1>2, <1>10, <2>1, Typed DEF Ind, ScanInv
  <2>2. CASE u # t
    <3>1. run'[u] = run[u]
      BY <1>10, <2>2
    <3>2. run[u].at \in Workers /\ run[u].i \in Nat
      BY Typed DEF Ind
    <3>3. Len(ws[run[u].at].unacked) <= Len(ws'[run[u].at].unacked)
      BY <1>8, <3>2
    <3>4. Len(ws[run[u].at].unacked) \in Nat /\ Len(ws'[run[u].at].unacked) \in Nat
      BY <1>8, <3>2, Typed DEF Ind, WorkerRec
    <3>5. /\ run[u].seq <= run[u].line
          /\ run[u].pc = "sending" => run[u].line < Lines
          /\ run[u].pc = "resending" => run[u].i <= Len(ws[run[u].at].unacked)
      BY DEF Ind, ScanInv
    <3>6. \A i, m, n \in Nat : i <= m /\ m <= n => i <= n
      OBVIOUS
    <3>7. run[u].pc = "resending" => run[u].i <= Len(ws'[run[u].at].unacked)
      BY <3>2, <3>3, <3>4, <3>5, <3>6, Zenon
    <3>. QED  BY <3>1, <3>5, <3>7, Zenon
  <2>. QED  BY <2>1, <2>2
<1>13. LockDiscipline'
  BY <1>1, <1>2, <1>8, <1>10, LockKept, Typed DEF Ind, LockDiscipline, InResend, InProcess
<1>. QED  BY <1>11, <1>12, <1>13 DEF Ind

\* With all lines read the execution waits for the rest.
LEMMA ScanDoneInd == ASSUME NEW t \in Stage1, Ind, ScanDone(t) PROVE Ind'
<1>1. UNCHANGED <<up, ws, aol, aolFile, epoch, call, outFile, completed, parts, updates, faults, crashes>>
  BY DEF ScanDone, workerVars, leaderVars
<1>2. t \in Tasks
  BY DEF Tasks
<1>3. \/ run' = [run EXCEPT ![t].pc = "finish", ![t].fin = t]
      \/ run' = [run EXCEPT ![t].pc = "sleep"]
  BY DEF ScanDone
<1>4. run' \in [Tasks -> RunRec]
  <2>1. "finish" \in Pcs /\ "sleep" \in Pcs
    BY DEF Pcs
  <2>. QED  BY <1>2, <1>3, <2>1, Typed, RunFields DEF Ind
<1>5. /\ run'[t].pc \in {"finish", "sleep"}
      /\ run'[t].seq = run[t].seq /\ run'[t].line = run[t].line
      /\ \A u \in Tasks : u # t => run'[u] = run[u]
  BY <1>2, <1>3, Typed DEF Ind, RunRec
<1>6. TypeOK'
  BY <1>1, <1>4 DEF Ind, TypeOK
<1>7. ScanInv'
  BY <1>1, <1>5 DEF Ind, ScanInv
<1>8. LockDiscipline'
  BY <1>1, <1>5, LockKept DEF Ind, LockDiscipline, InResend, InProcess
<1>. QED  BY <1>6, <1>7, <1>8 DEF Ind

\* The entry of UnackedTuples a retry pass stands at.
LEMMA CurrentType ==
  ASSUME NEW t \in Tasks, Ind, run[t].i <= Len(ws[run[t].at].unacked)
  PROVE  /\ run[t].i \in 1 .. Len(ws[run[t].at].unacked)
         /\ Current(t).id \in Ids /\ Current(t).line \in LineNo
<1>1. run[t].i \in Nat \ {0} /\ ws[run[t].at].unacked \in Seq(TupleRec)
  BY Typed DEF Ind
<1>2. run[t].i \in 1 .. Len(ws[run[t].at].unacked)
  BY <1>1
<1>3. Current(t) \in TupleRec
  BY <1>1, <1>2 DEF Current
<1>. QED  BY <1>2, <1>3 DEF TupleRec

\* A retry sends the entry of UnackedTuples it stands at, under mu.
LEMMA ResendSendInd == ASSUME NEW t \in Stage1, Ind, ResendSend(t) PROVE Ind'
<1>. DEFINE w == run[t].at
            id == Current(t).id
            line == Current(t).line
<1>1. UNCHANGED <<up, ws, aol, aolFile, epoch, outFile, completed, parts, updates, faults, crashes>>
  BY DEF ResendSend, workerVars, leaderVars
<1>2. t \in Tasks /\ run[t].pc = "resend" /\ run[t].i <= Len(ws[w].unacked)
  BY DEF Tasks, ResendSend, At
<1>3. id \in Ids /\ line \in LineNo /\ w \in Workers
  BY <1>2, CurrentType, Typed DEF Ind
<1>4. PICK n \in Attempt : /\ NextStream(w, id, n) /\ Issue(<<w, id, n>>, line)
                           /\ run' = [run EXCEPT ![t].pc = "resending", ![t].n = n]
  BY DEF ResendSend
<1>5. <<w, id, n>> \in Calls /\ call[<<w, id, n>>].st = "none"
  BY <1>3, <1>4 DEF Calls, NextStream
<1>6. /\ call' \in [Calls -> CallRec]
      /\ \A d \in Calls : InProcess(d)' => InProcess(d) /\ call'[d].to = call[d].to
  <2>. HIDE DEF w, id, line
  <2>. QED  BY <1>3, <1>4, <1>5, IssueType
<1>7. run' \in [Tasks -> RunRec]
  <2>1. "resending" \in Pcs
    BY DEF Pcs
  <2>. QED  BY <1>2, <1>4, <2>1, Typed, RunFields DEF Ind
<1>8. /\ run'[t].pc = "resending" /\ run'[t].seq = run[t].seq /\ run'[t].line = run[t].line
      /\ run'[t].i = run[t].i /\ run'[t].at = w
      /\ \A u \in Tasks : u # t => run'[u] = run[u]
  BY <1>2, <1>4, Typed DEF Ind, RunRec
<1>9. TypeOK'
  BY <1>1, <1>6, <1>7 DEF Ind, TypeOK
<1>10. ScanInv'
  BY <1>1, <1>2, <1>8 DEF Ind, ScanInv
<1>11. \A u \in Tasks : InResend(u)' => InResend(u) /\ run'[u].at = run[u].at
  BY <1>2, <1>8 DEF InResend
<1>12. LockDiscipline'
  BY <1>1, <1>6, <1>11, LockKept DEF Ind, LockDiscipline
<1>. QED  BY <1>9, <1>10, <1>12 DEF Ind

\* The answer to a retry settles one id and moves on by one entry at most.
LEMMA ResendReturnInd ==
  ASSUME NEW t \in Stage1, NEW ack \in BOOLEAN, Ind, ResendReturn(t, ack) PROVE Ind'
<1>. DEFINE w == run[t].at
            me == ws[w]
            id == Current(t).id
            r == me.retries[id] + 1
            leaves == Leaves(ack, r)
            am == [me.ackMap EXCEPT ![id] = IF ack THEN "acked" ELSE "unacked"]
            un == IF leaves THEN RemoveAt(me.unacked, run[t].i) ELSE me.unacked
            re == [me.retries EXCEPT ![id] = IF leaves THEN 0 ELSE r]
            rec == [me EXCEPT !.ackMap = am, !.unacked = un, !.retries = re]
            i2 == IF leaves THEN run[t].i ELSE run[t].i + 1
            all2 == IF leaves THEN run[t].allMax ELSE FALSE
<1>1. UNCHANGED <<up, aol, aolFile, epoch, call, outFile, completed, parts, updates, faults, crashes>>
  BY DEF ResendReturn, leaderVars
<1>2. /\ t \in Tasks /\ w \in Workers /\ run[t].pc = "resending"
      /\ run[t].i \in 1 .. Len(me.unacked) /\ id \in Ids /\ me \in WorkerRec
      /\ me.retries \in [Ids -> 0 .. MAX_RETRY_COUNT] /\ me.unacked \in Seq(TupleRec)
      /\ me.ackMap \in [Ids -> {"absent", "acked", "unacked"}]
  <2>1. t \in Tasks /\ run[t].pc = "resending"
    BY DEF Tasks, ResendReturn, At
  <2>2. run[t].i <= Len(me.unacked)
    BY <2>1 DEF Ind, ScanInv
  <2>. QED  BY <2>1, <2>2, CurrentType, Typed DEF Ind
<1>3. un \in Seq(TupleRec)
  BY <1>2, RemoveAtType
<1>4. am \in [Ids -> {"absent", "acked", "unacked"}]
  BY <1>2
<1>5. re \in [Ids -> 0 .. MAX_RETRY_COUNT]
  <2>1. me.retries[id] \in 0 .. MAX_RETRY_COUNT
    BY <1>2
  <2>2. (IF leaves THEN 0 ELSE r) \in 0 .. MAX_RETRY_COUNT
    BY <2>1, BoundsAssumption DEF Leaves
  <2>. HIDE DEF r, leaves, me
  <2>. QED  BY <1>2, <2>2
<1>6. ws' = [ws EXCEPT ![w] = rec]
  BY DEF ResendReturn
<1>7. rec \in WorkerRec /\ rec.mu = me.mu
  <2>. HIDE DEF am, un, re, me
  <2>. QED  BY <1>2, <1>3, <1>4, <1>5 DEF WorkerRec
<1>8. /\ ws' \in [Workers -> WorkerRec]
      /\ \A v \in Workers : ws'[v].mu = ws[v].mu
      /\ \A v \in Workers : v # w => ws'[v] = ws[v]
  <2>. HIDE DEF rec, w
  <2>. QED  BY <1>2, <1>6, <1>7, Typed DEF Ind
<1>9. /\ i2 \in Nat \ {0} /\ all2 \in BOOLEAN
      /\ run' = [run EXCEPT ![t].pc = "resend", ![t].i = i2, ![t].allMax = all2]
  <2>1. run[t].i \in Nat \ {0} /\ run[t].allMax \in BOOLEAN
    BY <1>2, Typed DEF Ind, RunRec
  <2>2. i2 \in Nat \ {0} /\ all2 \in BOOLEAN
    <3>1. run[t].i + 1 \in Nat \ {0}
      BY <2>1
    <3>. QED  BY <2>1, <3>1, Zenon
  <2>. QED  BY <2>2 DEF ResendReturn
<1>10. run' \in [Tasks -> RunRec]
  <2>. HIDE DEF i2, all2
  <2>1. [run[t] EXCEPT !.pc = "resend"] \in RunRec
    BY <1>2, Typed, RunFields DEF Ind, Pcs
  <2>2. [run[t] EXCEPT !.pc = "resend", !.i = i2] \in RunRec
    BY <1>9, <2>1, RunFields, Zenon
  <2>3. [run[t] EXCEPT !.pc = "resend", !.i = i2, !.allMax = all2] \in RunRec
    BY <1>9, <2>2, RunFields, Zenon
  <2>. QED  BY <1>2, <1>9, <2>3, Typed DEF Ind
<1>11. /\ run'[t].pc = "resend" /\ run'[t].seq = run[t].seq /\ run'[t].line = run[t].line
       /\ run'[t].at = w
       /\ \A u \in Tasks : u # t => run'[u] = run[u]
  <2>. HIDE DEF i2, all2
  <2>. QED  BY <1>2, <1>9, Typed DEF Ind, RunRec
<1>12. TypeOK'
  BY <1>1, <1>8, <1>10 DEF Ind, TypeOK
<1>13. \A u \in Tasks : InResend(u)' => InResend(u) /\ run'[u].at = run[u].at
  BY <1>2, <1>11 DEF InResend
<1>14. LockDiscipline'
  BY <1>1, <1>8, <1>13, LockKept, Typed DEF Ind, LockDiscipline, InProcess
<1>15. ScanInv'
  <2>1. \A u \in Tasks : (u # t /\ run[u].pc = "resending") => run[u].at # w
    BY <1>2 DEF Ind, LockDiscipline, InResend
  <2>. HIDE DEF w, rec
  <2>. QED  BY <1>8, <1>11, <2>1, Typed DEF Ind, ScanInv
<1>. QED  BY <1>12, <1>14, <1>15 DEF Ind

\* A retry pass that has reached the end releases mu.
LEMMA ResendEndInd == ASSUME NEW t \in Stage1, Ind, ResendEnd(t) PROVE Ind'
<1>. DEFINE w == run[t].at
<1>1. UNCHANGED <<up, aol, aolFile, epoch, call, outFile, completed, parts, updates, faults, crashes>>
  BY DEF ResendEnd, leaderVars
<1>2. t \in Tasks /\ w \in Workers /\ InResend(t)
  BY Typed DEF Ind, Tasks, ResendEnd, At, InResend
<1>3. ws' = [ws EXCEPT ![w].mu = FALSE]
  BY DEF ResendEnd
<1>4. ws' \in [Workers -> WorkerRec]
  BY <1>2, <1>3, Typed, WorkerFields DEF Ind
<1>5. /\ \A v \in Workers : v # w => ws'[v] = ws[v]
      /\ \A v \in Workers : ws'[v].unacked = ws[v].unacked
  BY <1>2, <1>3, Typed DEF Ind, WorkerRec
<1>6. PICK pc \in {"finish", "sleep"} : run' = [run EXCEPT ![t].pc = pc]
  BY DEF ResendEnd, Goto
<1>7. run' \in [Tasks -> RunRec]
  BY <1>2, <1>6, Typed, RunFields DEF Ind, Pcs
<1>8. /\ run'[t].pc \in {"finish", "sleep"} /\ run'[t].seq = run[t].seq /\ run'[t].line = run[t].line
      /\ \A u \in Tasks : u # t => run'[u] = run[u]
  BY <1>2, <1>6, Typed DEF Ind, RunRec
<1>9. TypeOK'
  BY <1>1, <1>4, <1>7 DEF Ind, TypeOK
<1>10. ScanInv'
  BY <1>5, <1>8, Typed DEF Ind, ScanInv
<1>11. \A u \in Tasks : InResend(u)' =>
         InResend(u) /\ run'[u].at = run[u].at /\ ws'[run[u].at].mu
  BY <1>2, <1>5, <1>8, Typed DEF Ind, LockDiscipline, InResend
<1>12. \A c \in Calls : InProcess(c)' =>
         InProcess(c) /\ call'[c].to = call[c].to /\ ws'[call[c].to].mu
  <2>1. \A c \in Calls : InProcess(c) => call[c].to # w
    BY <1>2 DEF Ind, LockDiscipline
  <2>. QED  BY <1>1, <1>5, <2>1, Typed DEF Ind, LockDiscipline, InProcess
<1>13. LockDiscipline'
  BY <1>11, <1>12, LockKept DEF Ind
<1>. QED  BY <1>9, <1>10, <1>13 DEF Ind

\* An execution that reports leaves the queue.
LEMMA FinishInd == ASSUME NEW t \in Stage1, Ind, Finish(t) PROVE Ind'
<1>. DEFINE w == run[t].at
            fin == run[t].fin
<1>1. UNCHANGED <<up, aol, aolFile, epoch, call, outFile, parts, updates, crashes>>
  BY DEF Finish
<1>2. t \in Tasks /\ w \in Workers /\ fin \in Tasks
  BY Typed DEF Ind, Tasks
<1>3. faults' \in 0 .. MaxFaults
  BY BoundsAssumption DEF Ind, TypeOK, Finish, Fault, NoFault
<1>4. completed' \subseteq Tasks
  BY <1>2 DEF Ind, TypeOK, Finish
<1>5. /\ ws' \in [Workers -> WorkerRec]
      /\ \A v \in Workers : ws'[v].mu = ws[v].mu /\ ws'[v].unacked = ws[v].unacked
  <2>1. CASE UNCHANGED ws
    BY <2>1, Typed DEF Ind
  <2>2. CASE ws' = [ws EXCEPT ![w].queue = Dequeue(@, fin)]
    <3>. DEFINE q == Dequeue(ws[w].queue, fin)
    <3>1. q \in Seq(Tasks) /\ ws' = [ws EXCEPT ![w].queue = q]
      BY <1>2, <2>2, DequeueType, Typed DEF Ind
    <3>. HIDE DEF q
    <3>2. ws' \in [Workers -> WorkerRec]
      BY <1>2, <3>1, Typed, WorkerFields DEF Ind
    <3>. QED  BY <1>2, <3>1, <3>2, Typed DEF Ind, WorkerRec
  <2>. QED  BY <2>1, <2>2 DEF Finish
<1>6. run' = [run EXCEPT ![t].pc = "done"]
  BY DEF Finish, Goto
<1>7. run' \in [Tasks -> RunRec]
  BY <1>2, <1>6, Typed, RunFields DEF Ind, Pcs
<1>8. /\ run'[t].pc = "done" /\ run'[t].seq = run[t].seq /\ run'[t].line = run[t].line
      /\ \A u \in Tasks : u # t => run'[u] = run[u]
  BY <1>2, <1>6, Typed DEF Ind, RunRec
<1>9. TypeOK'
  BY <1>1, <1>3, <1>4, <1>5, <1>7 DEF Ind, TypeOK
<1>10. ScanInv'
  BY <1>5, <1>8, Typed DEF Ind, ScanInv
<1>11. LockDiscipline'
  BY <1>1, <1>5, <1>8, LockKept, Typed DEF Ind, LockDiscipline, InResend, InProcess
<1>. QED  BY <1>9, <1>10, <1>11 DEF Ind

-----------------------------------------------------------------------------
(* The steps of a task of either type. *)

\* A step of goroutine t alone, from a control point of no retry pass or send
\* to another such, keeping the numbers of its scan.
LEMMA OtherStep ==
  ASSUME Ind, NEW t \in Tasks, NEW pc \in Pcs \ {"sending", "resend", "resending"},
         run' = [run EXCEPT ![t].pc = pc], UNCHANGED call,
         \A v \in Workers : ws'[v].mu = ws[v].mu,
         \A v \in Workers : ws'[v].unacked = ws[v].unacked \/ ~ws[v].mu
  PROVE  run' \in [Tasks -> RunRec] /\ ScanInv' /\ LockDiscipline'
<1>1. run' \in [Tasks -> RunRec]
  BY Typed, RunFields DEF Ind
<1>2. /\ run'[t].pc = pc /\ run'[t].seq = run[t].seq /\ run'[t].line = run[t].line
      /\ \A u \in Tasks : u # t => run'[u] = run[u]
  BY Typed DEF Ind, RunRec
<1>3. ScanInv'
  <2>1. \A u \in Tasks : run[u].pc = "resending" => ws[run[u].at].mu
    BY DEF Ind, LockDiscipline, InResend
  <2>. QED  BY <1>2, <2>1, Typed DEF Ind, ScanInv
<1>4. LockDiscipline'
  <2>1. ASSUME NEW u \in Tasks, InResend(u)'
        PROVE  InResend(u) /\ run'[u].at = run[u].at /\ ws'[run[u].at].mu
    <3>1. u # t
      BY <1>2, <2>1 DEF InResend
    <3>2. run'[u] = run[u] /\ run[u].at \in Workers
      BY <1>2, <3>1, Typed DEF Ind
    <3>. QED  BY <2>1, <3>2 DEF Ind, LockDiscipline, InResend
  <2>2. ASSUME NEW c \in Calls, InProcess(c)'
        PROVE  InProcess(c) /\ call'[c].to = call[c].to /\ ws'[call[c].to].mu
    <3>1. call'[c] = call[c] /\ call[c].to \in Workers
      BY Typed DEF Ind
    <3>. QED  BY <2>2, <3>1 DEF Ind, LockDiscipline, InProcess
  <2>. QED  BY <2>1, <2>2, LockKept DEF Ind
<1>. QED  BY <1>1, <1>3, <1>4

\* An execution starts with nothing read and wipes the lists of its worker.
LEMMA StartTaskInd == ASSUME NEW t \in Tasks, Ind, StartTask(t) PROVE Ind'
<1>. DEFINE w == run[t].at
            me == ws[w]
            q == Append(me.queue, t)
            rec == [me EXCEPT !.outputMap = NoCounts, !.unacked = <<>>,
                              !.retries = [id \in Ids |-> 0], !.parts = parts, !.queue = q]
<1>1. UNCHANGED <<up, aol, aolFile, epoch, call, outFile, completed, parts, updates, crashes>>
  BY DEF StartTask, leaderVars
<1>2. w \in Workers /\ me \in WorkerRec /\ ~me.mu
  BY Typed DEF Ind, StartTask
<1>3. q \in Seq(Tasks)
  BY <1>2, Typed, AppendProperties DEF Ind
<1>4. ws' = [ws EXCEPT ![w] = rec]
  BY DEF StartTask
<1>5. rec \in WorkerRec /\ rec.mu = me.mu
  <2>1. NoCounts \in [Stage2 -> Nat] /\ [id \in Ids |-> 0] \in [Ids -> 0 .. MAX_RETRY_COUNT]
    BY BoundsAssumption DEF NoCounts
  <2>2. parts \in [Stage2 -> Workers]
    BY DEF Ind, TypeOK
  <2>3. <<>> \in Seq(TupleRec)
    OBVIOUS
  <2>. DEFINE zero == [id \in Ids |-> 0]
  <2>. HIDE DEF me, q, zero
  <2>. QED  BY <1>2, <1>3, <2>1, <2>2, <2>3 DEF WorkerRec
<1>6. /\ ws' \in [Workers -> WorkerRec]
      /\ \A v \in Workers : ws'[v].mu = ws[v].mu
      /\ \A v \in Workers : ws'[v].unacked = ws[v].unacked \/ ~ws[v].mu
  <2>. HIDE DEF rec, w
  <2>. QED  BY <1>2, <1>4, <1>5, Typed DEF Ind
<1>7. PICK pc \in {"scan", "prepare", "done"} : run' = [run EXCEPT ![t].pc = pc]
  BY DEF StartTask, Goto
<1>8. faults' \in 0 .. MaxFaults
  BY BoundsAssumption DEF Ind, TypeOK, StartTask, Fault, NoFault
<1>9. run' \in [Tasks -> RunRec] /\ ScanInv' /\ LockDiscipline'
  <2>1. pc \in Pcs \ {"sending", "resend", "resending"}
    BY DEF Pcs
  <2>. QED  BY <1>1, <1>6, <1>7, <2>1, OtherStep
<1>. QED  BY <1>1, <1>6, <1>8, <1>9 DEF Ind, TypeOK

\* A receiver task starts to prepare.
LEMMA PrepareBeginInd == ASSUME NEW t \in Stage2, Ind, PrepareBegin(t) PROVE Ind'
<1>. DEFINE w == run[t].at
            me == ws[w]
            zero == [id \in Ids |-> "absent"]
            prep == me.preparing \cup {t}
            rec == [me EXCEPT !.preparing = prep, !.outputMap = NoCounts, !.ackMap = zero]
<1>1. UNCHANGED <<up, aolFile, call, outFile, completed, parts, updates, faults, crashes>>
  BY DEF PrepareBegin, leaderVars
<1>2. t \in Tasks /\ w \in Workers /\ me \in WorkerRec
  BY Typed DEF Ind, Tasks
<1>3. ws' = [ws EXCEPT ![w] = rec]
  BY DEF PrepareBegin
<1>4. rec \in WorkerRec /\ rec.mu = me.mu /\ rec.unacked = me.unacked
  <2>1. NoCounts \in [Stage2 -> Nat] /\ zero \in [Ids -> {"absent", "acked", "unacked"}]
    BY DEF NoCounts
  <2>2. prep \in SUBSET Stage2
    BY <1>2, Typed DEF Ind
  <2>. HIDE DEF me, zero, prep
  <2>. QED  BY <1>2, <2>1, <2>2 DEF WorkerRec
<1>5. /\ ws' \in [Workers -> WorkerRec]
      /\ \A v \in Workers : ws'[v].mu = ws[v].mu /\ ws'[v].unacked = ws[v].unacked
  <2>. HIDE DEF rec, w
  <2>. QED  BY <1>2, <1>3, <1>4, Typed DEF Ind
<1>6. aol' \in [Workers -> SUBSET Ids] /\ epoch' \in [Workers -> 1 .. MaxEpoch]
  <2>1. epoch[w] \in 1 .. MaxEpoch /\ epoch[w] < MaxEpoch
    BY <1>2 DEF Ind, TypeOK, PrepareBegin
  <2>2. epoch[w] + 1 \in 1 .. MaxEpoch
    BY <2>1, BoundsAssumption
  <2>. QED  BY <1>2, <2>2 DEF Ind, TypeOK, PrepareBegin
<1>7. run' = [run EXCEPT ![t].pc = "load"]
  BY DEF PrepareBegin, Goto
<1>8. run' \in [Tasks -> RunRec] /\ ScanInv' /\ LockDiscipline'
  <2>1. "load" \in Pcs \ {"sending", "resend", "resending"}
    BY DEF Pcs
  <2>. QED  BY <1>1, <1>2, <1>5, <1>7, <2>1, OtherStep
<1>. QED  BY <1>1, <1>5, <1>6, <1>8 DEF Ind, TypeOK

\* The counts read back from the output file are counts.
LEMMA CountReadType ==
  ASSUME NEW k \in Stage2, NEW n \in 0 .. Len(outFile), NEW old \in Nat, Ind
  PROVE  CountRead(k, n, old) \in Nat
<1>1. outFile \in Seq(OutRec)
  BY DEF Ind, TypeOK
<1>2. CASE LastLine(k, n) = {}
  BY <1>2 DEF CountRead
<1>3. CASE LastLine(k, n) # {}
  <2>. DEFINE i == CHOOSE x \in LastLine(k, n) : TRUE
  <2>1. i \in LastLine(k, n)
    BY <1>3
  <2>2. i \in 1 .. Len(outFile)
    BY <1>1, <2>1 DEF LastLine
  <2>3. outFile[i] \in OutRec
    BY <1>1, <2>2
  <2>. QED  BY <1>3, <2>3 DEF CountRead, OutRec
<1>. QED  BY <1>2, <1>3

\* The counts are read back from the output file.
LEMMA LoadOutputInd == ASSUME NEW t \in Stage2, Ind, LoadOutput(t) PROVE Ind'
<1>. DEFINE w == run[t].at
<1>1. UNCHANGED <<up, aol, aolFile, epoch, call, outFile, completed, parts, updates, crashes>>
  BY DEF LoadOutput, leaderVars
<1>2. t \in Tasks /\ w \in Workers
  BY Typed DEF Ind, Tasks
<1>3. /\ ws' \in [Workers -> WorkerRec]
      /\ \A v \in Workers : ws'[v].mu = ws[v].mu /\ ws'[v].unacked = ws[v].unacked
  <2>1. CASE \E n \in 0 .. Len(outFile) :
               ws' = [ws EXCEPT ![w].outputMap =
                        [k \in Stage2 |-> CountRead(k, n, ws[w].outputMap[k])]]
    <3>1. PICK n \in 0 .. Len(outFile) :
               ws' = [ws EXCEPT ![w].outputMap =
                        [k \in Stage2 |-> CountRead(k, n, ws[w].outputMap[k])]]
      BY <2>1
    <3>. DEFINE om == [k \in Stage2 |-> CountRead(k, n, ws[w].outputMap[k])]
    <3>2. om \in [Stage2 -> Nat]
      BY <1>2, CountReadType, Typed DEF Ind
    <3>3. ws' = [ws EXCEPT ![w].outputMap = om]
      BY <3>1
    <3>. HIDE DEF om, w
    <3>4. ws' \in [Workers -> WorkerRec]
      BY <1>2, <3>2, <3>3, Typed, WorkerFields DEF Ind
    <3>. QED  BY <1>2, <3>3, <3>4, Typed DEF Ind, WorkerRec
  <2>2. CASE ws' = [ws EXCEPT ![w].preparing = @ \ {t}]
    <3>1. ws[w].preparing \ {t} \in SUBSET Stage2
      BY <1>2, Typed DEF Ind
    <3>2. ws' \in [Workers -> WorkerRec]
      BY <1>2, <2>2, <3>1, Typed, WorkerFields DEF Ind
    <3>3. \A v \in Workers : ws'[v].mu = ws[v].mu /\ ws'[v].unacked = ws[v].unacked
      BY <1>2, <2>2, Typed DEF Ind, WorkerRec
    <3>. QED  BY <3>2, <3>3
  <2>. QED  BY <2>1, <2>2 DEF LoadOutput
<1>4. PICK pc \in {"loadAol", "done"} : run' = [run EXCEPT ![t].pc = pc]
  BY DEF LoadOutput, Goto
<1>5. faults' \in 0 .. MaxFaults
  BY BoundsAssumption DEF Ind, TypeOK, LoadOutput, Fault, NoFault
<1>6. run' \in [Tasks -> RunRec] /\ ScanInv' /\ LockDiscipline'
  <2>1. pc \in Pcs \ {"sending", "resend", "resending"}
    BY DEF Pcs
  <2>. QED  BY <1>1, <1>2, <1>3, <1>4, <2>1, OtherStep
<1>. QED  BY <1>1, <1>3, <1>5, <1>6 DEF Ind, TypeOK

\* The aol is read back, the preparation is over.
LEMMA LoadAolInd == ASSUME NEW t \in Stage2, Ind, LoadAol(t) PROVE Ind'
<1>. DEFINE w == run[t].at
<1>1. UNCHANGED <<up, aolFile, epoch, call, outFile, completed, parts, updates, faults, crashes>>
  BY DEF LoadAol, leaderVars
<1>2. t \in Tasks /\ w \in Workers
  BY Typed DEF Ind, Tasks
<1>3. ws' = [ws EXCEPT ![w].preparing = @ \ {t}]
  BY DEF LoadAol
<1>4. ws' \in [Workers -> WorkerRec]
  <2>1. ws[w].preparing \ {t} \in SUBSET Stage2
    BY <1>2, Typed DEF Ind
  <2>. QED  BY <1>2, <1>3, <2>1, Typed, WorkerFields DEF Ind
<1>5. \A v \in Workers : ws'[v].mu = ws[v].mu /\ ws'[v].unacked = ws[v].unacked
  BY <1>2, <1>3, Typed DEF Ind, WorkerRec
<1>6. aol' \in [Workers -> SUBSET Ids]
  BY <1>2 DEF Ind, TypeOK, LoadAol
<1>7. run' = [run EXCEPT ![t].pc = "done"]
  BY DEF LoadAol, Goto
<1>8. run' \in [Tasks -> RunRec] /\ ScanInv' /\ LockDiscipline'
  <2>1. "done" \in Pcs \ {"sending", "resend", "resending"}
    BY DEF Pcs
  <2>. QED  BY <1>1, <1>2, <1>4, <1>5, <1>7, <2>1, OtherStep
<1>. QED  BY <1>1, <1>4, <1>6, <1>8 DEF Ind, TypeOK

-----------------------------------------------------------------------------
(* The crash of a worker and the steps of the leader. *)

\* A new goroutine's record.
LEMMA GoroutineType ==
  ASSUME NEW pc \in Pcs, NEW w \in Workers
  PROVE  Goroutine(pc, w) \in RunRec
<1>1. (CHOOSE t \in Tasks : TRUE) \in Tasks
  BY TasksAssumption DEF Tasks
<1>. QED  BY <1>1, BoundsAssumption DEF Goroutine, RunRec, Attempt

\* A crash ends the goroutines of a worker, and frees no mutex of another.
LEMMA CrashInd == ASSUME NEW w \in Workers, Ind, Crash(w) PROVE Ind'
<1>1. UNCHANGED <<aolFile, outFile, completed, parts, updates, faults>>
  BY DEF Crash, leaderVars
<1>2. InitWorker(InitParts) \in WorkerRec
  <2>1. InitParts \in [Stage2 -> Workers]
    BY TasksAssumption DEF InitParts, Tasks
  <2>. QED  BY <2>1, BoundsAssumption DEF InitWorker, WorkerRec, NoCounts
<1>3. ws' \in [Workers -> WorkerRec] /\ \A v \in Workers : v # w => ws'[v] = ws[v]
  BY <1>2, Typed DEF Ind, Crash
<1>4. /\ run' \in [Tasks -> RunRec]
      /\ \A t \in Tasks : run[t].at # w => run'[t] = run[t]
      /\ \A t \in Tasks : run[t].at = w =>
           run'[t].pc = "failed" /\ run'[t].seq <= run'[t].line
  <2>1. Goroutine("failed", w) \in RunRec
    BY GoroutineType DEF Pcs
  <2>2. Goroutine("failed", w).pc = "failed" /\ Goroutine("failed", w).seq = 0
        /\ Goroutine("failed", w).line = 0
    BY DEF Goroutine
  <2>. QED  BY <2>1, <2>2, Typed DEF Ind, Crash
<1>5. /\ call' \in [Calls -> CallRec]
      /\ \A c \in Calls : InProcess(c)' =>
           InProcess(c) /\ call'[c].to = call[c].to /\ call[c].to # w
  <2>1. \A c \in Calls : call'[c] = IF call[c].to = w /\ call[c].st \notin Answered \cup {"none"}
                                      THEN [call[c] EXCEPT !.st = "lost"] ELSE call[c]
    BY DEF Crash
  <2>2. \A c \in Calls : call'[c] \in CallRec
    <3>1. \A c \in Calls : [call[c] EXCEPT !.st = "lost"] \in CallRec
      BY Typed, CallFields DEF Ind, Status
    <3>. QED  BY <2>1, <3>1, Typed DEF Ind
  <2>3. call' \in [Calls -> CallRec]
    BY <2>2 DEF Crash
  <2>4. \A c \in Calls : InProcess(c)' =>
           InProcess(c) /\ call'[c].to = call[c].to /\ call[c].to # w
    <3>. SUFFICES ASSUME NEW c \in Calls, call'[c].st \in {"taken", "write", "log"}
                  PROVE  /\ call[c].st \in {"taken", "write", "log"}
                         /\ call'[c].to = call[c].to /\ call[c].to # w
      BY DEF InProcess
    <3>. QED  BY <2>1, Typed DEF Ind, CallRec, Answered
  <2>. QED  BY <2>3, <2>4
<1>6. /\ up' \in [Workers -> BOOLEAN] /\ aol' \in [Workers -> SUBSET Ids]
      /\ crashes' \in 0 .. MaxCrashes
  BY BoundsAssumption DEF Ind, TypeOK, Crash
<1>7. epoch' \in [Workers -> 1 .. MaxEpoch]
  <2>1. epoch[w] \in 1 .. MaxEpoch /\ epoch[w] < MaxEpoch
    BY DEF Ind, TypeOK, Crash
  <2>2. epoch[w] + 1 \in 1 .. MaxEpoch
    BY <2>1, BoundsAssumption
  <2>. QED  BY <2>2 DEF Ind, TypeOK, Crash
<1>8. TypeOK'
  BY <1>1, <1>3, <1>4, <1>5, <1>6, <1>7 DEF Ind, TypeOK
<1>9. ScanInv'
  BY <1>3, <1>4, Typed DEF Ind, ScanInv
<1>10. LockDiscipline'
  <2>1. \A t \in Tasks : InResend(t)' =>
          InResend(t) /\ run'[t].at = run[t].at /\ ws'[run[t].at].mu
    BY <1>3, <1>4, Typed DEF Ind, LockDiscipline, InResend
  <2>2. \A c \in Calls : InProcess(c)' => ws'[call[c].to].mu
    BY <1>3, <1>5, Typed DEF Ind, LockDiscipline
  <2>. QED  BY <1>5, <2>1, <2>2, LockKept DEF Ind
<1>. QED  BY <1>8, <1>9, <1>10 DEF Ind

\* A task of a failed worker goes to the queue of another one.
LEMMA RescheduleInd ==
  ASSUME NEW t \in Tasks, NEW w \in Workers, Ind, Reschedule(t, w) PROVE Ind'
<1>. DEFINE old == run[t].at
<1>1. UNCHANGED <<up, ws, aol, aolFile, epoch, call, outFile, completed, faults, crashes>>
  BY DEF Reschedule, workerVars
<1>2. /\ run' \in [Tasks -> RunRec]
      /\ \A x \in Tasks : \/ run'[x] = run[x]
                          \/ run'[x] = Goroutine("assigned", w)
                          \/ run'[x] = Goroutine("abandoned", old)
  <2>1. Goroutine("assigned", w) \in RunRec /\ Goroutine("abandoned", old) \in RunRec
    BY GoroutineType, Typed DEF Ind, Pcs
  <2>2. run' = [x \in Tasks |->
               CASE x = t -> Goroutine("assigned", w)
                 [] x # t /\ run[x].pc = "failed" /\ run[x].at = old
                      -> Goroutine("abandoned", old)
                 [] OTHER -> run[x]]
    BY DEF Reschedule
  <2>3. \A x \in Tasks : \/ run'[x] = run[x]
                         \/ run'[x] = Goroutine("assigned", w)
                         \/ run'[x] = Goroutine("abandoned", old)
    BY <2>2
  <2>. QED  BY <2>1, <2>2, <2>3, Typed DEF Ind
<1>3. parts' \in [Stage2 -> Workers] /\ updates' \subseteq Tasks \X [Stage2 -> Workers]
  <2>1. CASE UNCHANGED <<parts, updates>>
    BY <2>1 DEF Ind, TypeOK
  <2>2. CASE \E k \in Stage2, told \in SUBSET Tasks :
               /\ parts' = [parts EXCEPT ![k] = w]
               /\ updates' = updates \cup {<<s, parts'>> : s \in told}
    <3>1. parts' \in [Stage2 -> Workers]
      BY <2>2 DEF Ind, TypeOK
    <3>2. \A told \in SUBSET Tasks :
            {<<s, parts'>> : s \in told} \subseteq Tasks \X [Stage2 -> Workers]
      BY <3>1
    <3>. QED  BY <2>2, <3>1, <3>2 DEF Ind, TypeOK
  <2>3. UNCHANGED <<parts, updates>> \/ \E k \in Stage2, told \in SUBSET Tasks :
               /\ parts' = [parts EXCEPT ![k] = w]
               /\ updates' = updates \cup {<<s, parts'>> : s \in told}
    BY DEF Reschedule
  <2>. QED  BY <2>1, <2>2, <2>3
<1>4. TypeOK'
  BY <1>1, <1>2, <1>3 DEF Ind, TypeOK
<1>5. \A v \in Workers : /\ Goroutine("assigned", v).pc = "assigned"
                         /\ Goroutine("abandoned", v).pc = "abandoned"
                         /\ Goroutine("assigned", v).seq <= Goroutine("assigned", v).line
                         /\ Goroutine("abandoned", v).seq <= Goroutine("abandoned", v).line
  BY DEF Goroutine
<1>6. ScanInv'
  BY <1>1, <1>2, <1>5, Typed DEF Ind, ScanInv
<1>7. LockDiscipline'
  BY <1>1, <1>2, <1>5, LockKept, Typed DEF Ind, LockDiscipline, InResend, InProcess
<1>. QED  BY <1>4, <1>6, <1>7 DEF Ind

\* A sender learns where a receiver task now runs.
LEMMA UpdateTaskInd == ASSUME NEW u \in updates, Ind, UpdateTask(u) PROVE Ind'
<1>. DEFINE w == run[u[1]].at
<1>1. UNCHANGED <<up, aol, aolFile, epoch, run, call, outFile, completed, parts, faults, crashes>>
  BY DEF UpdateTask
<1>2. u \in Tasks \X [Stage2 -> Workers] /\ u[1] \in Tasks /\ u[2] \in [Stage2 -> Workers]
  BY DEF Ind, TypeOK
<1>3. w \in Workers
  BY <1>2, Typed DEF Ind
<1>4. /\ ws' \in [Workers -> WorkerRec]
      /\ \A v \in Workers : ws'[v].mu = ws[v].mu /\ ws'[v].unacked = ws[v].unacked
  <2>1. CASE UNCHANGED ws
    BY <2>1, Typed DEF Ind
  <2>2. CASE ws' = [ws EXCEPT ![w].parts = u[2]]
    <3>1. ws' \in [Workers -> WorkerRec]
      BY <1>2, <1>3, <2>2, Typed, WorkerFields DEF Ind
    <3>2. \A v \in Workers : ws'[v].mu = ws[v].mu /\ ws'[v].unacked = ws[v].unacked
      BY <1>3, <2>2, Typed DEF Ind, WorkerRec
    <3>. QED  BY <3>1, <3>2
  <2>. QED  BY <2>1, <2>2 DEF UpdateTask
<1>5. updates' \subseteq Tasks \X [Stage2 -> Workers]
  BY DEF Ind, TypeOK, UpdateTask
<1>6. TypeOK'
  BY <1>1, <1>4, <1>5 DEF Ind, TypeOK
<1>7. ScanInv'
  BY <1>1, <1>4, ScanKept, Typed DEF Ind
<1>8. LockDiscipline'
  BY <1>1, <1>4, LockKept, Typed DEF Ind, LockDiscipline, InResend, InProcess
<1>. QED  BY <1>6, <1>7, <1>8 DEF Ind

\* A receiver task ends with all its senders.
LEMMA NotifyReceiverInd == ASSUME NEW t \in Stage2, Ind, NotifyReceiver(t) PROVE Ind'
<1>. DEFINE w == run[t].at
            q == Dequeue(ws[w].queue, t)
<1>1. UNCHANGED <<up, aol, aolFile, epoch, run, call, outFile, parts, updates, crashes>>
  BY DEF NotifyReceiver
<1>2. w \in Workers /\ t \in Tasks
  BY Typed DEF Ind, Tasks
<1>3. q \in Seq(Tasks)
  BY <1>2, DequeueType, Typed DEF Ind
<1>4. /\ ws' \in [Workers -> WorkerRec]
      /\ \A v \in Workers : ws'[v].mu = ws[v].mu /\ ws'[v].unacked = ws[v].unacked
  <2>1. CASE UNCHANGED ws
    BY <2>1, Typed DEF Ind
  <2>2. CASE ws' = [ws EXCEPT ![w].queue = q]
    <3>. HIDE DEF q
    <3>1. ws' \in [Workers -> WorkerRec]
      BY <1>2, <1>3, <2>2, Typed, WorkerFields DEF Ind
    <3>2. \A v \in Workers : ws'[v].mu = ws[v].mu /\ ws'[v].unacked = ws[v].unacked
      BY <1>2, <2>2, Typed DEF Ind, WorkerRec
    <3>. QED  BY <3>1, <3>2
  <2>. QED  BY <2>1, <2>2 DEF NotifyReceiver
<1>5. completed' \subseteq Tasks /\ faults' \in 0 .. MaxFaults
  BY <1>2, BoundsAssumption DEF Ind, TypeOK, NotifyReceiver, Fault, NoFault
<1>6. TypeOK'
  BY <1>1, <1>4, <1>5 DEF Ind, TypeOK
<1>7. ScanInv'
  BY <1>1, <1>4, ScanKept, Typed DEF Ind
<1>8. LockDiscipline'
  BY <1>1, <1>4, LockKept, Typed DEF Ind, LockDiscipline, InResend, InProcess
<1>. QED  BY <1>6, <1>7, <1>8 DEF Ind

-----------------------------------------------------------------------------
(* The theorems. *)

\* Every step keeps Ind.
LEMMA NextInd == Ind /\ [Next]_vars => Ind'
<1>. SUFFICES ASSUME Ind, [Next]_vars PROVE Ind'
  OBVIOUS
<1>1. ASSUME NEW t \in Stage1, Sender(t) PROVE Ind'
  <2>1. t \in Tasks
    BY DEF Tasks
  <2>. QED  BY <1>1, <2>1, StartTaskInd, SkipLineInd, ScanSendInd, ScanReturnInd, ScanDoneInd,
               WakeInd, LockForResendInd, ResendSendInd, ResendReturnInd, ResendEndInd, FinishInd
            DEF Sender
<1>2. ASSUME NEW t \in Stage2, Receiver(t) PROVE Ind'
  <2>1. t \in Tasks
    BY DEF Tasks
  <2>. QED  BY <1>2, <2>1, StartTaskInd, PrepareBeginInd, LoadOutputInd, LoadAolInd DEF Receiver
<1>3. ASSUME NEW c \in Calls, Handler(c) PROVE Ind'
  BY <1>3, AcceptInd, OpenErrorInd, DuplicateInd, NoReceiverTaskInd, TakeInd, Op2Ind,
     Op2ErrorInd, WriteOutputInd, WriteErrorInd, LogAndAckInd, LogErrorInd DEF Handler
<1>4. ASSUME NEW w \in Workers, Crash(w) PROVE Ind'
  BY <1>4, CrashInd
<1>5. ASSUME Leader PROVE Ind'
  BY <1>5, RescheduleInd, UpdateTaskInd, NotifyReceiverInd DEF Leader
<1>6. CASE UNCHANGED vars
  BY <1>6 DEF Ind, TypeOK, ScanInv, LockDiscipline, InResend, InProcess,
              vars, workerVars, leaderVars
<1>. QED  BY <1>1, <1>2, <1>3, <1>4, <1>5, <1>6 DEF Next

\* Ind is an invariant of the exchange.
THEOREM Invariance == Spec => []Ind
<1>1. Init => Ind
  BY InitInd
<1>2. Ind /\ [Next]_vars => Ind'
  BY NextInd
<1>. QED  BY <1>1, <1>2, PTL DEF Spec

\* Every variable keeps its type: in particular the retry counters stay within
\* MAX_RETRY_COUNT, and no step indexes UnackedTuples out of its range.
THEOREM TypeCorrect == Spec => []TypeOK
<1>1. Ind => TypeOK
  BY DEF Ind
<1>. QED  BY <1>1, Invariance, PTL

\* ws.mu excludes retry passes and tuple handlers of one worker from each other.
THEOREM MutualExclusion == Spec => []LockDiscipline
<1>1. Ind => LockDiscipline
  BY DEF Ind
<1>. QED  BY <1>1, Invariance, PTL

-----------------------------------------------------------------------------
(***************************************************************************)
(* A receiver writes the result of a tuple at most once under one aol: an  *)
(* id enters the aol in the step that gives its call the aol in force, so  *)
(* no two calls of an id are processed under one aol (AolDiscipline); a    *)
(* call writes only while it is processed, and each line of the output     *)
(* belongs to a call that is past its write.                               *)
(***************************************************************************)
DInd == Ind /\ AolDiscipline /\ AtMostOncePerAol

\* The calls past their write.
Past == {"log", "SUCCESS", "FAIL", "lost"}

\* The number of the aol in force is a number.
LEMMA EpochType == ASSUME Ind, NEW w \in Workers PROVE epoch[w] \in Nat
BY DEF Ind, TypeOK

\* The initial states: nothing is processed and nothing written.
LEMMA InitDedup == Init => AolDiscipline /\ AtMostOncePerAol
<1>. SUFFICES ASSUME Init PROVE AolDiscipline /\ AtMostOncePerAol
  OBVIOUS
<1>1. \A c \in Calls : call[c].ep = 0 /\ call[c].st = "none" /\ call[c].to \in Workers
  BY TasksAssumption DEF Init, NoCall, Tasks
<1>2. outFile = <<>> /\ \A w \in Workers : epoch[w] = 1
  BY DEF Init
<1>. QED  BY <1>1, <1>2 DEF AolDiscipline, AtMostOncePerAol, InProcess

\* A step that lets the calls, the output and the aol numbers alone and takes
\* no id from an aol.
LEMMA AolKept ==
  ASSUME DInd, UNCHANGED <<call, outFile, epoch>>,
         \A w \in Workers : aol[w] \subseteq aol'[w]
  PROVE  AolDiscipline' /\ AtMostOncePerAol'
<1>1. AtMostOncePerAol'
  BY DEF DInd, AtMostOncePerAol
<1>2. \A c \in Calls : call[c].to \in Workers
  BY Typed DEF DInd, Ind
<1>3. AolDiscipline'
  BY <1>2 DEF DInd, AolDiscipline, InProcess
<1>. QED  BY <1>1, <1>3

\* A worker starts a new aol: what was processed was so under an older one.
LEMMA AolRenewed ==
  ASSUME DInd, NEW w \in Workers, UNCHANGED outFile,
         aol' = [aol EXCEPT ![w] = {}], epoch' = [epoch EXCEPT ![w] = @ + 1],
         \A c \in Calls : \/ call'[c] = call[c]
                          \/ /\ call'[c].to = call[c].to /\ call'[c].ep = call[c].ep
                             /\ call'[c].st = "lost"
  PROVE  AolDiscipline' /\ AtMostOncePerAol'
<1>1. AtMostOncePerAol'
  BY DEF DInd, AtMostOncePerAol
<1>2. \A c \in Calls : /\ call'[c].to = call[c].to /\ call'[c].ep = call[c].ep
                       /\ call'[c].st = call[c].st \/ call'[c].st = "lost"
                       /\ call[c].to \in Workers /\ call[c].ep \in Nat
  BY Typed DEF DInd, Ind
<1>3. \A v \in Workers : /\ epoch[v] \in Nat
                         /\ v # w => epoch'[v] = epoch[v] /\ aol'[v] = aol[v]
                         /\ epoch'[w] = epoch[w] + 1
  BY EpochType DEF DInd, Ind, TypeOK
<1>4. \A c \in Calls :
        /\ call'[c].ep <= epoch'[call'[c].to]
        /\ (call'[c].ep # 0 /\ call'[c].ep = epoch'[call'[c].to]) => c[2] \in aol'[call'[c].to]
        /\ InProcess(c)' => call'[c].ep # 0
        /\ call'[c].st \in {"none", "sent", "ready"} => call'[c].ep = 0
  <2>. SUFFICES ASSUME NEW c \in Calls
                PROVE  /\ call'[c].ep <= epoch'[call'[c].to]
                       /\ (call'[c].ep # 0 /\ call'[c].ep = epoch'[call'[c].to]) => c[2] \in aol'[call'[c].to]
                       /\ InProcess(c)' => call'[c].ep # 0
                       /\ call'[c].st \in {"none", "sent", "ready"} => call'[c].ep = 0
    OBVIOUS
  <2>1. call[c].ep <= epoch[call[c].to]
    BY DEF DInd, AolDiscipline
  <2>2. call'[c].ep <= epoch'[call'[c].to]
    BY <1>2, <1>3, <2>1
  <2>3. (call'[c].ep # 0 /\ call'[c].ep = epoch'[call'[c].to]) => c[2] \in aol'[call'[c].to]
    BY <1>2, <1>3, <2>1 DEF DInd, AolDiscipline
  <2>4. InProcess(c)' => call'[c].ep # 0
    BY <1>2 DEF DInd, AolDiscipline, InProcess
  <2>5. call'[c].st \in {"none", "sent", "ready"} => call'[c].ep = 0
    BY <1>2 DEF DInd, AolDiscipline
  <2>. QED  BY <2>2, <2>3, <2>4, <2>5
<1>5. \A c, d \in Calls :
        (/\ call'[c].ep # 0 /\ c[2] = d[2]
         /\ call'[c].to = call'[d].to /\ call'[c].ep = call'[d].ep) => c = d
  BY <1>2 DEF DInd, AolDiscipline
<1>6. \A i \in 1 .. Len(outFile) : \E c \in Calls :
        /\ c[2] = outFile[i].id /\ call'[c].to = outFile[i].by
        /\ call'[c].ep = outFile[i].ep /\ call'[c].ep # 0
        /\ call'[c].st \in {"log", "SUCCESS", "FAIL", "lost"}
  <2>. SUFFICES ASSUME NEW i \in 1 .. Len(outFile)
                PROVE  \E c \in Calls :
                         /\ c[2] = outFile[i].id /\ call'[c].to = outFile[i].by
                         /\ call'[c].ep = outFile[i].ep /\ call'[c].ep # 0
                         /\ call'[c].st \in {"log", "SUCCESS", "FAIL", "lost"}
    OBVIOUS
  <2>1. PICK c \in Calls :
          /\ c[2] = outFile[i].id /\ call[c].to = outFile[i].by
          /\ call[c].ep = outFile[i].ep /\ call[c].ep # 0
          /\ call[c].st \in {"log", "SUCCESS", "FAIL", "lost"}
    BY DEF DInd, AolDiscipline
  <2>. QED  BY <1>2, <2>1
<1>7. AolDiscipline'
  BY <1>4, <1>5, <1>6 DEF AolDiscipline
<1>. QED  BY <1>1, <1>7

\* A call goes on under the aol it was taken under, if any, and writes nothing.
LEMMA CallGoesOn ==
  ASSUME DInd, NEW c \in Calls, UNCHANGED <<outFile, epoch, aol>>,
         \A d \in Calls : d # c => call'[d] = call[d],
         \/ call[c].ep = 0 /\ call'[c].ep = 0 /\ call'[c].to \in Workers
         \/ call'[c].ep = call[c].ep /\ call'[c].to = call[c].to,
         call[c].st \in Past => call'[c].st \in Past,
         InProcess(c)' => InProcess(c) /\ call'[c].ep = call[c].ep,
         call'[c].st \in {"none", "sent", "ready"} => call'[c].ep = 0
  PROVE  AolDiscipline' /\ AtMostOncePerAol'
<1>1. AtMostOncePerAol'
  BY DEF DInd, AtMostOncePerAol
<1>2. \A d \in Calls : /\ call'[d].ep = call[d].ep
                       /\ call[d].ep # 0 => call'[d].to = call[d].to
                       /\ call'[d].to \in Workers
                       /\ InProcess(d)' => InProcess(d)
                       /\ call[d].st \in Past => call'[d].st \in Past
  BY Typed DEF DInd, Ind, InProcess
<1>3. \A d \in Calls :
        /\ call'[d].ep <= epoch[call'[d].to]
        /\ (call'[d].ep # 0 /\ call'[d].ep = epoch[call'[d].to]) => d[2] \in aol[call'[d].to]
        /\ InProcess(d)' => call'[d].ep # 0
  <2>. SUFFICES ASSUME NEW d \in Calls
                PROVE  /\ call'[d].ep <= epoch[call'[d].to]
                       /\ (call'[d].ep # 0 /\ call'[d].ep = epoch[call'[d].to]) => d[2] \in aol[call'[d].to]
                       /\ InProcess(d)' => call'[d].ep # 0
    OBVIOUS
  <2>1. epoch[call'[d].to] \in Nat
    BY <1>2, EpochType DEF DInd
  <2>2. CASE call[d].ep = 0
    BY <1>2, <2>1, <2>2 DEF DInd, AolDiscipline
  <2>3. CASE call[d].ep # 0
    BY <1>2, <2>3 DEF DInd, AolDiscipline
  <2>. QED  BY <2>2, <2>3
<1>4. \A d \in Calls : call'[d].st \in {"none", "sent", "ready"} => call'[d].ep = 0
  BY DEF DInd, AolDiscipline
<1>5. \A d, e \in Calls :
        (/\ call'[d].ep # 0 /\ d[2] = e[2]
         /\ call'[d].to = call'[e].to /\ call'[d].ep = call'[e].ep) => d = e
  BY <1>2 DEF DInd, AolDiscipline
<1>6. \A i \in 1 .. Len(outFile) : \E d \in Calls :
        /\ d[2] = outFile[i].id /\ call'[d].to = outFile[i].by
        /\ call'[d].ep = outFile[i].ep /\ call'[d].ep # 0
        /\ call'[d].st \in {"log", "SUCCESS", "FAIL", "lost"}
  <2>. SUFFICES ASSUME NEW i \in 1 .. Len(outFile)
                PROVE  \E d \in Calls :
                         /\ d[2] = outFile[i].id /\ call'[d].to = outFile[i].by
                         /\ call'[d].ep = outFile[i].ep /\ call'[d].ep # 0
                         /\ call'[d].st \in {"log", "SUCCESS", "FAIL", "lost"}
    OBVIOUS
  <2>1. PICK d \in Calls :
          /\ d[2] = outFile[i].id /\ call[d].to = outFile[i].by
          /\ call[d].ep = outFile[i].ep /\ call[d].ep # 0
          /\ call[d].st \in {"log", "SUCCESS", "FAIL", "lost"}
    BY DEF DInd, AolDiscipline
  <2>. QED  BY <1>2, <2>1 DEF Past
<1>7. AolDiscipline'
  BY <1>3, <1>4, <1>5, <1>6 DEF AolDiscipline
<1>. QED  BY <1>1, <1>7

\* A call is taken: its id was not in the aol, so no other call of the id was
\* taken under it.
LEMMA CallTaken ==
  ASSUME DInd, NEW c \in Calls, UNCHANGED <<outFile, epoch>>,
         call[c].st = "ready", c[2] \notin aol[call[c].to],
         aol' = [aol EXCEPT ![call[c].to] = @ \cup {c[2]}],
         \A d \in Calls : d # c => call'[d] = call[d],
         call'[c].to = call[c].to, call'[c].ep = epoch[call[c].to],
         call'[c].st \in {"taken", "FAIL"}
  PROVE  AolDiscipline' /\ AtMostOncePerAol'
<1>. DEFINE w == call[c].to
<1>1. AtMostOncePerAol'
  BY DEF DInd, AtMostOncePerAol
<1>2. /\ w \in Workers /\ call[c].ep = 0
      /\ \A d \in Calls : call[d].to \in Workers /\ call'[d].to = call[d].to
      /\ \A v \in Workers : aol[v] \subseteq aol'[v]
      /\ c[2] \in aol'[w]
  BY Typed DEF DInd, Ind, TypeOK, AolDiscipline
<1>3. epoch[w] \in Nat /\ epoch[w] # 0
  BY <1>2 DEF DInd, Ind, TypeOK
<1>4. \A d \in Calls :
        /\ call'[d].ep <= epoch[call'[d].to]
        /\ (call'[d].ep # 0 /\ call'[d].ep = epoch[call'[d].to]) => d[2] \in aol'[call'[d].to]
        /\ InProcess(d)' => call'[d].ep # 0
        /\ call'[d].st \in {"none", "sent", "ready"} => call'[d].ep = 0
  <2>. SUFFICES ASSUME NEW d \in Calls
                PROVE  /\ call'[d].ep <= epoch[call'[d].to]
                       /\ (call'[d].ep # 0 /\ call'[d].ep = epoch[call'[d].to]) => d[2] \in aol'[call'[d].to]
                       /\ InProcess(d)' => call'[d].ep # 0
                       /\ call'[d].st \in {"none", "sent", "ready"} => call'[d].ep = 0
    OBVIOUS
  <2>1. CASE d = c
    BY <1>2, <1>3, <2>1
  <2>2. CASE d # c
    BY <1>2, <2>2 DEF DInd, AolDiscipline, InProcess
  <2>. QED  BY <2>1, <2>2
<1>5. \A d \in Calls : d # c => ~(d[2] = c[2] /\ call[d].to = w /\ call[d].ep = epoch[w])
  BY <1>3 DEF DInd, AolDiscipline
<1>6. \A d, e \in Calls :
        (/\ call'[d].ep # 0 /\ d[2] = e[2]
         /\ call'[d].to = call'[e].to /\ call'[d].ep = call'[e].ep) => d = e
  <2>. SUFFICES ASSUME NEW d \in Calls, NEW e \in Calls, call'[d].ep # 0, d[2] = e[2],
                       call'[d].to = call'[e].to, call'[d].ep = call'[e].ep, d # e
                PROVE  FALSE
    OBVIOUS
  <2>1. CASE d = c
    BY <1>2, <1>5, <2>1
  <2>2. CASE e = c
    BY <1>2, <1>5, <2>2
  <2>3. CASE d # c /\ e # c
    BY <1>2, <2>3 DEF DInd, AolDiscipline
  <2>. QED  BY <2>1, <2>2, <2>3
<1>7. \A i \in 1 .. Len(outFile) : \E d \in Calls :
        /\ d[2] = outFile[i].id /\ call'[d].to = outFile[i].by
        /\ call'[d].ep = outFile[i].ep /\ call'[d].ep # 0
        /\ call'[d].st \in {"log", "SUCCESS", "FAIL", "lost"}
  <2>. SUFFICES ASSUME NEW i \in 1 .. Len(outFile)
                PROVE  \E d \in Calls :
                         /\ d[2] = outFile[i].id /\ call'[d].to = outFile[i].by
                         /\ call'[d].ep = outFile[i].ep /\ call'[d].ep # 0
                         /\ call'[d].st \in {"log", "SUCCESS", "FAIL", "lost"}
    OBVIOUS
  <2>1. PICK d \in Calls :
          /\ d[2] = outFile[i].id /\ call[d].to = outFile[i].by
          /\ call[d].ep = outFile[i].ep /\ call[d].ep # 0
          /\ call[d].st \in {"log", "SUCCESS", "FAIL", "lost"}
    BY DEF DInd, AolDiscipline
  <2>2. d # c
    BY <2>1
  <2>. QED  BY <2>1, <2>2
<1>8. AolDiscipline'
  BY <1>4, <1>6, <1>7 DEF AolDiscipline
<1>. QED  BY <1>1, <1>8

\* A call's result is written: the output had no line of it, as only a call
\* past its write owns a line.
LEMMA CallWritten ==
  ASSUME DInd, NEW c \in Calls, UNCHANGED <<aol, epoch>>,
         call[c].st = "write", outFile' = Append(outFile, OutLine(c)),
         \A d \in Calls : d # c => call'[d] = call[d],
         call'[c].to = call[c].to, call'[c].ep = call[c].ep, call'[c].st \in {"log", "FAIL"}
  PROVE  AolDiscipline' /\ AtMostOncePerAol'
<1>. DEFINE n == Len(outFile)
<1>1. outFile \in Seq(OutRec) /\ OutLine(c) \in OutRec
  BY OutLineType DEF DInd, Ind, TypeOK
<1>2. /\ n \in Nat /\ Len(outFile') = n + 1 /\ outFile'[n + 1] = OutLine(c)
      /\ \A i \in 1 .. n : outFile'[i] = outFile[i]
  BY <1>1, AppendProperties
<1>3. OutLine(c).id = c[2] /\ OutLine(c).by = call[c].to /\ OutLine(c).ep = call[c].ep
  BY DEF OutLine
<1>4. call[c].ep # 0
  BY DEF DInd, AolDiscipline, InProcess
<1>5. \A i \in 1 .. n : \E d \in Calls :
        /\ d # c /\ d[2] = outFile[i].id /\ call[d].to = outFile[i].by
        /\ call[d].ep = outFile[i].ep /\ call[d].ep # 0
        /\ call[d].st \in {"log", "SUCCESS", "FAIL", "lost"}
  <2>. SUFFICES ASSUME NEW i \in 1 .. n
                PROVE  \E d \in Calls :
                         /\ d # c /\ d[2] = outFile[i].id /\ call[d].to = outFile[i].by
                         /\ call[d].ep = outFile[i].ep /\ call[d].ep # 0
                         /\ call[d].st \in {"log", "SUCCESS", "FAIL", "lost"}
    OBVIOUS
  <2>1. PICK d \in Calls :
          /\ d[2] = outFile[i].id /\ call[d].to = outFile[i].by
          /\ call[d].ep = outFile[i].ep /\ call[d].ep # 0
          /\ call[d].st \in {"log", "SUCCESS", "FAIL", "lost"}
    BY DEF DInd, AolDiscipline
  <2>2. d # c
    BY <2>1
  <2>. QED  BY <2>1, <2>2
<1>6. \A i \in 1 .. n :
        ~(outFile[i].id = c[2] /\ outFile[i].by = call[c].to /\ outFile[i].ep = call[c].ep)
  BY <1>4, <1>5 DEF DInd, AolDiscipline
<1>7. AtMostOncePerAol'
  <2>. SUFFICES ASSUME NEW i \in 1 .. n + 1, NEW j \in 1 .. n + 1,
                       outFile'[i].id = outFile'[j].id,
                       outFile'[i].by = outFile'[j].by,
                       outFile'[i].ep = outFile'[j].ep
                PROVE  i = j
    BY <1>2 DEF AtMostOncePerAol
  <2>1. CASE i \in 1 .. n /\ j \in 1 .. n
    BY <1>2, <2>1 DEF DInd, AtMostOncePerAol
  <2>2. CASE i = n + 1 /\ j \in 1 .. n
    BY <1>2, <1>3, <1>6, <2>2
  <2>3. CASE j = n + 1 /\ i \in 1 .. n
    BY <1>2, <1>3, <1>6, <2>3
  <2>. QED  BY <1>2, <2>1, <2>2, <2>3
<1>8. \A d \in Calls : /\ call'[d].ep = call[d].ep /\ call'[d].to = call[d].to
                       /\ InProcess(d)' => InProcess(d)
                       /\ call'[d].st \in {"none", "sent", "ready"} => call'[d].st = call[d].st
  BY DEF InProcess
<1>9. \A i \in 1 .. n + 1 : \E d \in Calls :
        /\ d[2] = outFile'[i].id /\ call'[d].to = outFile'[i].by
        /\ call'[d].ep = outFile'[i].ep /\ call'[d].ep # 0
        /\ call'[d].st \in {"log", "SUCCESS", "FAIL", "lost"}
  <2>1. ASSUME NEW i \in 1 .. n
        PROVE  \E d \in Calls :
                 /\ d[2] = outFile'[i].id /\ call'[d].to = outFile'[i].by
                 /\ call'[d].ep = outFile'[i].ep /\ call'[d].ep # 0
                 /\ call'[d].st \in {"log", "SUCCESS", "FAIL", "lost"}
    <3>1. PICK d \in Calls :
            /\ d # c /\ d[2] = outFile[i].id /\ call[d].to = outFile[i].by
            /\ call[d].ep = outFile[i].ep /\ call[d].ep # 0
            /\ call[d].st \in {"log", "SUCCESS", "FAIL", "lost"}
      BY <1>5
    <3>. QED  BY <1>2, <3>1
  <2>2. /\ c[2] = outFile'[n + 1].id /\ call'[c].to = outFile'[n + 1].by
        /\ call'[c].ep = outFile'[n + 1].ep /\ call'[c].ep # 0
        /\ call'[c].st \in {"log", "SUCCESS", "FAIL", "lost"}
    BY <1>2, <1>3, <1>4
  <2>3. \A i \in 1 .. n + 1 : i \in 1 .. n \/ i = n + 1
    BY <1>2
  <2>. QED  BY <2>1, <2>2, <2>3
<1>10. AolDiscipline'
  BY <1>2, <1>8, <1>9 DEF DInd, AolDiscipline
<1>. QED  BY <1>7, <1>10

\* The steps of a handler.
LEMMA HandlerDedup ==
  ASSUME DInd, NEW c \in Calls, Handler(c) PROVE AolDiscipline' /\ AtMostOncePerAol'
<1>. DEFINE Goal == AolDiscipline' /\ AtMostOncePerAol'
<1>1. call \in [Calls -> CallRec] /\ call[c] \in CallRec
  BY Typed DEF DInd, Ind
<1>2. ASSUME NEW st \in {"ready", "COMPLETED", "FAIL", "SUCCESS"}, Becomes(c, st),
             UNCHANGED <<outFile, epoch, aol>>, call[c].st # "none",
             call[c].st \in Past => st \in Past, st = "ready" => call[c].st = "sent"
      PROVE  Goal
  <2>1. /\ call'[c].st = st /\ call'[c].ep = call[c].ep /\ call'[c].to = call[c].to
        /\ \A d \in Calls : d # c => call'[d] = call[d]
    BY <1>1, <1>2 DEF Becomes, CallRec
  <2>2. st = "ready" => call[c].ep = 0
    BY <1>2 DEF DInd, AolDiscipline
  <2>. QED  BY <1>2, <2>1, <2>2, CallGoesOn DEF InProcess
<1>3. ASSUME Accept(c) PROVE Goal
  BY <1>2, <1>3 DEF Accept, Is, workerVars, Past
<1>4. ASSUME Duplicate(c) PROVE Goal
  BY <1>2, <1>4 DEF Duplicate, Is, workerVars, Past
<1>5. ASSUME NoReceiverTask(c) PROVE Goal
  <2>1. /\ call'[c].st = "FAIL" /\ call'[c].ep = epoch[call[c].to] /\ call'[c].to = call[c].to
        /\ \A d \in Calls : d # c => call'[d] = call[d]
    BY <1>1, <1>5 DEF NoReceiverTask, CallRec
  <2>. QED  BY <1>5, <2>1, CallTaken DEF NoReceiverTask, Is, Seen
<1>6. ASSUME Take(c) PROVE Goal
  <2>1. /\ call'[c].st = "taken" /\ call'[c].ep = epoch[call[c].to] /\ call'[c].to = call[c].to
        /\ \A d \in Calls : d # c => call'[d] = call[d]
    BY <1>1, <1>6 DEF Take, CallRec
  <2>. QED  BY <1>6, <2>1, CallTaken DEF Take, Is, Seen
<1>7. ASSUME Op2(c) PROVE Goal
  <2>1. /\ call[c].st = "taken" /\ call'[c].st = "write"
        /\ call'[c].ep = call[c].ep /\ call'[c].to = call[c].to
        /\ \A d \in Calls : d # c => call'[d] = call[d]
        /\ UNCHANGED <<outFile, epoch, aol>>
    BY <1>1, <1>7 DEF Op2, Is, CallRec
  <2>. QED  BY <2>1, CallGoesOn DEF InProcess, Past
<1>8. ASSUME Op2Error(c) PROVE Goal
  BY <1>2, <1>8 DEF Op2Error, Is, Past
<1>9. ASSUME WriteOutput(c) PROVE Goal
  <2>1. /\ call'[c].st = "log" /\ call'[c].ep = call[c].ep /\ call'[c].to = call[c].to
        /\ \A d \in Calls : d # c => call'[d] = call[d]
    BY <1>1, <1>9 DEF WriteOutput, Becomes, CallRec
  <2>. QED  BY <1>9, <2>1, CallWritten DEF WriteOutput, workerVars, Is
<1>10. ASSUME WriteError(c) PROVE Goal
  <2>1. /\ call'[c].st = "FAIL" /\ call'[c].ep = call[c].ep /\ call'[c].to = call[c].to
        /\ \A d \in Calls : d # c => call'[d] = call[d]
    BY <1>1, <1>10 DEF WriteError, Becomes, CallRec
  <2>2. CASE outFile' = outFile
    BY <1>2, <1>10, <2>2 DEF WriteError, Is, Past
  <2>3. CASE outFile' = Append(outFile, OutLine(c))
    BY <1>10, <2>1, <2>3, CallWritten DEF WriteError, Is
  <2>. QED  BY <1>10, <2>2, <2>3 DEF WriteError
<1>11. ASSUME LogAndAck(c) PROVE Goal
  BY <1>2, <1>11 DEF LogAndAck, Is, Past
<1>12. ASSUME OpenError(c) PROVE Goal
  BY <1>2, <1>12 DEF OpenError, Is, workerVars, Past
<1>13. ASSUME LogError(c) PROVE Goal
  BY <1>2, <1>13 DEF LogError, Is, Past
<1>. QED  BY <1>3, <1>4, <1>5, <1>6, <1>7, <1>8, <1>9, <1>10, <1>11, <1>12, <1>13 DEF Handler

\* SendTuple opens a stream; nothing is taken for it.
LEMMA IssueDedup ==
  ASSUME DInd, NEW c \in Calls, NEW line \in LineNo, Issue(c, line), call[c].st = "none",
         UNCHANGED <<outFile, epoch, aol>>
  PROVE  AolDiscipline' /\ AtMostOncePerAol'
<1>. DEFINE to == ws[c[1]].parts[KeyOf[<<c[2][1], line>>]]
<1>1. to \in Workers
  BY Typed, CallNames DEF DInd, Ind
<1>2. /\ call'[c].st \in {"sent", "lost"} /\ call'[c].to = to /\ call'[c].ep = 0
      /\ \A d \in Calls : d # c => call'[d] = call[d]
  BY Typed DEF DInd, Ind, Issue
<1>3. call[c].ep = 0
  BY DEF DInd, AolDiscipline
<1>. QED  BY <1>1, <1>2, <1>3, CallGoesOn DEF InProcess, Past

\* The steps of a sender.
LEMMA SenderDedup ==
  ASSUME DInd, NEW t \in Stage1, Sender(t) PROVE AolDiscipline' /\ AtMostOncePerAol'
<1>. DEFINE Goal == AolDiscipline' /\ AtMostOncePerAol'
<1>1. t \in Tasks
  BY DEF Tasks
<1>2. ASSUME ScanSend(t) PROVE Goal
  <2>. DEFINE w == run[t].at
              id == <<t, run[t].seq>>
  <2>1. PICK n \in Attempt : NextStream(w, id, n) /\ Issue(<<w, id, n>>, run[t].line)
    BY <1>2 DEF ScanSend
  <2>2. run[t].line \in LineNo /\ run[t].seq \in LineNo /\ w \in Workers
    BY <1>1, <1>2, Typed, BoundsAssumption DEF DInd, Ind, ScanInv, ScanSend, LineNo
  <2>3. <<w, id, n>> \in Calls /\ call[<<w, id, n>>].st = "none"
    BY <2>1, <2>2 DEF Calls, Ids, NextStream
  <2>4. UNCHANGED <<outFile, epoch, aol>>
    BY <1>2 DEF ScanSend, workerVars
  <2>. HIDE DEF w, id
  <2>. QED  BY <2>1, <2>2, <2>3, <2>4, IssueDedup
<1>3. ASSUME ResendSend(t) PROVE Goal
  <2>. DEFINE w == run[t].at
              id == Current(t).id
              line == Current(t).line
  <2>1. PICK n \in Attempt : NextStream(w, id, n) /\ Issue(<<w, id, n>>, line)
    BY <1>3 DEF ResendSend
  <2>2. line \in LineNo /\ id \in Ids /\ w \in Workers
    BY <1>1, <1>3, CurrentType, Typed DEF DInd, Ind, ResendSend
  <2>3. <<w, id, n>> \in Calls /\ call[<<w, id, n>>].st = "none"
    BY <2>1, <2>2 DEF Calls, NextStream
  <2>4. UNCHANGED <<outFile, epoch, aol>>
    BY <1>3 DEF ResendSend, workerVars
  <2>. HIDE DEF w, id, line
  <2>. QED  BY <2>1, <2>2, <2>3, <2>4, IssueDedup
<1>4. ASSUME UNCHANGED <<call, outFile, epoch, aol>> PROVE Goal
  BY <1>4, AolKept
<1>5. ASSUME NEW ack \in BOOLEAN, ScanReturn(t, ack) \/ ResendReturn(t, ack) PROVE Goal
  BY <1>4, <1>5 DEF ScanReturn, ResendReturn
<1>6. ASSUME StartTask(t) \/ SkipLine(t) \/ ScanDone(t) \/ Wake(t) \/ LockForResend(t)
             \/ ResendEnd(t) \/ Finish(t)
      PROVE  Goal
  BY <1>4, <1>6 DEF StartTask, SkipLine, ScanDone, Wake, LockForResend, ResendEnd, Finish, workerVars
<1>. QED  BY <1>2, <1>3, <1>5, <1>6 DEF Sender

\* The steps of a receiver task, of the leader, and a crash.
LEMMA OtherDedup ==
  ASSUME DInd, (\E t \in Stage2 : Receiver(t)) \/ (\E w \in Workers : Crash(w)) \/ Leader
  PROVE  AolDiscipline' /\ AtMostOncePerAol'
<1>. DEFINE Goal == AolDiscipline' /\ AtMostOncePerAol'
<1>1. ASSUME UNCHANGED <<call, outFile, epoch>>, \A w \in Workers : aol[w] \subseteq aol'[w] PROVE Goal
  BY <1>1, AolKept
<1>2. ASSUME NEW t \in Stage2, PrepareBegin(t) PROVE Goal
  <2>1. run[t].at \in Workers
    BY Typed DEF DInd, Ind, Tasks
  <2>2. UNCHANGED <<call, outFile>>
    BY <1>2 DEF PrepareBegin
  <2>. QED  BY <1>2, <2>1, <2>2, AolRenewed DEF PrepareBegin
<1>3. ASSUME NEW t \in Stage2, LoadAol(t) PROVE Goal
  <2>1. \A w \in Workers : aol[w] \subseteq aol'[w]
    BY <1>3 DEF LoadAol, DInd, Ind, TypeOK
  <2>. QED  BY <1>1, <1>3, <2>1 DEF LoadAol
<1>4. ASSUME NEW t \in Stage2, StartTask(t) \/ LoadOutput(t) PROVE Goal
  BY <1>1, <1>4 DEF StartTask, LoadOutput
<1>5. ASSUME NEW w \in Workers, Crash(w) PROVE Goal
  <2>1. \A c \in Calls : \/ call'[c] = call[c]
                         \/ /\ call'[c].to = call[c].to /\ call'[c].ep = call[c].ep
                            /\ call'[c].st = "lost"
    <3>1. \A c \in Calls : call[c] \in CallRec
      BY Typed DEF DInd, Ind
    <3>2. \A c \in Calls : call'[c] = IF call[c].to = w /\ call[c].st \notin Answered \cup {"none"}
                                        THEN [call[c] EXCEPT !.st = "lost"] ELSE call[c]
      BY <1>5 DEF Crash
    <3>3. \A c \in Calls : LET r == [call[c] EXCEPT !.st = "lost"]
                           IN r.to = call[c].to /\ r.ep = call[c].ep /\ r.st = "lost"
      BY <3>1 DEF CallRec
    <3>. QED  BY <3>2, <3>3
  <2>2. /\ aol' = [aol EXCEPT ![w] = {}] /\ epoch' = [epoch EXCEPT ![w] = @ + 1]
        /\ UNCHANGED outFile
    BY <1>5 DEF Crash
  <2>. QED  BY <2>1, <2>2, AolRenewed
<1>6. ASSUME Leader PROVE Goal
  BY <1>1, <1>6 DEF Leader, Reschedule, UpdateTask, NotifyReceiver, workerVars
<1>. QED  BY <1>2, <1>3, <1>4, <1>5, <1>6 DEF Receiver

\* Every step keeps the discipline of the aol and what follows from it.
LEMMA NextDedup == DInd /\ [Next]_vars => DInd'
<1>. SUFFICES ASSUME DInd, [Next]_vars PROVE DInd'
  OBVIOUS
<1>1. Ind'
  BY NextInd DEF DInd
<1>2. CASE Next
  <2>1. AolDiscipline' /\ AtMostOncePerAol'
    BY <1>2, HandlerDedup, SenderDedup, OtherDedup DEF Next
  <2>. QED  BY <1>1, <2>1 DEF DInd
<1>3. CASE UNCHANGED vars
  <2>1. UNCHANGED <<call, outFile, epoch, aol>>
    BY <1>3 DEF vars, workerVars
  <2>2. AolDiscipline' /\ AtMostOncePerAol'
    BY <2>1, AolKept
  <2>. QED  BY <1>1, <2>2 DEF DInd
<1>. QED  BY <1>2, <1>3

\* The discipline of the aol is an invariant, and with it the promise of the
\* receiver: one line in the output per tuple, worker and aol, whatever is
\* retried, lost, answered late or crashes.
THEOREM AolSound == Spec => []AolDiscipline
<1>1. Init => DInd
  BY InitInd, InitDedup DEF DInd
<1>2. DInd => AolDiscipline
  BY DEF DInd
<1>. QED  BY <1>1, <1>2, NextDedup, PTL DEF Spec

\* A receiver never writes the result of a tuple twice under one aol.
THEOREM AtMostOnce == Spec => []AtMostOncePerAol
<1>1. Init => DInd
  BY InitInd, InitDedup DEF DInd
<1>2. DInd => AtMostOncePerAol
  BY DEF DInd
<1>. QED  BY <1>1, <1>2, NextDedup, PTL DEF Spec
-----------------------------------------------------------------------------
(***************************************************************************)
(* Delivery: nothing is logged or answered SUCCESS before it is written    *)
(* (LoggedIsWritten), a tuple that was acknowledged and is not in the      *)
(* output had a call that failed (LossNeedsFailure), and the exchange      *)
(* implements DedupDelivery.  The argument: whatever is in an aol was      *)
(* written, has failed, or is being processed by the one handler that      *)
(* holds the mutex, which the duplicate check of another call has to wait  *)
(* for.                                                                    *)
(***************************************************************************)
\* Call c has a line in the output.
HasLine(c) == \E i \in 1 .. Len(outFile) : /\ outFile[i].id = c[2]
                                           /\ outFile[i].by = call[c].to
                                           /\ outFile[i].ep = call[c].ep

\* Call c failed after its id had entered the aol.
LostCall(c) == call[c].st = "FAIL" /\ call[c].ep # 0

FailedCall(id) == \E c \in Calls : c[2] = id /\ LostCall(c)
Settled(id) == Written(id) \/ FailedCall(id)

\* A call is past its write only with its line in the output.
WriteInv == \A c \in Calls : call[c].st \in {"log", "SUCCESS"} => HasLine(c)

\* What an aol holds is written, has failed, or is in the hands of a handler; what was
\* called a duplicate or is acknowledged is written or has failed.
SettledInv ==
  /\ \A w \in Workers : \A id \in aol[w] :
       Settled(id) \/ \E c \in Calls : c[2] = id /\ InProcess(c) /\ call[c].to = w
  /\ \A c \in Calls : call[c].st = "COMPLETED" => Settled(c[2])
  /\ \A w \in Workers, id \in Ids : ws[w].ackMap[id] = "acked" => Settled(id)

RInv == LoggedIsWritten /\ WriteInv /\ SettledInv
RInd == DInd /\ RInv

-----------------------------------------------------------------------------
(* The initial states, and what a step has to respect. *)

\* At first nothing is in an aol, called or acknowledged.
LEMMA InitR == Init => RInv
<1>. SUFFICES ASSUME Init PROVE RInv
  OBVIOUS
<1>1. \A c \in Calls : call[c].st = "none"
  BY DEF Init, NoCall
<1>2. \A w \in Workers : aol[w] = {} /\ aolFile[w] = {}
  BY DEF Init
<1>3. \A w \in Workers, id \in Ids : ws[w].ackMap[id] = "absent"
  BY DEF Init, InitWorker
<1>. QED  BY <1>1, <1>2, <1>3 DEF RInv, LoggedIsWritten, WriteInv, SettledInv

\* The output only grows, as far as its lines are asked for.
OutGrows == \A i \in 1 .. Len(outFile) : i \in 1 .. Len(outFile') /\ outFile'[i] = outFile[i]

\* What is settled stays so.
LEMMA SettledKept ==
  ASSUME OutGrows, \A d \in Calls : LostCall(d) => LostCall(d)'
  PROVE  \A id : Settled(id) => Settled(id)'
BY DEF OutGrows, Settled, Written, FailedCall

\* A step that extends the output, lets nobody past the write without a line, takes an
\* id out of a handler's hands only when it is settled, and acknowledges what is settled.
LEMMA RStep ==
  ASSUME RInd, OutGrows,
         \A d \in Calls : LostCall(d) => LostCall(d)',
         \A d \in Calls :
           \/ call'[d] = call[d]
           \/ call'[d].st \in {"sent", "ready", "lost", "taken", "write"}
           \/ call'[d].st = "COMPLETED" /\ Settled(d[2])
           \/ call'[d].st = "FAIL"
           \/ call'[d].st \in {"log", "SUCCESS"} /\ HasLine(d)',
         \A d \in Calls : InProcess(d) =>
           \/ InProcess(d)' /\ call'[d].to = call[d].to
           \/ Settled(d[2])'
           \/ aol'[call[d].to] = {},
         \A w \in Workers : \A id \in aol'[w] :
           \/ id \in aol[w] \cup aolFile[w]
           \/ Settled(id)'
           \/ \E d \in Calls : d[2] = id /\ InProcess(d)' /\ call'[d].to = w,
         \A w \in Workers : \A id \in aolFile'[w] :
           \/ id \in aolFile[w]
           \/ \E i \in 1 .. Len(outFile') : outFile'[i].id = id /\ outFile'[i].by = w,
         \A d \in Calls : call'[d].st = "SUCCESS" => d[2] \in aolFile'[call'[d].to],
         \A w \in Workers, id \in Ids : ws'[w].ackMap[id] = "acked" =>
           ws[w].ackMap[id] = "acked" \/ Settled(id)
  PROVE  RInv'
<1>1. \A id : Settled(id) => Settled(id)'
  BY SettledKept
<1>2. LoggedIsWritten'
  BY DEF RInd, RInv, LoggedIsWritten, OutGrows
<1>3. \A d \in Calls : HasLine(d) /\ call'[d] = call[d] => HasLine(d)'
  BY DEF OutGrows, HasLine
<1>4. WriteInv'
  BY <1>3 DEF RInd, RInv, WriteInv
<1>5. ASSUME NEW w \in Workers, NEW id \in aol'[w]
      PROVE  Settled(id)' \/ \E d \in Calls : d[2] = id /\ InProcess(d)' /\ call'[d].to = w
  <2>1. CASE id \in aolFile[w]
    <3>1. Settled(id)
      BY <2>1 DEF RInd, RInv, LoggedIsWritten, Settled, Written
    <3>. QED  BY <1>1, <3>1
  <2>2. CASE id \in aol[w]
    <3>1. Settled(id) \/ \E d \in Calls : d[2] = id /\ InProcess(d) /\ call[d].to = w
      BY <2>2 DEF RInd, RInv, SettledInv
    <3>. QED  BY <1>1, <1>5, <3>1
  <2>. QED  BY <1>5, <2>1, <2>2
<1>6. \A d \in Calls : call'[d].st = "COMPLETED" => Settled(d[2])'
  BY <1>1 DEF RInd, RInv, SettledInv
<1>7. \A w \in Workers, id \in Ids : ws'[w].ackMap[id] = "acked" => Settled(id)'
  BY <1>1 DEF RInd, RInv, SettledInv
<1>8. SettledInv'
  BY <1>5, <1>6, <1>7 DEF SettledInv
<1>. QED  BY <1>2, <1>4, <1>8 DEF RInv

\* A step of the workers alone: no call changes, nothing is written, and what enters an
\* aol comes from its file.
LEMMA CallsRest ==
  ASSUME RInd, UNCHANGED <<call, outFile, aolFile>>,
         \A w \in Workers : aol'[w] \subseteq aol[w] \cup aolFile[w],
         \A w \in Workers, id \in Ids : ws'[w].ackMap[id] = "acked" =>
           ws[w].ackMap[id] = "acked" \/ Settled(id)
  PROVE  RInv'
<1>1. OutGrows
  BY DEF OutGrows
<1>2. \A d \in Calls : InProcess(d) => InProcess(d)' /\ call'[d].to = call[d].to
  BY DEF InProcess
<1>3. \A d \in Calls : call'[d].st = "SUCCESS" => d[2] \in aolFile'[call'[d].to]
  BY DEF RInd, RInv, LoggedIsWritten
<1>4. \A d \in Calls : LostCall(d) => LostCall(d)'
  BY DEF LostCall
<1>. QED  BY <1>1, <1>2, <1>3, <1>4, RStep

-----------------------------------------------------------------------------
(* Every step keeps the invariant. *)

\* A handler moves its call on; the calls of others stay.
LEMMA CallMoves ==
  ASSUME RInd, NEW c \in Calls, OutGrows, UNCHANGED aolFile,
         \A d \in Calls : d # c => call'[d] = call[d],
         call'[c].to = call[c].to, call[c].st # "FAIL",
         \/ call'[c].st \in {"ready", "taken", "write"}
         \/ call'[c].st = "COMPLETED" /\ Settled(c[2])
         \/ call'[c].st = "FAIL" /\ call'[c].ep # 0
         \/ call'[c].st = "FAIL" /\ ~ InProcess(c) /\ UNCHANGED aol
         \/ call'[c].st = "log" /\ HasLine(c)',
         InProcess(c) => call'[c].st \in {"write", "log", "FAIL"},
         \/ UNCHANGED aol
         \/ /\ aol' = [aol EXCEPT ![call[c].to] = @ \cup {c[2]}]
            /\ call'[c].st = "taken" \/ LostCall(c)',
         \A w \in Workers : ws'[w].ackMap = ws[w].ackMap
  PROVE  RInv'
<1>1. \A d \in Calls : LostCall(d) => LostCall(d)'
  BY DEF LostCall
<1>2. LostCall(c)' => Settled(c[2])'
  BY DEF Settled, FailedCall
<1>3. \A d \in Calls : InProcess(d) =>
        \/ (InProcess(d)' /\ call'[d].to = call[d].to)
        \/ Settled(d[2])'
  BY <1>2 DEF InProcess, LostCall
<1>4. call[c].to \in Workers /\ \A w \in Workers : aol[w] \subseteq Ids
  BY Typed DEF RInd, DInd, Ind, TypeOK
<1>5. ASSUME NEW w \in Workers, NEW id \in aol'[w]
      PROVE  \/ id \in aol[w] \/ Settled(id)'
             \/ \E d \in Calls : d[2] = id /\ InProcess(d)' /\ call'[d].to = w
  <2>1. CASE UNCHANGED aol
    BY <1>5, <2>1
  <2>2. CASE /\ aol' = [aol EXCEPT ![call[c].to] = @ \cup {c[2]}]
             /\ call'[c].st = "taken" \/ LostCall(c)'
    <3>1. id \in aol[w] \/ (id = c[2] /\ w = call[c].to)
      BY <1>4, <1>5, <2>2 DEF RInd, DInd, Ind, TypeOK
    <3>. QED  BY <1>2, <2>2, <3>1 DEF InProcess
  <2>. QED  BY <2>1, <2>2
<1>6. \A d \in Calls : call'[d].st = "SUCCESS" => d[2] \in aolFile'[call'[d].to]
  BY DEF RInd, RInv, LoggedIsWritten
<1>. QED  BY <1>1, <1>3, <1>5, <1>6, RStep

\* The line a handler appends is its call's.
LEMMA LineAppended ==
  ASSUME RInd, NEW c \in Calls, outFile' = Append(outFile, OutLine(c))
  PROVE  /\ OutGrows
         /\ (call'[c].to = call[c].to /\ call'[c].ep = call[c].ep) => HasLine(c)'
<1>1. outFile \in Seq(OutRec) /\ OutLine(c) \in OutRec
  BY OutLineType DEF RInd, DInd, Ind, TypeOK
<1>2. /\ Len(outFile) \in Nat /\ Len(outFile') = Len(outFile) + 1
      /\ outFile'[Len(outFile) + 1] = OutLine(c)
      /\ \A i \in 1 .. Len(outFile) : outFile'[i] = outFile[i]
  BY <1>1, AppendProperties
<1>3. OutGrows
  BY <1>2 DEF OutGrows
<1>4. OutLine(c).id = c[2] /\ OutLine(c).by = call[c].to /\ OutLine(c).ep = call[c].ep
  BY DEF OutLine
<1>5. Len(outFile) + 1 \in 1 .. Len(outFile')
  BY <1>2
<1>. QED  BY <1>2, <1>3, <1>4, <1>5 DEF HasLine

\* The steps of a handler.
LEMMA HandlerR == ASSUME RInd, NEW c \in Calls, Handler(c) PROVE RInv'
<1>1. call \in [Calls -> CallRec] /\ call[c] \in CallRec /\ call[c].to \in Workers
  BY Typed DEF RInd, DInd, Ind
<1>2. \A st \in Status : Becomes(c, st) =>
        /\ call'[c].st = st /\ call'[c].to = call[c].to /\ call'[c].ep = call[c].ep
        /\ \A d \in Calls : d # c => call'[d] = call[d]
  BY <1>1 DEF Becomes, CallRec
<1>3. UNCHANGED outFile => OutGrows
  BY DEF OutGrows
<1>4. \A b \in BOOLEAN : ws' = [ws EXCEPT ![call[c].to].mu = b] =>
        \A w \in Workers : ws'[w].ackMap = ws[w].ackMap
  BY <1>1, Typed DEF RInd, DInd, Ind, WorkerRec
<1>5. InProcess(c) => call[c].ep # 0
  BY DEF RInd, DInd, AolDiscipline
<1>6. ASSUME Accept(c) PROVE RInv'
  <2>1. call'[c].st = "ready" /\ call[c].st = "sent" /\ call'[c].to = call[c].to
        /\ \A d \in Calls : d # c => call'[d] = call[d]
    BY <1>2, <1>6 DEF Accept, Is, Status
  <2>. QED  BY <1>3, <1>6, <2>1, CallMoves DEF Accept, workerVars, InProcess
<1>7. ASSUME Duplicate(c) PROVE RInv'
  <2>1. call'[c].st = "COMPLETED" /\ call[c].st = "ready" /\ call'[c].to = call[c].to
        /\ \A d \in Calls : d # c => call'[d] = call[d]
    BY <1>2, <1>7 DEF Duplicate, Is, Status
  <2>2. Settled(c[2])
    <3>1. c[2] \in aol[call[c].to] /\ ~ws[call[c].to].mu
      BY <1>7 DEF Duplicate, Seen
    <3>2. \A d \in Calls : InProcess(d) => call[d].to # call[c].to
      BY <3>1 DEF RInd, DInd, Ind, LockDiscipline
    <3>. QED  BY <1>1, <3>1, <3>2 DEF RInd, RInv, SettledInv
  <2>. QED  BY <1>3, <1>7, <2>1, <2>2, CallMoves DEF Duplicate, workerVars, InProcess
<1>8. ASSUME NoReceiverTask(c) PROVE RInv'
  <2>1. /\ call[c].st = "ready" /\ call'[c].st = "FAIL" /\ call'[c].ep = epoch[call[c].to]
        /\ call'[c].to = call[c].to /\ \A d \in Calls : d # c => call'[d] = call[d]
    BY <1>1, <1>8 DEF NoReceiverTask, CallRec, Is
  <2>2. epoch[call[c].to] # 0
    BY <1>1 DEF RInd, DInd, Ind, TypeOK
  <2>. QED  BY <1>3, <1>8, <2>1, <2>2, CallMoves DEF NoReceiverTask, InProcess, LostCall
<1>9. ASSUME Take(c) PROVE RInv'
  <2>1. /\ call[c].st = "ready" /\ call'[c].st = "taken"
        /\ call'[c].to = call[c].to /\ \A d \in Calls : d # c => call'[d] = call[d]
    BY <1>1, <1>9 DEF Take, CallRec, Is
  <2>2. \A w \in Workers : ws'[w].ackMap = ws[w].ackMap
    BY <1>4, <1>9 DEF Take
  <2>. QED  BY <1>3, <1>9, <2>1, <2>2, CallMoves DEF Take, InProcess
<1>10. ASSUME Op2(c) PROVE RInv'
  <2>1. /\ call[c].st = "taken" /\ call'[c].st = "write"
        /\ call'[c].to = call[c].to /\ \A d \in Calls : d # c => call'[d] = call[d]
    BY <1>1, <1>10 DEF Op2, CallRec, Is
  <2>2. \A w \in Workers : ws'[w].ackMap = ws[w].ackMap
    BY <1>1, <1>10, Typed DEF Op2, RInd, DInd, Ind, WorkerRec
  <2>. QED  BY <1>3, <1>10, <2>1, <2>2, CallMoves DEF Op2, InProcess
<1>11. ASSUME Op2Error(c) PROVE RInv'
  <2>1. /\ call[c].st = "taken" /\ call'[c].st = "FAIL" /\ call'[c].ep = call[c].ep
        /\ call'[c].to = call[c].to /\ \A d \in Calls : d # c => call'[d] = call[d]
    BY <1>2, <1>11 DEF Op2Error, Is, Status
  <2>2. \A w \in Workers : ws'[w].ackMap = ws[w].ackMap
    BY <1>4, <1>11 DEF Op2Error, Unlock
  <2>. QED  BY <1>3, <1>5, <1>11, <2>1, <2>2, CallMoves DEF Op2Error, InProcess
<1>12. ASSUME WriteOutput(c) PROVE RInv'
  <2>1. /\ call[c].st = "write" /\ call'[c].st = "log" /\ call'[c].ep = call[c].ep
        /\ call'[c].to = call[c].to /\ \A d \in Calls : d # c => call'[d] = call[d]
    BY <1>2, <1>12 DEF WriteOutput, Is, Status
  <2>. QED  BY <1>12, <2>1, LineAppended, CallMoves DEF WriteOutput, workerVars, InProcess
<1>13. ASSUME WriteError(c) PROVE RInv'
  <2>1. /\ call[c].st = "write" /\ call'[c].st = "FAIL" /\ call'[c].ep = call[c].ep
        /\ call'[c].to = call[c].to /\ \A d \in Calls : d # c => call'[d] = call[d]
    BY <1>2, <1>13 DEF WriteError, Is, Status
  <2>2. \A w \in Workers : ws'[w].ackMap = ws[w].ackMap
    BY <1>4, <1>13 DEF WriteError, Unlock
  <2>3. OutGrows
    BY <1>3, <1>13, LineAppended DEF WriteError
  <2>. QED  BY <1>5, <1>13, <2>1, <2>2, <2>3, CallMoves DEF WriteError, InProcess
<1>14. ASSUME LogAndAck(c) PROVE RInv'
  <2>. DEFINE w == call[c].to
  <2>1. /\ call[c].st = "log" /\ call'[c].st = "SUCCESS" /\ call'[c].ep = call[c].ep
        /\ call'[c].to = w /\ \A d \in Calls : d # c => call'[d] = call[d]
    BY <1>2, <1>14 DEF LogAndAck, Is, Status
  <2>2. \A v \in Workers : ws'[v].ackMap = ws[v].ackMap
    BY <1>4, <1>14 DEF LogAndAck, Unlock
  <2>3. OutGrows /\ UNCHANGED <<outFile, aol>>
    BY <1>3, <1>14 DEF LogAndAck
  <2>4. HasLine(c) /\ HasLine(c)'
    BY <2>1, <2>3 DEF RInd, RInv, WriteInv, HasLine
  <2>5. Settled(c[2])'
    BY <2>4 DEF HasLine, Settled, Written
  <2>6. /\ aolFile' = [aolFile EXCEPT ![w] = @ \cup {c[2]}] /\ aolFile \in [Workers -> SUBSET Ids]
        /\ w \in Workers
    BY <1>1, <1>14 DEF LogAndAck, RInd, DInd, Ind, TypeOK
  <2>7. \A v \in Workers : \A id \in aolFile'[v] :
          id \in aolFile[v] \/ \E i \in 1 .. Len(outFile') : outFile'[i].id = id /\ outFile'[i].by = v
    BY <2>1, <2>4, <2>6 DEF HasLine
  <2>8. \A d \in Calls : call'[d].st = "SUCCESS" => d[2] \in aolFile'[call'[d].to]
    <3>1. \A d \in Calls : call[d].to \in Workers
      BY Typed DEF RInd, DInd, Ind
    <3>. QED  BY <2>1, <2>6, <3>1 DEF RInd, RInv, LoggedIsWritten
  <2>9. \A d \in Calls : InProcess(d) =>
          \/ (InProcess(d)' /\ call'[d].to = call[d].to)
        \/ Settled(d[2])'
    BY <2>1, <2>5 DEF InProcess
  <2>10. \A d \in Calls : /\ LostCall(d) => LostCall(d)'
                          /\ \/ call'[d] = call[d]
                             \/ call'[d].st = "SUCCESS" /\ HasLine(d)'
    <3>1. ASSUME NEW d \in Calls, d = c PROVE call'[d].st = "SUCCESS" /\ HasLine(d)'
      BY <2>1, <2>4, <3>1
    <3>. QED  BY <2>1, <3>1 DEF LostCall
  <2>. HIDE DEF w
  <2>. QED  BY <2>2, <2>3, <2>7, <2>8, <2>9, <2>10, RStep
<1>15. ASSUME OpenError(c) PROVE RInv'
  <2>1. /\ call[c].st = "ready" /\ call'[c].st = "FAIL" /\ call'[c].to = call[c].to
        /\ \A d \in Calls : d # c => call'[d] = call[d]
    BY <1>2, <1>15 DEF OpenError, Is, Status
  <2>. QED  BY <1>3, <1>15, <2>1, CallMoves DEF OpenError, workerVars, InProcess
<1>16. ASSUME LogError(c) PROVE RInv'
  <2>1. /\ call[c].st = "log" /\ call'[c].st = "FAIL" /\ call'[c].ep = call[c].ep
        /\ call'[c].to = call[c].to /\ \A d \in Calls : d # c => call'[d] = call[d]
    BY <1>2, <1>16 DEF LogError, Is, Status
  <2>2. \A w \in Workers : ws'[w].ackMap = ws[w].ackMap
    BY <1>4, <1>16 DEF LogError, Unlock
  <2>. QED  BY <1>3, <1>5, <1>16, <2>1, <2>2, CallMoves DEF LogError, InProcess
<1>. QED  BY <1>6, <1>7, <1>8, <1>9, <1>10, <1>11, <1>12, <1>13, <1>14, <1>15, <1>16
          DEF Handler

\* SendTuple opens a stream: nobody has seen it yet.
LEMMA IssueR ==
  ASSUME RInd, NEW c \in Calls, NEW line \in LineNo, Issue(c, line), call[c].st = "none",
         UNCHANGED <<outFile, aol, aolFile, ws>>
  PROVE  RInv'
<1>1. /\ call'[c].st \in {"sent", "lost"}
      /\ \A d \in Calls : d # c => call'[d] = call[d]
  BY Typed DEF RInd, DInd, Ind, Issue
<1>2. OutGrows
  BY DEF OutGrows
<1>3. \A d \in Calls : InProcess(d) => InProcess(d)' /\ call'[d].to = call[d].to
  BY <1>1 DEF InProcess
<1>4. \A d \in Calls : call'[d].st = "SUCCESS" => d[2] \in aolFile'[call'[d].to]
  BY <1>1 DEF RInd, RInv, LoggedIsWritten
<1>5. \A d \in Calls : LostCall(d) => LostCall(d)'
  BY <1>1 DEF LostCall
<1>. QED  BY <1>1, <1>2, <1>3, <1>4, <1>5, RStep

\* SendTuple returns: it takes for acknowledged only what is settled.
LEMMA ReturnsSettled ==
  ASSUME RInd, NEW c \in Calls, Returns(c, TRUE)
  PROVE  Settled(c[2])
<1>1. CASE call[c].st = "COMPLETED"
  BY <1>1 DEF RInd, RInv, SettledInv
<1>2. CASE call[c].st = "SUCCESS"
  BY <1>2 DEF RInd, RInv, WriteInv, HasLine, Settled, Written
<1>. QED  BY <1>1, <1>2 DEF Returns

\* The name of the call a sender waits for.
LEMMA CallName ==
  ASSUME NEW w \in Workers, NEW id \in Ids, NEW n \in Attempt
  PROVE  <<w, id, n>> \in Calls /\ <<w, id, n>>[2] = id
BY DEF Calls

\* A step that changes one other field of a worker leaves all acknowledgements alone.
LEMMA AcksKept ==
  ASSUME TypeOK, NEW w \in Workers, NEW x,
         \/ ws' = ws
         \/ ws' = [ws EXCEPT ![w].mu = x]
         \/ ws' = [ws EXCEPT ![w].queue = x]
         \/ ws' = [ws EXCEPT ![w].parts = x]
         \/ ws' = [ws EXCEPT ![w].preparing = x]
         \/ ws' = [ws EXCEPT ![w].outputMap = x]
  PROVE  \A v \in Workers : ws'[v].ackMap = ws[v].ackMap
<1>. DEFINE me == ws[w]
<1>1. /\ [me EXCEPT !.mu = x].ackMap = me.ackMap
      /\ [me EXCEPT !.queue = x].ackMap = me.ackMap
      /\ [me EXCEPT !.parts = x].ackMap = me.ackMap
      /\ [me EXCEPT !.preparing = x].ackMap = me.ackMap
      /\ [me EXCEPT !.outputMap = x].ackMap = me.ackMap
  BY Typed DEF WorkerRec
<1>2. \/ ws' = ws
      \/ \E r : ws' = [ws EXCEPT ![w] = r] /\ r.ackMap = me.ackMap
  BY <1>1
<1>. QED  BY <1>2, Typed

\* The steps of a sender.
LEMMA SenderR == ASSUME RInd, NEW t \in Stage1, Sender(t) PROVE RInv'
<1>1. t \in Tasks /\ run[t].at \in Workers /\ run[t].n \in Attempt
  BY Typed DEF Tasks, RInd, DInd, Ind, RunRec
<1>2. ASSUME ScanSend(t) PROVE RInv'
  <2>. DEFINE w == run[t].at
              id == <<t, run[t].seq>>
  <2>1. PICK n \in Attempt : NextStream(w, id, n) /\ Issue(<<w, id, n>>, run[t].line)
    BY <1>2 DEF ScanSend
  <2>2. run[t].line \in LineNo /\ run[t].seq \in LineNo /\ w \in Workers
    BY <1>1, <1>2, Typed, BoundsAssumption DEF RInd, DInd, Ind, ScanInv, ScanSend, LineNo
  <2>3. <<w, id, n>> \in Calls /\ call[<<w, id, n>>].st = "none"
    BY <2>1, <2>2 DEF Calls, Ids, NextStream
  <2>4. UNCHANGED <<outFile, aol, aolFile, ws>>
    BY <1>2 DEF ScanSend, workerVars
  <2>. HIDE DEF w, id
  <2>. QED  BY <2>1, <2>2, <2>3, <2>4, IssueR
<1>3. ASSUME ResendSend(t) PROVE RInv'
  <2>. DEFINE w == run[t].at
              id == Current(t).id
              line == Current(t).line
  <2>1. PICK n \in Attempt : NextStream(w, id, n) /\ Issue(<<w, id, n>>, line)
    BY <1>3 DEF ResendSend
  <2>2. line \in LineNo /\ id \in Ids /\ w \in Workers
    BY <1>1, <1>3, CurrentType, Typed DEF RInd, DInd, Ind, ResendSend
  <2>3. <<w, id, n>> \in Calls /\ call[<<w, id, n>>].st = "none"
    BY <2>1, <2>2 DEF Calls, NextStream
  <2>4. UNCHANGED <<outFile, aol, aolFile, ws>>
    BY <1>3 DEF ResendSend, workerVars
  <2>. HIDE DEF w, id, line
  <2>. QED  BY <2>1, <2>2, <2>3, <2>4, IssueR
<1>4. ASSUME NEW id \in Ids, NEW ack \in BOOLEAN, Returns(<<run[t].at, id, run[t].n>>, ack),
             UNCHANGED <<call, outFile, aolFile, aol>>,
             \A v \in Workers : v # run[t].at => ws'[v] = ws[v],
             ws'[run[t].at].ackMap =
               [ws[run[t].at].ackMap EXCEPT ![id] = IF ack THEN "acked" ELSE "unacked"]
      PROVE  RInv'
  <2>1. ack => Settled(id)
    <3>. DEFINE c == <<run[t].at, id, run[t].n>>
    <3>1. c \in Calls /\ c[2] = id
      BY <1>1, CallName
    <3>2. ack => Returns(c, TRUE)
      BY <1>4
    <3>. HIDE DEF c
    <3>. QED  BY <3>1, <3>2, ReturnsSettled
  <2>2. \A v \in Workers, x \in Ids : ws'[v].ackMap[x] = "acked" =>
          ws[v].ackMap[x] = "acked" \/ Settled(x)
    <3>1. ws[run[t].at].ackMap \in [Ids -> {"absent", "acked", "unacked"}]
      BY <1>1, Typed DEF RInd, DInd, Ind
    <3>2. \A x \in Ids : ws'[run[t].at].ackMap[x] = "acked" =>
            ws[run[t].at].ackMap[x] = "acked" \/ Settled(x)
      BY <1>4, <2>1, <3>1
    <3>. QED  BY <1>4, <3>2
  <2>. QED  BY <1>4, <2>2, CallsRest
<1>5. ASSUME NEW ack \in BOOLEAN, ScanReturn(t, ack) PROVE RInv'
  <2>. DEFINE w == run[t].at
              id == <<t, run[t].seq>>
  <2>1. id \in Ids
    BY <1>1, <1>5, Typed, BoundsAssumption DEF RInd, DInd, Ind, ScanInv, ScanReturn, At, Ids, LineNo
  <2>2. /\ \A v \in Workers : v # w => ws'[v] = ws[v]
        /\ ws'[w].ackMap = [ws[w].ackMap EXCEPT ![id] = IF ack THEN "acked" ELSE "unacked"]
    BY <1>1, <1>5, Typed DEF RInd, DInd, Ind, ScanReturn, WorkerRec
  <2>3. Returns(<<w, id, run[t].n>>, ack) /\ UNCHANGED <<call, outFile, aolFile, aol>>
    BY <1>5 DEF ScanReturn
  <2>. HIDE DEF id
  <2>. QED  BY <1>4, <2>1, <2>2, <2>3
<1>6. ASSUME NEW ack \in BOOLEAN, ResendReturn(t, ack) PROVE RInv'
  <2>. DEFINE w == run[t].at
              id == Current(t).id
  <2>1. id \in Ids
    BY <1>1, <1>6, CurrentType DEF RInd, DInd, Ind, ScanInv, ResendReturn, At
  <2>2. /\ \A v \in Workers : v # w => ws'[v] = ws[v]
        /\ ws'[w].ackMap = [ws[w].ackMap EXCEPT ![id] = IF ack THEN "acked" ELSE "unacked"]
    BY <1>1, <1>6, Typed DEF RInd, DInd, Ind, ResendReturn, WorkerRec
  <2>3. Returns(<<w, id, run[t].n>>, ack) /\ UNCHANGED <<call, outFile, aolFile, aol>>
    BY <1>6 DEF ResendReturn
  <2>. HIDE DEF id
  <2>. QED  BY <1>4, <2>1, <2>2, <2>3
<1>7. ASSUME UNCHANGED <<call, outFile, aolFile, aol>>,
             \A w \in Workers : ws'[w].ackMap = ws[w].ackMap
      PROVE  RInv'
  BY <1>7, CallsRest
<1>8. ASSUME StartTask(t) PROVE RInv'
  <2>1. \A w \in Workers : ws'[w].ackMap = ws[w].ackMap
    BY <1>1, <1>8, Typed DEF StartTask, RInd, DInd, Ind, WorkerRec
  <2>. QED  BY <1>7, <1>8, <2>1 DEF StartTask
<1>9. ASSUME LockForResend(t) \/ ResendEnd(t) PROVE RInv'
  <2>1. \A w \in Workers : ws'[w].ackMap = ws[w].ackMap
    BY <1>1, <1>9, AcksKept DEF LockForResend, ResendEnd, RInd, DInd, Ind
  <2>. QED  BY <1>7, <1>9, <2>1 DEF LockForResend, ResendEnd
<1>10. ASSUME Finish(t) PROVE RInv'
  <2>1. \A w \in Workers : ws'[w].ackMap = ws[w].ackMap
    BY <1>1, <1>10, AcksKept DEF Finish, RInd, DInd, Ind
  <2>. QED  BY <1>7, <1>10, <2>1 DEF Finish
<1>11. ASSUME SkipLine(t) \/ ScanDone(t) \/ Wake(t) PROVE RInv'
  BY <1>7, <1>11 DEF SkipLine, ScanDone, Wake, workerVars
<1>. QED  BY <1>2, <1>3, <1>5, <1>6, <1>8, <1>9, <1>10, <1>11 DEF Sender

\* The steps of a receiver task, of the leader, and a crash.
LEMMA OtherR ==
  ASSUME RInd, (\E t \in Stage2 : Receiver(t)) \/ (\E w \in Workers : Crash(w)) \/ Leader
  PROVE  RInv'
<1>1. \A t \in Stage2 : t \in Tasks /\ run[t].at \in Workers
  BY Typed DEF Tasks, RInd, DInd, Ind
<1>2. ASSUME UNCHANGED <<call, outFile, aolFile>>,
             \A w \in Workers : aol'[w] \subseteq aol[w] \cup aolFile[w],
             \A w \in Workers : \A id \in Ids : ws'[w].ackMap[id] # "acked" \/ ws'[w].ackMap = ws[w].ackMap
      PROVE  RInv'
  BY <1>2, CallsRest
<1>3. ASSUME NEW t \in Stage2, StartTask(t) PROVE RInv'
  <2>1. \A w \in Workers : ws'[w].ackMap = ws[w].ackMap
    BY <1>1, <1>3, Typed DEF StartTask, RInd, DInd, Ind, WorkerRec
  <2>. QED  BY <1>2, <1>3, <2>1 DEF StartTask
<1>4. ASSUME NEW t \in Stage2, PrepareBegin(t) PROVE RInv'
  <2>1. /\ \A w \in Workers : w # run[t].at => ws'[w] = ws[w]
        /\ ws'[run[t].at].ackMap = [id \in Ids |-> "absent"]
    BY <1>1, <1>4, Typed DEF PrepareBegin, RInd, DInd, Ind, WorkerRec
  <2>2. \A w \in Workers : aol'[w] \subseteq aol[w]
    BY <1>1, <1>4 DEF PrepareBegin, RInd, DInd, Ind, TypeOK
  <2>. QED  BY <1>2, <1>4, <2>1, <2>2 DEF PrepareBegin
<1>5. ASSUME NEW t \in Stage2, LoadOutput(t) PROVE RInv'
  <2>1. \A w \in Workers : ws'[w].ackMap = ws[w].ackMap
    <3>1. PICK x : \/ ws' = [ws EXCEPT ![run[t].at].outputMap = x]
                   \/ ws' = [ws EXCEPT ![run[t].at].preparing = x]
      BY <1>5 DEF LoadOutput
    <3>. QED  BY <1>1, <3>1, AcksKept DEF RInd, DInd, Ind
  <2>. QED  BY <1>2, <1>5, <2>1 DEF LoadOutput
<1>6. ASSUME NEW t \in Stage2, LoadAol(t) PROVE RInv'
  <2>1. \A w \in Workers : ws'[w].ackMap = ws[w].ackMap
    BY <1>1, <1>6, Typed DEF LoadAol, RInd, DInd, Ind, WorkerRec
  <2>2. \A w \in Workers : aol'[w] \subseteq aol[w] \cup aolFile[w]
    BY <1>1, <1>6 DEF LoadAol, RInd, DInd, Ind, TypeOK
  <2>. QED  BY <1>2, <1>6, <2>1, <2>2 DEF LoadAol
<1>7. ASSUME NEW w \in Workers, Crash(w) PROVE RInv'
  <2>1. \A c \in Calls :
          \/ call'[c] = call[c] /\ (call[c].to = w => ~InProcess(c))
          \/ /\ call'[c].st = "lost" /\ call[c].st \notin Answered /\ call[c].to = w
    <3>1. \A c \in Calls : call[c] \in CallRec
      BY Typed DEF RInd, DInd, Ind
    <3>2. \A c \in Calls : call'[c] = IF call[c].to = w /\ call[c].st \notin Answered \cup {"none"}
                                        THEN [call[c] EXCEPT !.st = "lost"] ELSE call[c]
      BY <1>7 DEF Crash
    <3>3. \A c \in Calls : [call[c] EXCEPT !.st = "lost"].st = "lost"
      BY <3>1 DEF CallRec
    <3>. QED  BY <3>2, <3>3 DEF Answered, InProcess
  <2>2. /\ \A v \in Workers : aol'[v] = IF v = w THEN {} ELSE aol[v]
        /\ UNCHANGED <<outFile, aolFile>>
    BY <1>7 DEF Crash, RInd, DInd, Ind, TypeOK
  <2>3. \A v \in Workers, id \in Ids : ws'[v].ackMap[id] = "acked" => ws[v].ackMap[id] = "acked"
    <3>1. \A id \in Ids : ws'[w].ackMap[id] = "absent"
      BY <1>7, Typed DEF Crash, InitWorker, RInd, DInd, Ind
    <3>2. \A v \in Workers : v # w => ws'[v] = ws[v]
      BY <1>7, Typed DEF Crash, RInd, DInd, Ind
    <3>. QED  BY <3>1, <3>2
  <2>4. OutGrows
    BY <2>2 DEF OutGrows
  <2>5. \A d \in Calls : LostCall(d) => LostCall(d)'
    BY <2>1 DEF Answered, LostCall
  <2>6. \A d \in Calls : InProcess(d) =>
          (InProcess(d)' /\ call'[d].to = call[d].to) \/ aol'[call[d].to] = {}
    BY <2>1, <2>2 DEF InProcess
  <2>7. \A d \in Calls : call'[d].st = "SUCCESS" => d[2] \in aolFile'[call'[d].to]
    BY <2>1, <2>2 DEF RInd, RInv, LoggedIsWritten
  <2>. QED  BY <2>1, <2>2, <2>3, <2>4, <2>5, <2>6, <2>7, RStep
<1>8. ASSUME NEW t \in Tasks, NEW w \in Workers, Reschedule(t, w) PROVE RInv'
  BY <1>2, <1>8 DEF Reschedule, workerVars
<1>9. ASSUME NEW u \in updates, UpdateTask(u) PROVE RInv'
  <2>1. run[u[1]].at \in Workers
    BY Typed DEF RInd, DInd, Ind, TypeOK
  <2>2. \A w \in Workers : ws'[w].ackMap = ws[w].ackMap
    BY <1>9, <2>1, AcksKept DEF UpdateTask, RInd, DInd, Ind
  <2>. QED  BY <1>2, <1>9, <2>2 DEF UpdateTask
<1>10. ASSUME NEW t \in Stage2, NotifyReceiver(t) PROVE RInv'
  <2>1. \A w \in Workers : ws'[w].ackMap = ws[w].ackMap
    BY <1>1, <1>10, AcksKept DEF NotifyReceiver, RInd, DInd, Ind
  <2>. QED  BY <1>2, <1>10, <2>1 DEF NotifyReceiver
<1>. QED  BY <1>3, <1>4, <1>5, <1>6, <1>7, <1>8, <1>9, <1>10 DEF Receiver, Leader

\* Every step keeps the invariant.
LEMMA NextR == RInd /\ [Next]_vars => RInd'
<1>. SUFFICES ASSUME RInd, [Next]_vars PROVE RInd'
  OBVIOUS
<1>1. DInd'
  BY NextDedup DEF RInd
<1>2. CASE Next
  BY <1>1, <1>2, HandlerR, SenderR, OtherR DEF Next, RInd
<1>3. CASE UNCHANGED vars
  <2>1. RInv'
    BY <1>3, CallsRest DEF vars, workerVars
  <2>. QED  BY <1>1, <2>1 DEF RInd
<1>. QED  BY <1>2, <1>3

\* An id is in a worker's aol file, and SUCCESS is sent for it, only after its result was
\* written to HyDFS.
THEOREM WrittenFirst == Spec => []LoggedIsWritten
<1>1. Init => RInd
  BY InitInd, InitDedup, InitR DEF RInd, DInd
<1>2. RInd => LoggedIsWritten
  BY DEF RInd, RInv
<1>. QED  BY <1>1, <1>2, NextR, PTL DEF Spec

\* An acknowledged tuple that is missing from the output had a call that was answered
\* FAIL: there is no other way to lose one, whatever is retried, late or crashes.
THEOREM LossExplained == Spec => []LossNeedsFailure
<1>1. Init => RInd
  BY InitInd, InitDedup, InitR DEF RInd, DInd
<1>2. RInd => LossNeedsFailure
  BY DEF RInd, RInv, SettledInv, Settled, FailedCall, LostCall, LossNeedsFailure
<1>. QED  BY <1>1, <1>2, NextR, PTL DEF Spec

-----------------------------------------------------------------------------
(* The refinement of DedupDelivery. *)

\* An id and the log it was taken under, for a call that was taken.
Tag(c) == <<c[2], <<call[c].to, call[c].ep>>>>
Source == Workers \X Nat

\* The refinement mapping in terms of calls and lines.
LEMMA Mapping ==
  /\ \A x : x \in Taken <=> \E c \in Calls : call[c].ep # 0 /\ x = Tag(c)
  /\ \A x : x \in Failed <=> \E c \in Calls : LostCall(c) /\ x = Tag(c)
  /\ \A id : id \in Acked <=> \E c \in Calls : call[c].st \in {"SUCCESS", "COMPLETED"} /\ id = c[2]
BY DEF Taken, Failed, Acked, Tag, LostCall

\* A tag belongs to one call, and names an id and a log of the abstract specification.
LEMMA Tags ==
  ASSUME RInd, NEW c \in Calls, call[c].ep # 0
  PROVE  /\ c[2] \in Ids /\ <<call[c].to, call[c].ep>> \in Workers \X (1 .. MaxEpoch)
         /\ \A d \in Calls : Tag(d) = Tag(c) => d = c
<1>1. c[2] \in Ids /\ call[c].to \in Workers /\ call[c].ep \in Nat
  BY CallNames, Typed DEF RInd, DInd, Ind
<1>2. call[c].ep <= epoch[call[c].to] /\ epoch[call[c].to] \in 1 .. MaxEpoch
  BY <1>1 DEF RInd, DInd, Ind, TypeOK, AolDiscipline
<1>3. call[c].ep \in 1 .. MaxEpoch
  BY <1>1, <1>2, BoundsAssumption
<1>4. ASSUME NEW d \in Calls, Tag(d) = Tag(c) PROVE d = c
  <2>1. d[2] = c[2] /\ call[d].to = call[c].to /\ call[d].ep = call[c].ep
    BY <1>4 DEF Tag
  <2>. QED  BY <2>1 DEF RInd, DInd, AolDiscipline
<1>. QED  BY <1>1, <1>3, <1>4

\* What is delivered are the lines of the output, and each belongs to a call that is past
\* its write.
LEMMA DeliveredLines ==
  ASSUME RInd
  PROVE  /\ Delivered \in Seq(Ids \X Source) /\ Len(Delivered) = Len(outFile)
         /\ \A i \in 1 .. Len(Delivered) : \E c \in Calls :
              /\ call[c].ep # 0 /\ Delivered[i] = Tag(c)
              /\ call[c].st \in {"log", "SUCCESS", "FAIL", "lost"}
<1>1. outFile \in Seq(OutRec)
  BY DEF RInd, DInd, Ind, TypeOK
<1>2. Len(outFile) \in Nat /\ \A i \in 1 .. Len(outFile) : outFile[i] \in OutRec
  BY <1>1
<1>3. \A i \in 1 .. Len(outFile) :
        <<outFile[i].id, <<outFile[i].by, outFile[i].ep>>>> \in Ids \X Source
  BY <1>2 DEF OutRec, Source
<1>4. Delivered \in [1 .. Len(outFile) -> Ids \X Source]
  BY <1>3 DEF Delivered
<1>5. Delivered \in Seq(Ids \X Source) /\ Len(Delivered) = Len(outFile)
  BY <1>2, <1>4
<1>6. ASSUME NEW i \in 1 .. Len(outFile)
      PROVE  \E c \in Calls :
              /\ call[c].ep # 0 /\ Delivered[i] = Tag(c)
              /\ call[c].st \in {"log", "SUCCESS", "FAIL", "lost"}
  <2>1. PICK c \in Calls :
          /\ c[2] = outFile[i].id /\ call[c].to = outFile[i].by
          /\ call[c].ep = outFile[i].ep /\ call[c].ep # 0
          /\ call[c].st \in {"log", "SUCCESS", "FAIL", "lost"}
    BY DEF RInd, DInd, AolDiscipline
  <2>2. Delivered[i] = Tag(c)
    BY <2>1 DEF Delivered, Tag
  <2>. QED  BY <2>1, <2>2
<1>7. 1 .. Len(Delivered) = 1 .. Len(outFile)
  BY <1>5
<1>8. \A i \in 1 .. Len(Delivered) : \E c \in Calls :
        /\ call[c].ep # 0 /\ Delivered[i] = Tag(c)
        /\ call[c].st \in {"log", "SUCCESS", "FAIL", "lost"}
  BY <1>6, <1>7, Zenon
<1>. QED  BY <1>5, <1>8

\* A step that writes, takes, fails and answers nothing changes nothing of the mapping.
LEMMA MapKept ==
  ASSUME UNCHANGED outFile,
         \A d \in Calls :
           /\ call'[d].ep = call[d].ep
           /\ call[d].ep # 0 => call'[d].to = call[d].to
           /\ LostCall(d)' <=> LostCall(d)
           /\ call'[d].st \in {"SUCCESS", "COMPLETED"} <=> call[d].st \in {"SUCCESS", "COMPLETED"}
  PROVE  UNCHANGED Dedup!dvars
<1>1. \A d \in Calls : call[d].ep # 0 => Tag(d)' = Tag(d)
  BY DEF Tag
<1>2. \A x : x \in Taken' <=> x \in Taken
  BY <1>1 DEF Taken, Tag
<1>3. \A x : x \in Failed' <=> x \in Failed
  BY <1>1 DEF Failed, Tag, LostCall
<1>4. \A x : x \in Acked' <=> x \in Acked
  BY DEF Acked
<1>5. Delivered' = Delivered
  BY DEF Delivered
<1>6. Taken' = Taken /\ Failed' = Failed /\ Acked' = Acked
  BY <1>2, <1>3, <1>4
<1>. QED  BY <1>5, <1>6 DEF Dedup!dvars

\* A call is taken, and perhaps fails at once.
LEMMA TakeMaps ==
  ASSUME RInd, NEW c \in Calls, UNCHANGED outFile,
         call[c].st = "ready", c[2] \notin aol[call[c].to],
         call'[c].to = call[c].to, call'[c].ep = epoch[call[c].to], call'[c].st \in {"taken", "FAIL"},
         \A d \in Calls : d # c => call'[d] = call[d]
  PROVE  Dedup!Take(c[2], <<call[c].to, epoch[call[c].to]>>)
<1>. DEFINE x == <<c[2], <<call[c].to, epoch[call[c].to]>>>>
<1>1. call[c].ep = 0 /\ call[c].to \in Workers /\ epoch[call[c].to] # 0
  BY Typed DEF RInd, DInd, Ind, TypeOK, AolDiscipline
<1>2. \A d \in Calls : call[d].ep # 0 => Tag(d) # x
  BY DEF RInd, DInd, AolDiscipline, Tag
<1>3. x \notin Taken
  BY <1>2, Mapping
<1>4. Tag(c)' = x /\ \A d \in Calls : d # c => Tag(d)' = Tag(d)
  BY DEF Tag
<1>5. \A y : y \in Taken' <=> \E d \in Calls : call'[d].ep # 0 /\ y = Tag(d)'
  BY DEF Taken, Tag
<1>6. \A y : y \in Failed' <=> \E d \in Calls : LostCall(d)' /\ y = Tag(d)'
  BY DEF Failed, Tag, LostCall
<1>7. \A y : y \in Taken' <=> y \in Taken \/ y = x
  BY <1>1, <1>4, <1>5, Mapping
<1>8. call'[c].st = "FAIL" => \A y : y \in Failed' <=> y \in Failed \/ y = x
  BY <1>1, <1>4, <1>6, Mapping DEF LostCall
<1>9. call'[c].st = "taken" => \A y : y \in Failed' <=> y \in Failed
  BY <1>1, <1>4, <1>6, Mapping DEF LostCall
<1>10. \A y : y \in Acked' <=> y \in Acked
  BY DEF Acked
<1>11. Taken' = Taken \cup {x} /\ Failed' \in {Failed, Failed \cup {x}} /\ Acked' = Acked
  <2>. HIDE DEF x
  <2>. QED  BY <1>7, <1>8, <1>9, <1>10
<1>12. Delivered' = Delivered
  BY DEF Delivered
<1>. QED  BY <1>3, <1>11, <1>12 DEF Dedup!Take

\* A call that was taken and is not answered has not failed.
LEMMA NotYetFailed ==
  ASSUME RInd, NEW c \in Calls, InProcess(c)
  PROVE  call[c].ep # 0 /\ Tag(c) \in Taken \ Failed
<1>1. call[c].ep # 0
  BY DEF RInd, DInd, AolDiscipline
<1>2. Tag(c) \in Taken
  BY <1>1, Mapping
<1>3. \A d \in Calls : Tag(d) = Tag(c) => d = c
  BY <1>1, Tags
<1>4. Tag(c) \notin Failed
  BY <1>3, Mapping DEF LostCall, InProcess
<1>. QED  BY <1>1, <1>2, <1>4

\* Until it is past its write it is not delivered either.
LEMMA NotYetDelivered ==
  ASSUME RInd, NEW c \in Calls, call[c].st \in {"taken", "write"}
  PROVE  ~Dedup!InOutput(Tag(c))
<1>1. call[c].ep # 0
  BY NotYetFailed DEF InProcess
<1>2. \A d \in Calls : Tag(d) = Tag(c) => d = c
  BY <1>1, Tags
<1>3. \A i \in 1 .. Len(Delivered) : Delivered[i] # Tag(c)
  BY <1>2, DeliveredLines
<1>. QED  BY <1>3 DEF Dedup!InOutput

\* How the sets of the mapping change when a taken call moves on.
LEMMA MoveMaps ==
  ASSUME RInd, NEW c \in Calls, InProcess(c),
         call'[c].to = call[c].to, call'[c].ep = call[c].ep,
         call'[c].st \in {"log", "FAIL"},
         \A d \in Calls : d # c => call'[d] = call[d]
  PROVE  /\ Taken' = Taken /\ Acked' = Acked
         /\ Failed' = IF call'[c].st = "FAIL" THEN Failed \cup {Tag(c)} ELSE Failed
<1>1. \A d \in Calls : Tag(d)' = Tag(d) /\ call'[d].ep = call[d].ep
  BY DEF Tag
<1>2. call[c].ep # 0
  BY NotYetFailed
<1>3. \A y : y \in Taken' <=> \E d \in Calls : call'[d].ep # 0 /\ y = Tag(d)'
  BY DEF Taken, Tag
<1>4. \A y : y \in Failed' <=> \E d \in Calls : LostCall(d)' /\ y = Tag(d)'
  BY DEF Failed, Tag, LostCall
<1>5. \A y : y \in Taken' <=> y \in Taken
  BY <1>1, <1>3, Mapping
<1>6. \A y : y \in Acked' <=> y \in Acked
  BY DEF Acked, InProcess
<1>7. call'[c].st = "FAIL" => \A y : y \in Failed' <=> y \in Failed \/ y = Tag(c)
  BY <1>1, <1>2, <1>4, Mapping DEF LostCall
<1>8. call'[c].st = "log" => \A y : y \in Failed' <=> y \in Failed
  BY <1>1, <1>4, Mapping DEF LostCall, InProcess
<1>. QED  BY <1>5, <1>6, <1>7, <1>8

\* Append as a function.
LEMMA AppendIs ==
  ASSUME NEW S, NEW s \in Seq(S), NEW x \in S
  PROVE  Append(s, x) = [i \in 1 .. Len(s) + 1 |-> IF i = Len(s) + 1 THEN x ELSE s[i]]
<1>1. /\ Append(s, x) \in Seq(S) /\ Len(Append(s, x)) = Len(s) + 1 /\ Len(s) \in Nat
      /\ Append(s, x)[Len(s) + 1] = x /\ \A i \in 1 .. Len(s) : Append(s, x)[i] = s[i]
  BY AppendProperties, LenProperties
<1>2. Append(s, x) \in [1 .. Len(s) + 1 -> S]
  BY <1>1, LenProperties
<1>3. \A i \in 1 .. Len(s) + 1 : Append(s, x)[i] = IF i = Len(s) + 1 THEN x ELSE s[i]
  BY <1>1
<1>. QED  BY <1>2, <1>3

\* The result of a call is written, without or with an error that the sender is told.
LEMMA DeliverMaps ==
  ASSUME RInd, NEW c \in Calls, call[c].st = "write", outFile' = Append(outFile, OutLine(c)),
         call'[c].to = call[c].to, call'[c].ep = call[c].ep, call'[c].st \in {"log", "FAIL"},
         \A d \in Calls : d # c => call'[d] = call[d]
  PROVE  Dedup!Deliver(c[2], <<call[c].to, call[c].ep>>)
<1>1. /\ Taken' = Taken /\ Acked' = Acked
      /\ Failed' = IF call'[c].st = "FAIL" THEN Failed \cup {Tag(c)} ELSE Failed
  BY MoveMaps DEF InProcess
<1>2. Tag(c) \in Taken \ Failed /\ ~Dedup!InOutput(Tag(c))
  BY NotYetFailed, NotYetDelivered DEF InProcess
<1>3. /\ outFile \in Seq(OutRec) /\ OutLine(c) \in OutRec
      /\ OutLine(c).id = c[2] /\ OutLine(c).by = call[c].to /\ OutLine(c).ep = call[c].ep
  BY OutLineType DEF RInd, DInd, Ind, TypeOK, OutLine
<1>4. /\ Len(outFile) \in Nat /\ Len(outFile') = Len(outFile) + 1
      /\ outFile'[Len(outFile) + 1] = OutLine(c)
      /\ \A i \in 1 .. Len(outFile) : outFile'[i] = outFile[i]
  BY <1>3, AppendProperties
<1>5. Delivered' = Append(Delivered, Tag(c))
  <2>1. Delivered' = [i \in 1 .. Len(outFile) + 1 |->
                        IF i = Len(outFile) + 1 THEN Tag(c) ELSE Delivered[i]]
    BY <1>3, <1>4 DEF Delivered, Tag
  <2>2. Delivered \in Seq(Ids \X Source) /\ Len(Delivered) = Len(outFile)
    BY DeliveredLines
  <2>3. Tag(c) \in Ids \X Source
    BY CallNames, Typed, Zenon DEF RInd, DInd, Ind, Tag, Source, CallRec
  <2>. DEFINE T == Tag(c)
              TS == Ids \X Source
  <2>4. Delivered \in Seq(TS) /\ T \in TS
    BY <2>2, <2>3
  <2>. HIDE DEF T, TS
  <2>5. Append(Delivered, T) = [i \in 1 .. Len(Delivered) + 1 |->
                        IF i = Len(Delivered) + 1 THEN T ELSE Delivered[i]]
    BY <2>4, AppendIs
  <2>. QED  BY <2>1, <2>2, <2>5 DEF T
<1>. QED  BY <1>1, <1>2, <1>5 DEF Dedup!Deliver, Tag

\* A taken call fails and nothing more is written for it.
LEMMA FailMaps ==
  ASSUME RInd, NEW c \in Calls, InProcess(c), UNCHANGED outFile,
         call'[c].to = call[c].to, call'[c].ep = call[c].ep, call'[c].st = "FAIL",
         \A d \in Calls : d # c => call'[d] = call[d]
  PROVE  Dedup!Fail(c[2], <<call[c].to, call[c].ep>>)
<1>1. Taken' = Taken /\ Acked' = Acked /\ Failed' = Failed \cup {Tag(c)}
  BY MoveMaps
<1>2. Tag(c) \in Taken \ Failed
  BY NotYetFailed
<1>3. Delivered' = Delivered
  BY DEF Delivered
<1>. QED  BY <1>1, <1>2, <1>3 DEF Dedup!Fail, Tag

\* A call is answered SUCCESS or COMPLETED: its id was delivered or failed before.
LEMMA AcknowledgeMaps ==
  ASSUME RInd, NEW c \in Calls, UNCHANGED outFile, Settled(c[2]), call[c].st \in {"ready", "log"},
         call'[c].to = call[c].to, call'[c].ep = call[c].ep, call'[c].st \in {"SUCCESS", "COMPLETED"},
         \A d \in Calls : d # c => call'[d] = call[d]
  PROVE  Dedup!Acknowledge(c[2])
<1>1. \A d \in Calls : Tag(d)' = Tag(d) /\ call'[d].ep = call[d].ep
  BY DEF Tag
<1>2. \A y : y \in Taken' <=> y \in Taken
  BY <1>1 DEF Taken, Tag
<1>3. \A y : y \in Failed' <=> y \in Failed
  BY <1>1 DEF Failed, Tag, LostCall
<1>4. \A id : id \in Acked' <=> \E d \in Calls : call'[d].st \in {"SUCCESS", "COMPLETED"} /\ id = d[2]
  BY DEF Acked
<1>5. \A id : id \in Acked' <=> id \in Acked \/ id = c[2]
  BY <1>4, Mapping
<1>6. Delivered' = Delivered
  BY DEF Delivered
<1>7. \E log \in Workers \X (1 .. MaxEpoch) :
        <<c[2], log>> \in Failed \/ Dedup!InOutput(<<c[2], log>>)
  <2>1. CASE Written(c[2])
    <3>1. PICK i \in 1 .. Len(outFile) : outFile[i].id = c[2]
      BY <2>1 DEF Written
    <3>2. i \in 1 .. Len(Delivered) /\ Delivered[i][1] = c[2]
      BY <3>1, DeliveredLines DEF Delivered
    <3>3. PICK d \in Calls : call[d].ep # 0 /\ Delivered[i] = Tag(d)
      BY <3>2, DeliveredLines
    <3>4. d[2] = c[2] /\ <<call[d].to, call[d].ep>> \in Workers \X (1 .. MaxEpoch)
      BY <3>2, <3>3, Tags DEF Tag
    <3>5. Dedup!InOutput(<<c[2], <<call[d].to, call[d].ep>>>>)
      BY <3>2, <3>3, <3>4 DEF Dedup!InOutput, Tag
    <3>. QED  BY <3>4, <3>5
  <2>2. CASE FailedCall(c[2])
    <3>1. PICK d \in Calls : d[2] = c[2] /\ LostCall(d)
      BY <2>2 DEF FailedCall
    <3>2. call[d].ep # 0
      BY <3>1 DEF LostCall
    <3>3. Tag(d) \in Failed
      BY <3>1, <3>2, Mapping
    <3>4. <<call[d].to, call[d].ep>> \in Workers \X (1 .. MaxEpoch)
      BY <3>2, Tags
    <3>. QED  BY <3>1, <3>3, <3>4 DEF Tag
  <2>. QED  BY <2>1, <2>2 DEF Settled
<1>8. Taken' = Taken /\ Failed' = Failed /\ Acked' = Acked \cup {c[2]}
  BY <1>2, <1>3, <1>5
<1>. QED  BY <1>6, <1>7, <1>8 DEF Dedup!Acknowledge

\* The steps of a handler.
LEMMA HandlerMaps == ASSUME RInd, NEW c \in Calls, Handler(c) PROVE [Dedup!Next]_(Dedup!dvars)
<1>1. call \in [Calls -> CallRec] /\ call[c] \in CallRec /\ call[c].to \in Workers /\ c[2] \in Ids
  BY Typed, CallNames DEF RInd, DInd, Ind
<1>2. \A st \in Status : Becomes(c, st) =>
        /\ call'[c].st = st /\ call'[c].to = call[c].to /\ call'[c].ep = call[c].ep
        /\ \A d \in Calls : d # c => call'[d] = call[d]
  BY <1>1 DEF Becomes, CallRec
<1>3. InProcess(c) => <<call[c].to, call[c].ep>> \in Workers \X (1 .. MaxEpoch)
  BY NotYetFailed, Tags
<1>4. <<call[c].to, epoch[call[c].to]>> \in Workers \X (1 .. MaxEpoch)
  BY <1>1 DEF RInd, DInd, Ind, TypeOK
<1>5. ASSUME Accept(c) PROVE UNCHANGED Dedup!dvars
  <2>1. /\ call'[c].st = "ready" /\ call[c].st = "sent" /\ call'[c].to = call[c].to
        /\ call'[c].ep = call[c].ep /\ \A d \in Calls : d # c => call'[d] = call[d]
    BY <1>2, <1>5 DEF Accept, Is, Status
  <2>. QED  BY <1>5, <2>1, MapKept DEF Accept, LostCall
<1>6. ASSUME Duplicate(c) PROVE Dedup!Acknowledge(c[2])
  <2>1. /\ call'[c].st = "COMPLETED" /\ call[c].st = "ready" /\ call'[c].to = call[c].to
        /\ call'[c].ep = call[c].ep /\ \A d \in Calls : d # c => call'[d] = call[d]
    BY <1>2, <1>6 DEF Duplicate, Is, Status
  <2>2. Settled(c[2])
    <3>1. c[2] \in aol[call[c].to] /\ ~ws[call[c].to].mu
      BY <1>6 DEF Duplicate, Seen
    <3>2. \A d \in Calls : InProcess(d) => call[d].to # call[c].to
      BY <3>1 DEF RInd, DInd, Ind, LockDiscipline
    <3>. QED  BY <1>1, <3>1, <3>2 DEF RInd, RInv, SettledInv
  <2>. QED  BY <1>6, <2>1, <2>2, AcknowledgeMaps DEF Duplicate
<1>7. ASSUME NoReceiverTask(c) \/ Take(c)
      PROVE  Dedup!Take(c[2], <<call[c].to, epoch[call[c].to]>>)
  <2>1. /\ call[c].st = "ready" /\ call'[c].st \in {"FAIL", "taken"}
        /\ call'[c].ep = epoch[call[c].to] /\ call'[c].to = call[c].to
        /\ \A d \in Calls : d # c => call'[d] = call[d]
    BY <1>1, <1>7 DEF NoReceiverTask, Take, CallRec, Is
  <2>. QED  BY <1>7, <2>1, TakeMaps DEF NoReceiverTask, Take, Seen
<1>8. ASSUME Op2(c) PROVE UNCHANGED Dedup!dvars
  <2>1. /\ call[c].st = "taken" /\ call'[c].st = "write" /\ call'[c].ep = call[c].ep
        /\ call'[c].to = call[c].to /\ \A d \in Calls : d # c => call'[d] = call[d]
    BY <1>1, <1>8 DEF Op2, CallRec, Is
  <2>. QED  BY <1>8, <2>1, MapKept DEF Op2, LostCall
<1>9. ASSUME Op2Error(c) PROVE Dedup!Fail(c[2], <<call[c].to, call[c].ep>>)
  <2>1. /\ call[c].st = "taken" /\ call'[c].st = "FAIL" /\ call'[c].ep = call[c].ep
        /\ call'[c].to = call[c].to /\ \A d \in Calls : d # c => call'[d] = call[d]
    BY <1>2, <1>9 DEF Op2Error, Is, Status
  <2>. QED  BY <1>9, <2>1, FailMaps DEF Op2Error, InProcess
<1>10. ASSUME WriteOutput(c) PROVE Dedup!Deliver(c[2], <<call[c].to, call[c].ep>>)
  <2>1. /\ call[c].st = "write" /\ call'[c].st = "log" /\ call'[c].ep = call[c].ep
        /\ call'[c].to = call[c].to /\ \A d \in Calls : d # c => call'[d] = call[d]
    BY <1>2, <1>10 DEF WriteOutput, Is, Status
  <2>. QED  BY <1>10, <2>1, DeliverMaps DEF WriteOutput
<1>11. ASSUME WriteError(c)
       PROVE  \/ Dedup!Deliver(c[2], <<call[c].to, call[c].ep>>)
              \/ Dedup!Fail(c[2], <<call[c].to, call[c].ep>>)
  <2>1. /\ call[c].st = "write" /\ call'[c].st = "FAIL" /\ call'[c].ep = call[c].ep
        /\ call'[c].to = call[c].to /\ \A d \in Calls : d # c => call'[d] = call[d]
    BY <1>2, <1>11 DEF WriteError, Is, Status
  <2>2. CASE UNCHANGED outFile
    BY <2>1, <2>2, FailMaps DEF InProcess
  <2>3. CASE outFile' = Append(outFile, OutLine(c))
    BY <2>1, <2>3, DeliverMaps
  <2>. QED  BY <1>11, <2>2, <2>3 DEF WriteError
<1>12. ASSUME LogAndAck(c) PROVE Dedup!Acknowledge(c[2])
  <2>1. /\ call[c].st = "log" /\ call'[c].st = "SUCCESS" /\ call'[c].ep = call[c].ep
        /\ call'[c].to = call[c].to /\ \A d \in Calls : d # c => call'[d] = call[d]
    BY <1>2, <1>12 DEF LogAndAck, Is, Status
  <2>2. Settled(c[2])
    BY <2>1 DEF RInd, RInv, WriteInv, HasLine, Settled, Written
  <2>. QED  BY <1>12, <2>1, <2>2, AcknowledgeMaps DEF LogAndAck
<1>13. ASSUME OpenError(c) PROVE UNCHANGED Dedup!dvars
  <2>1. /\ call'[c].st = "FAIL" /\ call[c].st = "ready" /\ call'[c].to = call[c].to
        /\ call'[c].ep = call[c].ep /\ \A d \in Calls : d # c => call'[d] = call[d]
    BY <1>2, <1>13 DEF OpenError, Is, Status
  <2>2. call[c].ep = 0
    BY <2>1 DEF RInd, DInd, AolDiscipline
  <2>. QED  BY <1>13, <2>1, <2>2, MapKept DEF OpenError, LostCall
<1>14. ASSUME LogError(c) PROVE Dedup!Fail(c[2], <<call[c].to, call[c].ep>>)
  <2>1. /\ call[c].st = "log" /\ call'[c].st = "FAIL" /\ call'[c].ep = call[c].ep
        /\ call'[c].to = call[c].to /\ \A d \in Calls : d # c => call'[d] = call[d]
    BY <1>2, <1>14 DEF LogError, Is, Status
  <2>. QED  BY <1>14, <2>1, FailMaps DEF LogError, InProcess
<1>15. (Op2Error(c) \/ WriteOutput(c) \/ WriteError(c) \/ LogError(c)) => InProcess(c)
  BY DEF Op2Error, WriteOutput, WriteError, LogError, Is, InProcess
<1>. QED  BY <1>1, <1>3, <1>4, <1>5, <1>6, <1>7, <1>8, <1>9, <1>10, <1>11, <1>12, <1>13,
             <1>14, <1>15
          DEF Handler, Dedup!Next

\* A stream that is opened is not taken yet.
LEMMA IssueMaps ==
  ASSUME RInd, NEW c \in Calls, NEW line, Issue(c, line), call[c].st = "none", UNCHANGED outFile
  PROVE  UNCHANGED Dedup!dvars
<1>1. /\ call'[c].st \in {"sent", "lost"} /\ call'[c].ep = 0
      /\ \A d \in Calls : d # c => call'[d] = call[d]
  BY Typed DEF RInd, DInd, Ind, Issue
<1>2. call[c].ep = 0
  BY DEF RInd, DInd, AolDiscipline
<1>. QED  BY <1>1, <1>2, MapKept DEF LostCall

\* The steps of everybody else are steps of nobody in the abstract specification.
LEMMA OtherMaps ==
  ASSUME RInd,
         \/ \E t \in Stage1 : Sender(t)
         \/ \E t \in Stage2 : Receiver(t)
         \/ \E w \in Workers : Crash(w)
         \/ Leader
  PROVE  UNCHANGED Dedup!dvars
<1>1. \A t \in Stage1 : t \in Tasks /\ run[t].at \in Workers
  BY Typed DEF Tasks, RInd, DInd, Ind
<1>2. ASSUME NEW t \in Stage1, ScanSend(t) PROVE UNCHANGED Dedup!dvars
  <2>. DEFINE w == run[t].at
              id == <<t, run[t].seq>>
  <2>1. PICK n \in Attempt : NextStream(w, id, n) /\ Issue(<<w, id, n>>, run[t].line)
    BY <1>2 DEF ScanSend
  <2>2. run[t].line \in LineNo /\ run[t].seq \in LineNo /\ w \in Workers /\ t \in Tasks
    BY <1>1, <1>2, Typed, BoundsAssumption DEF RInd, DInd, Ind, ScanInv, ScanSend, LineNo
  <2>3. <<w, id, n>> \in Calls /\ call[<<w, id, n>>].st = "none"
    BY <2>1, <2>2 DEF Calls, Ids, NextStream
  <2>4. UNCHANGED outFile
    BY <1>2 DEF ScanSend
  <2>. HIDE DEF w, id
  <2>. QED  BY <2>1, <2>3, <2>4, IssueMaps
<1>3. ASSUME NEW t \in Stage1, ResendSend(t) PROVE UNCHANGED Dedup!dvars
  <2>. DEFINE w == run[t].at
              id == Current(t).id
              line == Current(t).line
  <2>1. PICK n \in Attempt : NextStream(w, id, n) /\ Issue(<<w, id, n>>, line)
    BY <1>3 DEF ResendSend
  <2>2. id \in Ids /\ w \in Workers
    BY <1>1, <1>3, CurrentType, Typed DEF RInd, DInd, Ind, ResendSend
  <2>3. <<w, id, n>> \in Calls /\ call[<<w, id, n>>].st = "none"
    BY <2>1, <2>2 DEF Calls, NextStream
  <2>4. UNCHANGED outFile
    BY <1>3 DEF ResendSend
  <2>. HIDE DEF w, id, line
  <2>. QED  BY <2>1, <2>3, <2>4, IssueMaps
<1>4. ASSUME UNCHANGED <<call, outFile>> PROVE UNCHANGED Dedup!dvars
  BY <1>4, MapKept DEF LostCall
<1>5. ASSUME NEW t \in Stage1, Sender(t) PROVE UNCHANGED Dedup!dvars
  <2>1. ScanSend(t) \/ ResendSend(t) \/ UNCHANGED <<call, outFile>>
    BY <1>5 DEF Sender, StartTask, SkipLine, ScanDone, ScanReturn, ResendReturn, Wake,
                LockForResend, ResendEnd, Finish
  <2>. QED  BY <1>2, <1>3, <1>4, <2>1
<1>6. ASSUME NEW t \in Stage2, Receiver(t) PROVE UNCHANGED Dedup!dvars
  BY <1>4, <1>6 DEF Receiver, StartTask, PrepareBegin, LoadOutput, LoadAol
<1>7. ASSUME Leader PROVE UNCHANGED Dedup!dvars
  BY <1>4, <1>7 DEF Leader, Reschedule, UpdateTask, NotifyReceiver
<1>8. ASSUME NEW w \in Workers, Crash(w) PROVE UNCHANGED Dedup!dvars
  <2>1. ASSUME NEW d \in Calls
        PROVE  \/ call'[d] = call[d]
               \/ /\ call'[d].st = "lost" /\ call'[d].to = call[d].to /\ call'[d].ep = call[d].ep
                  /\ call[d].st \notin Answered
    <3>1. call[d] \in CallRec
      BY Typed DEF RInd, DInd, Ind
    <3>2. call'[d] = IF call[d].to = w /\ call[d].st \notin Answered \cup {"none"}
                       THEN [call[d] EXCEPT !.st = "lost"] ELSE call[d]
      BY <1>8 DEF Crash
    <3>3. /\ [call[d] EXCEPT !.st = "lost"].st = "lost"
          /\ [call[d] EXCEPT !.st = "lost"].to = call[d].to
          /\ [call[d] EXCEPT !.st = "lost"].ep = call[d].ep
      BY <3>1 DEF CallRec
    <3>. QED  BY <3>2, <3>3
  <2>2. UNCHANGED outFile
    BY <1>8 DEF Crash
  <2>. QED  BY <2>1, <2>2, MapKept DEF Answered, LostCall
<1>. QED  BY <1>5, <1>6, <1>7, <1>8

\* The exchange implements the abstract delivery with duplicate detection: an id is taken
\* once under a log, its line is written at most once and before any answer, and an answer
\* is given only to what was written or failed.
THEOREM Refinement == Spec => ImplementsDedup
<1>1. Init => RInd
  BY InitInd, InitDedup, InitR DEF RInd, DInd
<1>2. Init => Dedup!Init
  <2>. SUFFICES ASSUME Init PROVE Dedup!Init
    OBVIOUS
  <2>1. outFile = <<>> /\ \A c \in Calls : call[c].ep = 0 /\ call[c].st = "none"
    BY DEF Init, NoCall
  <2>2. Taken = {} /\ Failed = {} /\ Acked = {}
    BY <2>1, Mapping DEF LostCall
  <2>3. Delivered = <<>>
    BY <2>1 DEF Delivered
  <2>. QED  BY <2>2, <2>3 DEF Dedup!Init
<1>3. RInd /\ [Next]_vars => [Dedup!Next]_(Dedup!dvars)
  <2>. SUFFICES ASSUME RInd, [Next]_vars PROVE [Dedup!Next]_(Dedup!dvars)
    OBVIOUS
  <2>1. CASE UNCHANGED vars
    BY <2>1, MapKept DEF vars, LostCall
  <2>. QED  BY <2>1, HandlerMaps, OtherMaps DEF Next
<1>. QED  BY <1>1, <1>2, <1>3, NextR, PTL DEF Spec, ImplementsDedup, Dedup!Spec
=============================================================================
