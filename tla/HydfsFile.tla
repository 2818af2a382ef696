------------------------------ MODULE HydfsFile ------------------------------
(***************************************************************************)
(* One file of HyDFS (src/HyDfs).  A write goes to the first of the three  *)
(* nodes FileRouting gives, which puts it in its append-only log and then  *)
(* in the logs of the other two; every node merges its log into its copy   *)
(* of the file every 10 s, and before it answers a read or a merge request *)
(* if the log was never merged.  "merge" overwrites the replicas with the  *)
(* file of the primary.  20 s after a node failed the others send their    *)
(* copies, unless the file is a .csv, to the nodes that take its place.    *)
(*                                                                         *)
(* The bytes of a write are the request itself; an absent file is <<>>,    *)
(* and so is one that is empty, told apart by the set of these.  The       *)
(* membership lists of the nodes are one list, view, that loses a failed   *)
(* node some time after it failed.  The reader is a node without a copy: a *)
(* .csv is read from the reader's own.  A replica answers one merge call   *)
(* at a time.                                                              *)
(***************************************************************************)
EXTENDS Naturals, Sequences, FiniteSets, SequencesExt, HydfsRing

CONSTANTS
  Nodes,       \* the nodes, as their peer ids
  FileHash,    \* the hash of the file's name
  Csv,         \* the name ends in .csv
  Reqs,        \* the write requests
  Creates,     \* those among them that are CREATE, the others APPEND
  Before,      \* the requests done, merged and replicated before, in order
  Timers,      \* the nodes whose 10 s timer goes off
  MaxReads,    \* bound on the reads
  MaxMerges,   \* bound on merge requests per replica
  MaxMerged,   \* bound on the replicas they go to
  FaultKinds,  \* which calls may fail: the append to a log ("log"), the write
               \* to a file ("write"), the merge of a log half way ("flush"),
               \* the call to a replica ("rpc"), a step of MergeFile ("merge")
  MaxFaults,   \* bound on these failures
  MaxCrashes   \* bound on failed nodes

Slots == 1 .. 2            \* the two calls of ReplicateLogEntryToNeighbors

ASSUME HydfsAssumption ==
  /\ Nodes \subseteq Nat /\ IsFiniteSet(Nodes) /\ Cardinality(Nodes) >= 3
  /\ FileHash \in Nat /\ Csv \in BOOLEAN
  /\ Creates \subseteq Reqs /\ Timers \subseteq Nodes
  /\ Before \in Seq(Reqs) /\ \A i, j \in DOMAIN Before : Before[i] = Before[j] => i = j
  /\ FaultKinds \subseteq {"log", "write", "flush", "rpc", "merge"}
  /\ {MaxReads, MaxMerges, MaxMerged, MaxFaults, MaxCrashes} \subseteq Nat
  /\ MaxCrashes < Cardinality(Nodes)

VARIABLES
  live, view,   \* the running nodes; the members of the membership list
  file,         \* file[n]: the copy of node n
  empty,        \* the nodes with a copy that was created empty
  log,          \* log[n]: the entries of its append-only log
  mapped,       \* the log has an entry in Mapper
  isRead,       \* its IsRead
  flush,        \* the ReadLog that holds logMutex of n: next entry and caller
  req,          \* the write requests: client and handler at the primary
  rpc,          \* rpc[q, k]: the k-th ReplicateLogEntry call of request q
  read,         \* the reader
  merge,        \* merge[n]: the MergeFile call to replica n
  failed,       \* failed[n]: the failures node n has collected
  repair,       \* repair[n]: the copies n sends because of them
  faults, errs, \* faults so far, and of which kind
  missed        \* history: a copy that a merge was about to write was looked for

disk == <<file, empty, log, mapped, isRead>>
failures == <<failed, repair>>
vars == <<live, view, disk, flush, req, rpc, read, merge, failures, faults, errs, missed>>

Idle == [i |-> 0, by |-> "none"]

Routing == FileRouting(FileHash, view)
Primary == Routing[1]
Replicas == Tail(Routing)

Done(q) == q \in Range(Before)

Init ==
  /\ live = Nodes /\ view = Nodes
  /\ file = [n \in Nodes |-> IF n \in Range(Routing) THEN Before ELSE <<>>]
  /\ empty = {}
  /\ log = [n \in Nodes |-> <<>>]
  /\ mapped = [n \in Nodes |-> file[n] # <<>>]
  /\ isRead = mapped
  /\ flush = [n \in Nodes |-> Idle]
  /\ req = [q \in Reqs |-> [st |-> IF Done(q) THEN "acked" ELSE "new",
                            at |-> Primary, to |-> Replicas, k |-> IF Done(q) THEN 3 ELSE 1]]
  /\ rpc = [c \in Reqs \X Slots |-> [st |-> IF Done(c[1]) THEN "logged" ELSE "none",
                                     to |-> Replicas[c[2]]]]
  /\ read = [st |-> "idle", at |-> Primary, want |-> {}, got |-> <<>>, n |-> 0,
             first |-> FALSE]
  /\ merge = [n \in Nodes |-> [st |-> "none", data |-> <<>>, n |-> 0, calm |-> FALSE]]
  /\ failed = [n \in Nodes |-> {}]
  /\ repair = [n \in Nodes |-> [todo |-> {}, st |-> "idle", to |-> n, data |-> <<>>]]
  /\ faults = 0 /\ errs = {} /\ missed = FALSE

Fault(kind) ==
  /\ kind \in FaultKinds /\ faults < MaxFaults
  /\ faults' = faults + 1 /\ errs' = errs \cup {kind}
NoFault == UNCHANGED <<faults, errs>>

OnDisk(n) == file[n] # <<>> \/ n \in empty
Overwriting(n) == merge[n].st \in {"removed", "opened"}
Miss(cond) == missed' = (missed \/ cond)

\* Mutant of LogFree: no logMutex.
LogFreeUnlocked(n) == n \in live

LogFree(n) == n \in live /\ flush[n] = Idle

\* Mutant of Append1: the bytes without the entry.
Append1Bare(n, e) == log' = [log EXCEPT ![n] = @ \o e.data]

\* WriteLog under logMutex; an error is printed and the caller not told.
Append1(n, e) == log' = [log EXCEPT ![n] = Append(@, e)]
WriteLog(n, e) ==
  /\ LogFree(n)
  /\ \/ NoFault /\ Append1(n, e)
     \/ Fault("log") /\ UNCHANGED log

Entry(q) == [kind |-> "append", data |-> <<q>>]
Replica(d) == [kind |-> "replica", data |-> d]

(***************************************************************************)
(* Writes.                                                                 *)
(***************************************************************************)

\* DoWriteOperationClient: the client dials the primary for 5 s.
Send(q) ==
  /\ req[q].st = "new"
  /\ req' = [req EXCEPT ![q].st = IF Primary \in live THEN "sent" ELSE "failed",
                        ![q].at = Primary]
  /\ UNCHANGED <<live, view, disk, flush, rpc, read, merge, failures, faults, errs, missed>>

\* HandleRequestTypeOnReceive: a CREATE of a file on the disk is refused.
Exists(q) == q \in Creates /\ OnDisk(req[q].at)

Check(q) ==
  LET p == req[q].at IN
  /\ req[q].st = "sent" /\ p \in live
  /\ req' = [req EXCEPT ![q].st = IF Exists(q) THEN "refused" ELSE "mapped"]
  /\ mapped' = [mapped EXCEPT ![p] = @ \/ ~Exists(q)]
  /\ UNCHANGED <<live, view, file, empty, log, isRead, flush, rpc, read, merge, failures, faults, errs, missed>>

Log(q) ==
  /\ req[q].st = "mapped" /\ WriteLog(req[q].at, Entry(q))
  /\ req' = [req EXCEPT ![q].st = "call", ![q].to = Replicas]
  /\ UNCHANGED <<live, view, file, empty, mapped, isRead, flush, rpc, read, merge, failures, missed>>

\* The replicas are called one after the other, 10 s each; whatever comes of
\* it, the client is told of success in the end.
Call(q) ==
  LET k == req[q].k IN
  /\ req[q].st = "call" /\ req[q].at \in live /\ k <= Len(req[q].to)
  /\ rpc' = [rpc EXCEPT ![<<q, k>>] =
       [st |-> IF req[q].to[k] \in live THEN "sent" ELSE "lost", to |-> req[q].to[k]]]
  /\ req' = [req EXCEPT ![q].st = "wait"]
  /\ UNCHANGED <<live, view, disk, flush, read, merge, failures, faults, errs, missed>>

\* Mutant of Return: only an answer ends the call, no error and no timeout.
ReturnAnswered(q) ==
  /\ req[q].st = "wait" /\ req[q].at \in live
  /\ rpc[<<q, req[q].k>>].st = "logged" /\ NoFault
  /\ req' = [req EXCEPT ![q].st = "call", ![q].k = @ + 1]
  /\ UNCHANGED <<live, view, disk, flush, rpc, read, merge, failures, missed>>

\* The answer, an error, or the timeout with the call still under way.
Return(q) ==
  /\ req[q].st = "wait" /\ req[q].at \in live
  /\ \/ rpc[<<q, req[q].k>>].st \in {"logged", "lost"} /\ NoFault
     \/ rpc[<<q, req[q].k>>].st \in {"sent", "mapped"} /\ Fault("rpc")
  /\ req' = [req EXCEPT ![q].st = "call", ![q].k = @ + 1]
  /\ UNCHANGED <<live, view, disk, flush, rpc, read, merge, failures, missed>>

\* Mutant of Acknowledge: before the replicas have answered.
AcknowledgeEarly(q) ==
  /\ req[q].st = "call" /\ req[q].at \in live
  /\ req' = [req EXCEPT ![q].st = "acked"]
  /\ UNCHANGED <<live, view, disk, flush, rpc, read, merge, failures, faults, errs, missed>>

Acknowledge(q) ==
  /\ req[q].st = "call" /\ req[q].at \in live /\ req[q].k > Len(req[q].to)
  /\ req' = [req EXCEPT ![q].st = "acked"]
  /\ UNCHANGED <<live, view, disk, flush, rpc, read, merge, failures, faults, errs, missed>>

\* ReplicateLogEntry at the replica: MapToAOLLog, then the log.
RpcMap(c) ==
  /\ rpc[c].st = "sent" /\ rpc[c].to \in live
  /\ mapped' = [mapped EXCEPT ![rpc[c].to] = TRUE]
  /\ rpc' = [rpc EXCEPT ![c].st = "mapped"]
  /\ UNCHANGED <<live, view, file, empty, log, isRead, flush, req, read, merge, failures, faults, errs, missed>>

RpcLog(c) ==
  /\ rpc[c].st = "mapped" /\ WriteLog(rpc[c].to, Entry(c[1]))
  /\ rpc' = [rpc EXCEPT ![c].st = "logged"]
  /\ UNCHANGED <<live, view, file, empty, mapped, isRead, flush, req, read, merge, failures, missed>>

RpcLost(c) ==
  /\ rpc[c].st = "sent" /\ Fault("rpc")
  /\ rpc' = [rpc EXCEPT ![c].st = "lost"]
  /\ UNCHANGED <<live, view, disk, flush, req, read, merge, failures, missed>>

(***************************************************************************)
(* ReadLog: the log is merged into the file, entry by entry.               *)
(***************************************************************************)

\* Mutant of FlushStart: the timer merges a log only once.
FlushStartOnce(n) ==
  /\ n \in Timers /\ LogFree(n) /\ log[n] # <<>> /\ ~isRead[n]
  /\ flush' = [flush EXCEPT ![n] = [i |-> 1, by |-> "timer"]]
  /\ UNCHANGED <<live, view, disk, req, rpc, read, merge, failures, faults, errs, missed>>

\* startAppendReadLogs: every log in the directory, every 10 s.  An empty log
\* matters only where the first append to it failed after it was created.
FlushStart(n) ==
  /\ n \in Timers /\ LogFree(n)
  /\ log[n] # <<>> \/ (mapped[n] /\ ~isRead[n] /\ "log" \in errs)
  /\ flush' = [flush EXCEPT ![n] = [i |-> 1, by |-> "timer"]]
  /\ UNCHANGED <<live, view, disk, req, rpc, read, merge, failures, faults, errs, missed>>

\* Mutant of Apply: the file is opened with O_TRUNC.
ApplyTruncating(f, e) == e.data

\* Mutant of Apply: copies are never written.
ApplyNoCopies(f, e) == IF e.kind = "replica" THEN f ELSE f \o e.data

\* A copy sent after a failure is dropped when there is a file by now.
Apply(f, e) == IF e.kind = "replica" /\ f # <<>> THEN f ELSE f \o e.data

\* One that is there but empty stops a copy as well.
Skipped(n, e) == e.kind = "replica" /\ n \in empty

\* A failed write is printed and the next entry taken; the file has been created.
FlushStep(n) ==
  LET e == log[n][flush[n].i] IN
  /\ flush[n] # Idle /\ flush[n].i <= Len(log[n])
  /\ \/ /\ NoFault /\ UNCHANGED empty
        /\ file' = [file EXCEPT ![n] = IF Skipped(n, e) THEN @ ELSE Apply(@, e)]
     \/ /\ Fault("write") /\ UNCHANGED file
        /\ empty' = empty \cup {n}
  /\ flush' = [flush EXCEPT ![n].i = @ + 1]
  /\ UNCHANGED <<live, view, log, mapped, isRead, req, rpc, read, merge, failures, missed>>

\* The caller of ReadLog goes on, whether it came to its end or not.
Resume(n) ==
  /\ flush' = [flush EXCEPT ![n] = Idle]
  /\ read' = IF flush[n].by = "read" THEN [read EXCEPT !.st = "open"] ELSE read
  /\ merge' = IF flush[n].by = "merge" THEN [merge EXCEPT ![n].st = "write"] ELSE merge

\* An error on the way: return, and the entries stay in the log.
FlushError(n) ==
  /\ flush[n] # Idle /\ flush[n].i <= Len(log[n]) /\ Fault("flush")
  /\ Resume(n)
  /\ UNCHANGED <<live, view, disk, req, rpc, failures, missed>>

\* Mutant of ClearLog: the entries stay.
ClearLogLate(n) == UNCHANGED log

ClearLog(n) == log' = [log EXCEPT ![n] = <<>>]

\* The log is deleted; should that fail its entries stay as well.
FlushEnd(n) ==
  /\ flush[n] # Idle /\ flush[n].i > Len(log[n])
  /\ \/ NoFault /\ ClearLog(n)
     \/ Fault("flush") /\ UNCHANGED log
  /\ isRead' = [isRead EXCEPT ![n] = TRUE]
  /\ Resume(n)
  /\ UNCHANGED <<live, view, file, empty, mapped, req, rpc, failures, missed>>

\* MergeAoLOnRead: only a log that was never merged is merged now.
NeedsMerge(n) == mapped[n] /\ ~isRead[n]

(***************************************************************************)
(* Reads, from the primary.                                                *)
(***************************************************************************)
Acked == {q \in Reqs : req[q].st = "acked"}

\* Mutant of ReadStart: no merge before a read.
ReadStartUnmerged ==
  /\ read.st = "idle" /\ read.n < MaxReads /\ Primary \in live
  /\ read' = [read EXCEPT !.st = "open", !.at = Primary, !.want = Acked, !.n = @ + 1,
                          !.first = NeedsMerge(Primary)]
  /\ UNCHANGED <<live, view, disk, flush, req, rpc, merge, failures, faults, errs, missed>>

ReadStart ==
  /\ read.st = "idle" /\ read.n < MaxReads /\ Primary \in live
  /\ read' = [read EXCEPT !.st = IF NeedsMerge(Primary) THEN "lock" ELSE "open",
                          !.at = Primary, !.want = Acked, !.n = @ + 1,
                          !.first = NeedsMerge(Primary)]
  /\ UNCHANGED <<live, view, disk, flush, req, rpc, merge, failures, faults, errs, missed>>

ReadLock ==
  /\ read.st = "lock" /\ LogFree(read.at)
  /\ flush' = [flush EXCEPT ![read.at] = [i |-> 1, by |-> "read"]]
  /\ read' = [read EXCEPT !.st = "flush"]
  /\ UNCHANGED <<live, view, disk, req, rpc, merge, failures, faults, errs, missed>>

ReadOpen ==
  /\ read.st = "open" /\ read.at \in live
  /\ read' = [read EXCEPT !.st = "idle", !.got = file[read.at]]
  /\ UNCHANGED <<live, view, disk, flush, req, rpc, merge, failures, faults, errs, missed>>

(***************************************************************************)
(* Merge: TriggerMerge at the primary, MergeFile at a replica.             *)
(***************************************************************************)
\* All writes, flushes and repairs have come to their end, and all merges too.
Settled ==
  /\ \A n \in live : log[n] = <<>> /\ flush[n] = Idle /\ failed[n] = {}
                     /\ repair[n].todo = {} /\ repair[n].st = "idle"
  /\ \A q \in Reqs : req[q].st \in {"new", "acked", "refused", "failed"}
  /\ \A c \in Reqs \X Slots : rpc[c].st \notin {"sent", "mapped"}
  /\ view = live
Merged(n) == merge[n].st \in {"none", "merged", "failed"}
Quiet == Settled /\ \A n \in live : Merged(n)

MergeSend(n) ==
  /\ Merged(n) /\ merge[n].n < MaxMerges
  /\ Cardinality({m \in Nodes : merge[m].n > 0} \cup {n}) <= MaxMerged
  /\ n \in Range(Replicas) /\ Primary \in live /\ OnDisk(Primary)
  /\ merge' = [merge EXCEPT ![n] = [st |-> "sent", data |-> file[Primary], n |-> @.n + 1,
                                   calm |-> Settled /\ \A q \in Reqs : req[q].st # "new"]]
  /\ Miss(file[Primary] = <<>>)
  /\ UNCHANGED <<live, view, disk, flush, req, rpc, read, failures, faults, errs>>

MergeArrive(n) ==
  /\ merge[n].st = "sent" /\ n \in live
  /\ merge' = [merge EXCEPT ![n].st = IF NeedsMerge(n) THEN "lock" ELSE "write"]
  /\ UNCHANGED <<live, view, disk, flush, req, rpc, read, failures, faults, errs, missed>>

MergeLock(n) ==
  /\ merge[n].st = "lock" /\ LogFree(n)
  /\ flush' = [flush EXCEPT ![n] = [i |-> 1, by |-> "merge"]]
  /\ merge' = [merge EXCEPT ![n].st = "flush"]
  /\ UNCHANGED <<live, view, disk, req, rpc, read, failures, faults, errs, missed>>

\* The step, or its error, of which the caller is told.
MergeGoesOn(n, st) ==
  \/ NoFault /\ merge' = [merge EXCEPT ![n].st = st]
  \/ Fault("merge") /\ merge' = [merge EXCEPT ![n].st = "failed"]
MergeFails(n) == merge'[n].st = "failed"

\* Without logMutex the copy is deleted,
MergeRemove(n) ==
  /\ merge[n].st = "write" /\ n \in live
  /\ MergeGoesOn(n, "removed")
  /\ file' = IF MergeFails(n) THEN file ELSE [file EXCEPT ![n] = <<>>]
  /\ empty' = IF MergeFails(n) THEN empty ELSE empty \ {n}
  /\ UNCHANGED <<live, view, log, mapped, isRead, flush, req, rpc, read, failures, missed>>

\* created anew, or emptied if the log was merged meanwhile,
MergeOpen(n) ==
  /\ merge[n].st = "removed" /\ n \in live
  /\ MergeGoesOn(n, "opened")
  /\ file' = IF MergeFails(n) THEN file ELSE [file EXCEPT ![n] = <<>>]
  /\ empty' = IF MergeFails(n) THEN empty ELSE empty \cup {n}
  /\ UNCHANGED <<live, view, log, mapped, isRead, flush, req, rpc, read, failures, missed>>

\* Mutant of MergeWrite: the error of the write is dropped.
MergeWriteUnchecked(n) ==
  /\ merge[n].st = "opened" /\ n \in live
  /\ \/ NoFault /\ file' = [file EXCEPT ![n] = merge[n].data]
     \/ Fault("merge") /\ UNCHANGED file
  /\ merge' = [merge EXCEPT ![n].st = "merged"]
  /\ UNCHANGED <<live, view, empty, log, mapped, isRead, flush, req, rpc, read, failures, missed>>

\* and written from its start, whatever the log put there meanwhile; unless the file that
\* was opened has been deleted.
MergeWrite(n) ==
  /\ merge[n].st \in {"opened", "unlinked"} /\ n \in live
  /\ MergeGoesOn(n, "merged")
  /\ LET over(f) == merge[n].data \o SubSeq(f, Len(merge[n].data) + 1, Len(f)) IN
     file' = IF MergeFails(n) \/ merge[n].st = "unlinked" THEN file
                                                     ELSE [file EXCEPT ![n] = over(@)]
  /\ UNCHANGED <<live, view, empty, log, mapped, isRead, flush, req, rpc, read, failures, missed>>

(***************************************************************************)
(* Failure of a node and the repair of its copy.                           *)
(***************************************************************************)
Crash(n) ==
  /\ n \in live /\ Cardinality(Nodes \ live) < MaxCrashes
  /\ live' = live \ {n}
  /\ flush' = [flush EXCEPT ![n] = Idle]
  /\ req' = [q \in Reqs |->
       IF req[q].at = n /\ req[q].st \in {"sent", "mapped", "call", "wait"}
         THEN [req[q] EXCEPT !.st = "failed"] ELSE req[q]]
  /\ rpc' = [c \in Reqs \X Slots |->
       IF rpc[c].to = n /\ rpc[c].st \in {"sent", "mapped"}
         THEN [rpc[c] EXCEPT !.st = "lost"] ELSE rpc[c]]
  /\ read' = IF read.at = n THEN [read EXCEPT !.st = "idle"] ELSE read
  /\ merge' = [merge EXCEPT ![n].st = "none"]
  /\ repair' = [s \in Nodes |->
       CASE s = n -> [repair[s] EXCEPT !.todo = {},
                                           !.st = IF @ = "mapped" THEN @ ELSE "idle"]
         [] s # n /\ repair[s].to = n -> [repair[s] EXCEPT !.st = "idle"]
         [] OTHER -> repair[s]]
  /\ UNCHANGED <<view, disk, failed, faults, errs, missed>>

\* The failed node leaves the membership list and each node takes note.
Detect(n) ==
  /\ n \in view \ live
  /\ view' = view \ {n}
  /\ failed' = [s \in Nodes |-> IF s \in live THEN failed[s] \cup {n} ELSE failed[s]]
  /\ UNCHANGED <<live, disk, flush, req, rpc, read, merge, repair, faults, errs, missed>>

\* Mutant of RepairBegin: to all who are to have the file, not the new one.
RepairBeginAll(s) ==
  /\ s \in live /\ failed[s] # {} /\ repair[s].st = "idle" /\ repair[s].todo = {}
  /\ repair' = [repair EXCEPT ![s].todo = IF OnDisk(s) THEN Range(Routing) \ {s} ELSE {}]
  /\ failed' = [failed EXCEPT ![s] = {}]
  /\ Miss(~OnDisk(s) /\ Overwriting(s))
  /\ UNCHANGED <<live, view, disk, flush, req, rpc, read, merge, faults, errs>>

\* 20 s after the last failure: who is to get the file, if it is on the disk.
RepairBegin(s) ==
  /\ s \in live /\ failed[s] # {} /\ repair[s].st = "idle" /\ repair[s].todo = {}
  /\ repair' = [repair EXCEPT ![s].todo =
                  IF OnDisk(s) THEN Receivers(s, FileHash, view, failed[s]) ELSE {}]
  /\ failed' = [failed EXCEPT ![s] = {}]
  /\ Miss(~OnDisk(s) /\ Overwriting(s))
  /\ UNCHANGED <<live, view, disk, flush, req, rpc, read, merge, faults, errs>>

\* The file is sent as it is, without the log; nothing if it is a .csv, if it is gone or
\* empty by now, or if the receiver does not answer.
RepairSend(s) ==
  /\ s \in live /\ repair[s].st = "idle"
  /\ \E to \in repair[s].todo :
       repair' = [repair EXCEPT ![s] =
         [todo |-> @.todo \ {to}, to |-> to, data |-> file[s],
          st |-> IF ~Csv /\ file[s] # <<>> /\ to \in live THEN "sent" ELSE "idle"]]
  /\ Miss(file[s] = <<>> /\ Overwriting(s))
  /\ UNCHANGED <<live, view, disk, flush, req, rpc, read, merge, failed, faults, errs>>

\* The receiver removes its own copy, if any, before it logs the one it got.
RepairArrive(s) ==
  LET n == repair[s].to IN
  /\ repair[s].st = "sent" /\ n \in live
  /\ file' = [file EXCEPT ![n] = <<>>] /\ empty' = empty \ {n}
  /\ merge' = [merge EXCEPT ![n].st = IF @ = "opened" THEN "unlinked" ELSE @]
  /\ mapped' = [mapped EXCEPT ![n] = TRUE]
  /\ repair' = [repair EXCEPT ![s].st = "mapped"]
  /\ UNCHANGED <<live, view, log, isRead, flush, req, rpc, read, failed, faults, errs, missed>>

RepairLog(s) ==
  /\ repair[s].st = "mapped" /\ WriteLog(repair[s].to, Replica(repair[s].data))
  /\ repair' = [repair EXCEPT ![s].st = "idle"]
  /\ UNCHANGED <<live, view, file, empty, mapped, isRead, flush, req, rpc, read, merge, failed, missed>>

-----------------------------------------------------------------------------
Write(q) == Send(q) \/ Check(q) \/ Log(q) \/ Call(q) \/ Return(q) \/ Acknowledge(q)
Replicate(c) == RpcMap(c) \/ RpcLog(c) \/ RpcLost(c)
Flush(n) == FlushStart(n) \/ FlushStep(n) \/ FlushError(n) \/ FlushEnd(n)
Read == ReadStart \/ ReadLock \/ ReadOpen
Overwrite(n) == MergeRemove(n) \/ MergeOpen(n) \/ MergeWrite(n)
Merge(n) == MergeSend(n) \/ MergeArrive(n) \/ MergeLock(n) \/ Overwrite(n)
Repair(n) == RepairBegin(n) \/ RepairSend(n) \/ RepairArrive(n) \/ RepairLog(n)

Next ==
  \/ \E q \in Reqs : Write(q)
  \/ \E c \in Reqs \X Slots : Replicate(c)
  \/ \E n \in Nodes : Flush(n) \/ Merge(n) \/ Crash(n) \/ Detect(n) \/ Repair(n)
  \/ Read

Spec == Init /\ [][Next]_vars

(***************************************************************************)
(* Fairness: goroutines run, the timer goes off and calls end within their *)
(* timeouts.  logMutex need not be fair: a log is merged finitely often.   *)
(***************************************************************************)
Serve(q) == Check(q) \/ Log(q) \/ Call(q) \/ Return(q) \/ Acknowledge(q)
FairSpec ==
  /\ Spec
  /\ \A q \in Reqs : WF_vars(Serve(q))
  /\ \A c \in Reqs \X Slots : WF_vars(RpcMap(c) \/ RpcLog(c))
  /\ \A n \in Timers : WF_vars(FlushStart(n) \/ FlushStep(n) \/ FlushEnd(n))
  /\ WF_vars(ReadLock \/ ReadOpen)

-----------------------------------------------------------------------------
EntryRec == [kind : {"append", "replica"}, data : Seq(Reqs)]

\* The types of the variables (models/*.go, aol.go:15-20).
TypeOK ==
  /\ live \subseteq Nodes /\ view \subseteq Nodes
  /\ file \in [Nodes -> Seq(Reqs)] /\ empty \subseteq Nodes
  /\ log \in [Nodes -> Seq(EntryRec)]
  /\ mapped \in [Nodes -> BOOLEAN] /\ isRead \in [Nodes -> BOOLEAN]
  /\ flush \in [Nodes -> [i : Nat, by : {"none", "timer", "read", "merge"}]]
  /\ req \in [Reqs -> [st : {"new", "sent", "refused", "mapped", "call", "wait",
                             "acked", "failed"},
                       at : Nodes, to : Seq(Nodes), k : 1 .. 3]]
  /\ rpc \in [Reqs \X Slots -> [st : {"none", "sent", "mapped", "logged", "lost"},
                                to : Nodes]]
  /\ read \in [st : {"idle", "lock", "flush", "open"}, at : Nodes, want : SUBSET Reqs,
               got : Seq(Reqs), n : 0 .. MaxReads, first : BOOLEAN]
  /\ merge \in [Nodes -> [st : {"none", "sent", "lock", "flush", "write", "removed", "opened",
                                "unlinked", "merged", "failed"},
                          data : Seq(Reqs), n : 0 .. MaxMerges, calm : BOOLEAN]]
  /\ failed \in [Nodes -> SUBSET Nodes]
  /\ repair \in [Nodes -> [todo : SUBSET Nodes, st : {"idle", "sent", "mapped"},
                           to : Nodes, data : Seq(Reqs)]]
  /\ faults \in 0 .. MaxFaults
  /\ errs \subseteq FaultKinds /\ missed \in BOOLEAN

\* What the copy of a node will hold once its log is merged.
Unmerged(n) == SubSeq(log[n], IF flush[n] = Idle THEN 1 ELSE flush[n].i, Len(log[n]))
Content(n) == FoldLeft(Apply, file[n], Unmerged(n))
Times(q, s) == Cardinality({i \in 1 .. Len(s) : s[i] = q})

\* Kept once, unless a fault of one of these kinds loses or repeats entries.
KeptOnce(q, n) ==
  /\ errs \cap {"log", "write"} = {} => Times(q, Content(n)) >= 1
  /\ "flush" \notin errs => Times(q, Content(n)) <= 1

\* An acknowledged write is at the primary exactly once, whatever merges of the
\* log go on (aol.go:29-61,118-208); only a swallowed error of the log or the
\* file loses it, only a merge that broke off repeats it.
AckedKept == \A q \in Acked : KeptOnce(q, req[q].at)

\* So is it at each replica whose call came through, though perhaps after its
\* timeout (replicate-aol.go:53-60, fileOperations.go:291-306); without faults
\* an acknowledgement means that all three nodes have the write.
ReplicasKept ==
  /\ \A c \in Reqs \X Slots : rpc[c].st = "logged" => KeptOnce(c[1], rpc[c].to)
  /\ errs = {} => \A q \in Acked, k \in Slots : rpc[<<q, k>>].st = "logged"

\* What is accepted at a node keeps its place: no flush, concurrent write or
\* read loses, repeats or reorders it (logMutex, aol.go:42,131).
KeptInOrder ==
  [][errs' \cap {"write", "flush"} = {} =>
       \A n \in Nodes : IsPrefix(Content(n), Content(n)')]_vars

\* A later read from the primary returns what an earlier one did and perhaps
\* more, errors or not: files are only appended to (aol.go:174).
ReadsGrow == [][IsPrefix(read.got, read.got')]_vars

\* The read that finds a log never merged returns all that was acknowledged
\* before it, even if the timer merges the log meanwhile (aol.go:210-221).
FirstReadComplete ==
  (read.st = "idle" /\ read.first /\ errs = {}) => read.want \subseteq Range(read.got)

\* Of what was merged before a failure some running node has a copy at any time, in its
\* file or log or in the hands of a MergeFile call that is about to write it, though repair
\* and merges remove copies before they add others (fileOperations.go:267-286,361-382), and
\* all that a node has if a range of hashes does not wrap (utils/utils.go:86-95).
Holders(q) ==
  {n \in live : \/ Times(q, Content(n)) >= 1 /\ (file[n] # <<>> \/ n \notin empty)
                \/ Overwriting(n) /\ q \in Range(merge[n].data)}
CopyRemains == errs = {} => \A q \in Acked : Done(q) => Holders(q) # {}

\* And once the failure is repaired and all logs and merges are done the three nodes that
\* FileRouting gives by then have it (hydfs.go:90-158, coordinator.go:136-163), unless it
\* is a .csv, or a copy was looked for while a merge had removed it.
ThreeReplicas ==
  (Quiet /\ errs = {} /\ ~Csv /\ ~missed) =>
    \A q \in Acked, n \in Range(Routing) : Done(q) => q \in Range(file[n])

\* Not for this file only, if no .csv: between whichever peers of the ring a file's hash lies, the
\* three nodes it is routed to after a failure had it before or are sent it by one that
\* had (repairFailures.go:21-57,74-118, utils/utils.go:60-104).
RepairPlaces ==
  LET gone == UNION {failed[s] : s \in live}
      before(h) == Range(FileRouting(h, view \cup gone))
      sent(h) == UNION {Receivers(n, h, view, gone) : n \in before(h) \ gone}
  IN gone # {} => \A h \in {0} \cup {p + 1 : p \in Nodes} :
                    Range(FileRouting(h, view)) \subseteq before(h) \cup sent(h)

\* Every write ends, and every acknowledged one gets into the primary's file
\* even if merges of the log break off (hydfs.go:38-45), unless an error in
\* the append to the log or in the write to the file lost it.
WritesEnd == \A q \in Reqs : req[q].st = "sent" ~> req[q].st \in {"acked", "refused"}
AckedMerged ==
  \A q \in Reqs : req[q].st = "acked" ~>
    q \in Range(file[req[q].at]) \/ errs \cap {"log", "write"} # {}

\* "Aol needs to be merged before response" (aol.go:217): a read returns what
\* was acknowledged before it began.
ReadsAcked == read.st = "idle" => read.want \subseteq Range(read.got)

\* A merge asked for when all writes were done (history: calm) makes good what
\* the replica lost or repeated by errors (coordinator.go:290-352).
MergeRestores ==
  live = Nodes => \A n \in live :
    merge[n].st = "merged" /\ merge[n].calm => file[n] = file[Primary]

\* While no node fails the primary's log and file are one append-only file.
Owner == FileRouting(FileHash, Nodes)[1]
FileAtPrimary == INSTANCE AppendOnlyFile
                   WITH content <- Content(Owner), acked <- Acked, seen <- read.got
ImplementsFile == FileAtPrimary!Spec
=============================================================================
