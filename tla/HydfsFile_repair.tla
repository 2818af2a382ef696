-------------------------- MODULE HydfsFile_repair --------------------------
(***************************************************************************)
(* Proofs of what is left of a file when one node fails while nothing is   *)
(* written: a copy at any time (OneFailureLeavesACopy), and all replicas   *)
(* after the repair (OneFailureIsRepaired), in every cluster of five or    *)
(* more nodes and for a file at no node's place.  The argument: every copy *)
(* there is is the whole file (CopyInv); some node that has it and is to   *)
(* send it has no other node send to it, so that its copy is removed only  *)
(* by a merge that has another at hand (SafeInv, DataInv); each node that  *)
(* is to have the file has it or is still owed it by such a node, as long  *)
(* as no copy was looked for while a merge had it removed (OwedInv).       *)
(***************************************************************************)
EXTENDS HydfsFile_proofs

\* Nothing is to be written: all requests belong to the start.
AllDone == Before # <<>> /\ \A q \in Reqs : Done(q)

\* Whatever there is of the file, in files, logs, merges and repairs, is the whole file;
\* unless a merge was sent a copy that another merge was about to write.
CopyInv ==
  /\ \A n \in Nodes : file[n] = <<>> \/ file[n] = Before
  /\ \A n \in Nodes : \A i \in 1 .. Len(log[n]) : log[n][i] = Replica(Before)
  /\ \A n \in Nodes : merge[n].st # "none" =>
       merge[n].data = Before \/ (missed /\ merge[n].data = <<>>)
  /\ \A n \in Nodes : flush[n].by = "merge" => merge[n].st = "flush"
  /\ \A s \in Nodes : repair[s].st # "idle" => repair[s].data = Before
  /\ \A q \in Reqs : req[q].st = "acked"
  /\ \A c \in Reqs \X Slots : rpc[c].st = "logged"
  /\ ~missed => \A n \in live : n \in empty /\ file[n] = <<>> => merge[n].st = "opened"

\* A node has the file, or has it in its log, or is about to write it there or to the file.
HasFile(n) ==
  \/ file[n] = Before
  \/ From(n) <= Len(log[n])
  \/ \E s \in Nodes : repair[s].st = "mapped" /\ repair[s].to = n
  \/ Overwriting(n)

\* The nodes that have the file before f fails and that are to have it then, the first of
\* these, who sends it to whom, the nodes that never get it, and those that none sends to.
OldPlaces == Range(FileRouting(FileHash, Nodes))
NewPlaces(f) == Range(FileRouting(FileHash, Nodes \ {f}))
First(f) == FileRouting(FileHash, Nodes \ {f})[1]
SendsTo(s, f) == Receivers(s, FileHash, Nodes \ {f}, {f})
Bare(n, f) == n \notin OldPlaces \cup NewPlaces(f) /\ \A s \in Nodes : n \notin SendsTo(s, f)
Safe(n, f) == n \in OldPlaces \ {f} /\ \A s \in Nodes : n \in SendsTo(s, f) => Bare(s, f)

\* The nodes that merges give the whole file: the primary to be if the primary fails, else
\* all; and all as long as none was asked for an unwritten copy.
Trusted(n, f) == ~missed \/ f # Owner \/ n = First(f)

\* z has noted that f failed, has d on its list or has sent it the file, or d has it.
Owed(z, d, f) ==
  \/ HasFile(d)
  \/ f \in failed[z]
  \/ d \in repair[z].todo
  \/ repair[z].st = "sent" /\ repair[z].to = d

\* What is repaired is the failure of f, by those and for those that the ranges say; the
\* bare nodes never have anything; the primary's copy is overwritten by none; the safe ones
\* keep their file; and nobody who is to get the file is forgotten.
SenderInv(f) ==
  /\ view = Nodes \/ view = Nodes \ {f}
  /\ f \notin live => repair[f].st = "idle"
  /\ \A s \in Nodes :
       /\ failed[s] \subseteq {f} /\ repair[s].todo \subseteq SendsTo(s, f)
       /\ repair[s].st # "idle" => repair[s].to \in SendsTo(s, f)
       /\ view = Nodes => failed[s] = {} /\ repair[s].todo = {} /\ repair[s].st = "idle"
BareInv(f) ==
  \A n \in Nodes : Bare(n, f) =>
    /\ file[n] = <<>> /\ n \notin empty /\ log[n] = <<>> /\ merge[n].st = "none"
    /\ repair[n].todo = {} /\ repair[n].st = "idle"
DataInv(f) ==
  /\ view = Nodes \/ f # Owner => merge[Owner].st = "none" /\ Owner \notin empty
  /\ \A n \in Nodes : Trusted(n, f) /\ merge[n].st # "none" => merge[n].data = Before
SafeInv(f) ==
  \A n \in Nodes : Safe(n, f) /\ Trusted(n, f) => file[n] = Before \/ Overwriting(n)
OwedInv(f) ==
  ~missed =>
    /\ \A n \in OldPlaces \ {f} : HasFile(n)
    /\ view # Nodes /\ ~Csv =>
         \A z \in Nodes : Safe(z, f) => \A d \in SendsTo(z, f) : Owed(z, d, f)

\* Nobody or only f has failed.
AtMost(f) == live = Nodes \/ live = Nodes \ {f}
FailInv(f) == SenderInv(f) /\ BareInv(f) /\ DataInv(f) /\ SafeInv(f) /\ OwedInv(f)

\* What a step does while nothing is written and nothing goes wrong.
LEMMA FailActions ==
  ASSUME CopyInv, [Next]_vars
  PROVE  \/ \E n \in Nodes : Flush(n) \/ Merge(n) \/ Crash(n) \/ Detect(n) \/ Repair(n)
         \/ Read
         \/ UNCHANGED vars
<1>1. ASSUME NEW q \in Reqs, Write(q) PROVE FALSE
  BY <1>1 DEF CopyInv, Write, Send, Check, Log, Call, Return, Acknowledge
<1>2. ASSUME NEW c \in Reqs \X Slots, Replicate(c) PROVE FALSE
  BY <1>2 DEF CopyInv, Replicate, RpcMap, RpcLog, RpcLost
<1>. QED  BY <1>1, <1>2 DEF Next

LEMMA NoErrors ==
  ASSUME errs' = {}, NEW kind
  PROVE  ~ Fault(kind)
BY DEF Fault

\* Errors are not forgotten, whatever fails.
LEMMA ErrsShrink ==
  ASSUME TypeInv, [Next]_vars, errs' = {}
  PROVE  errs = {}
<1>1. \A kind : Fault(kind) \/ NoFault => errs = {}
  BY DEF Fault, NoFault
<1>2. ASSUME NEW n \in Nodes, Flush(n) PROVE errs = {}
  BY <1>1, <1>2 DEF Flush, FlushStart, FlushStep, FlushError, FlushEnd
<1>3. ASSUME NEW n \in Nodes, Merge(n) PROVE errs = {}
  BY <1>1, <1>3, OverwriteForm DEF Merge, MergeSend, MergeArrive, MergeLock
<1>4. ASSUME NEW n \in Nodes, Repair(n) PROVE errs = {}
  BY <1>1, <1>4 DEF Repair, RepairBegin, RepairSend, RepairArrive, RepairLog, WriteLog
<1>5. ASSUME NEW n \in Nodes, Crash(n) \/ Detect(n) PROVE errs = {}
  BY <1>5 DEF Crash, Detect
<1>6. ASSUME Read PROVE errs = {}
  BY <1>6 DEF Read, ReadStart, ReadLock, ReadOpen
<1>7. ASSUME NEW q \in Reqs, Write(q) PROVE errs = {}
  BY <1>1, <1>7 DEF Write, Send, Check, Log, Call, Return, Acknowledge, WriteLog
<1>8. ASSUME NEW c \in Reqs \X Slots, Replicate(c) PROVE errs = {}
  BY <1>1, <1>8 DEF Replicate, RpcMap, RpcLog, RpcLost, WriteLog
<1>. QED  BY <1>2, <1>3, <1>4, <1>5, <1>6, <1>7, <1>8 DEF Next, vars

\* Nor is it that a copy was looked for.
LEMMA MissedShrinks ==
  ASSUME TypeInv, [Next]_vars, ~missed'
  PROVE  ~missed
<1>1. \A c : Miss(c) => ~missed
  BY DEF Miss
<1>2. ASSUME NEW n \in Nodes, Flush(n) PROVE ~missed
  BY <1>2 DEF Flush, FlushStart, FlushStep, FlushError, FlushEnd
<1>3. ASSUME NEW n \in Nodes, Merge(n) PROVE ~missed
  BY <1>1, <1>3, OverwriteForm DEF Merge, MergeSend, MergeArrive, MergeLock
<1>4. ASSUME NEW n \in Nodes, Repair(n) PROVE ~missed
  BY <1>1, <1>4 DEF Repair, RepairBegin, RepairSend, RepairArrive, RepairLog
<1>5. ASSUME NEW n \in Nodes, Crash(n) \/ Detect(n) PROVE ~missed
  BY <1>5 DEF Crash, Detect
<1>6. ASSUME Read PROVE ~missed
  BY <1>6 DEF Read, ReadStart, ReadLock, ReadOpen
<1>7. ASSUME NEW q \in Reqs, Write(q) PROVE ~missed
  BY <1>7 DEF Write, Send, Check, Log, Call, Return, Acknowledge
<1>8. ASSUME NEW c \in Reqs \X Slots, Replicate(c) PROVE ~missed
  BY <1>8 DEF Replicate, RpcMap, RpcLog, RpcLost
<1>. QED  BY <1>2, <1>3, <1>4, <1>5, <1>6, <1>7, <1>8 DEF Next, vars

\* The functions that a step updates, for the leaves below.
LEMMA Records ==
  ASSUME TypeInv
  PROVE  /\ file \in [Nodes -> Seq(Reqs)] /\ log \in [Nodes -> Seq(EntryRec)]
         /\ flush \in [Nodes -> FlushRec] /\ merge \in [Nodes -> MergeRec]
         /\ failed \in [Nodes -> SUBSET Nodes] /\ repair \in [Nodes -> RepairRec]
         /\ \A n \in Nodes : Len(log[n]) \in Nat /\ From(n) \in 1 .. Len(log[n]) + 1
         /\ live \subseteq view /\ view \subseteq Nodes
<1>1. log \in [Nodes -> Seq(EntryRec)] /\ flush \in [Nodes -> FlushRec]
  BY DEF TypeInv, NodeType
<1>2. ASSUME NEW n \in Nodes PROVE Len(log[n]) \in Nat /\ From(n) \in 1 .. Len(log[n]) + 1
  <2>1. Len(log[n]) \in Nat
    BY <1>1, LenProperties
  <2>. QED  BY <2>1 DEF From, TypeInv, FlushInv
<1>. QED  BY <1>1, <1>2 DEF TypeInv, NodeType, TaskType, LiveInv

\* Merging an entry leaves the file whole.
LEMMA ApplyWhole ==
  ASSUME NEW f, f = <<>> \/ f = Before
  PROVE  Apply(f, Replica(Before)) = Before
<1>1. Before \in Seq(Reqs)
  BY HydfsAssumption DEF HydfsAssumption
<1>2. <<>> \o Before = Before
  BY <1>1, EmptySeq, ConcatEmptySeq
<1>. QED  BY <1>2 DEF Apply, Replica

LEMMA FlushCopy ==
  ASSUME TypeInv, CopyInv, errs' = {}, NEW m \in Nodes, Flush(m)
  PROVE  /\ CopyInv' /\ UNCHANGED <<live, view, failed, repair>>
         /\ \A n \in Nodes : file'[n] = file[n] \/ (file'[n] = Before /\ log[n] # <<>>)
         /\ \A n \in Nodes : log'[n] = log[n] \/ log'[n] = <<>>
         /\ UNCHANGED <<empty, missed>>
         /\ \A n \in Nodes : /\ merge'[n].data = merge[n].data
                             /\ merge'[n].st = merge[n].st \/ (merge[n].st = "flush" /\ merge'[n].st = "write")
         /\ ~missed => \A n \in live : HasFile(n) => HasFile(n)'
<1>r. /\ file \in [Nodes -> Seq(Reqs)] /\ log \in [Nodes -> Seq(EntryRec)]
      /\ flush \in [Nodes -> FlushRec] /\ merge \in [Nodes -> MergeRec]
      /\ \A n \in Nodes : Len(log[n]) \in Nat /\ From(n) \in 1 .. Len(log[n]) + 1
  BY Records
<1>n. live \subseteq Nodes
  BY DEF TypeInv, NodeType
<1>1. CASE FlushStart(m)
  <2>1. /\ UNCHANGED <<live, view, failed, repair, file, empty, log, merge, req, rpc, missed>>
        /\ flush[m] = Idle /\ flush' = [flush EXCEPT ![m] = [i |-> 1, by |-> "timer"]]
    BY <1>1 DEF FlushStart, LogFree, disk, failures
  <2>2. CopyInv'
    BY <1>r, <2>1 DEF CopyInv
  <2>3. \A n \in Nodes : From(n)' = From(n)
    BY <1>r, <2>1 DEF From, Idle
  <2>4. ASSUME NEW n \in live, n \in Nodes, HasFile(n) PROVE HasFile(n)'
    <3>1. file'[n] = file[n] /\ From(n)' = From(n) /\ UNCHANGED <<log, repair, merge>>
      BY <2>1, <2>3, <2>4
    <3>. QED  BY <2>4, <3>1 DEF HasFile, Overwriting
  <2>. QED  BY <1>n, <2>1, <2>2, <2>4
<1>2. CASE FlushStep(m)
  <2>1. /\ UNCHANGED <<live, view, failed, repair, empty, log, merge, req, rpc, missed>>
        /\ flush[m] # Idle /\ flush[m].i <= Len(log[m])
        /\ file' = [file EXCEPT ![m] = IF Skipped(m, log[m][flush[m].i]) THEN @ ELSE Apply(@, log[m][flush[m].i])]
        /\ flush' = [flush EXCEPT ![m].i = @ + 1]
    BY <1>2, NoErrors DEF FlushStep, failures
  <2>2. From(m) = flush[m].i /\ flush[m].i \in 1 .. Len(log[m])
    BY <1>r, <2>1 DEF From
  <2>e. log[m][flush[m].i] = Replica(Before)
    BY <2>2 DEF CopyInv
  <2>3. file'[m] = Before \/ (file'[m] = file[m] /\ m \in empty)
    <3>1. CASE Skipped(m, log[m][flush[m].i])
      BY <1>r, <2>1, <3>1 DEF Skipped
    <3>2. CASE ~ Skipped(m, log[m][flush[m].i])
      <4>1. file'[m] = Apply(file[m], Replica(Before))
        BY <1>r, <2>1, <2>e, <3>2
      <4>. QED  BY <4>1, ApplyWhole DEF CopyInv
    <3>. QED  BY <3>1, <3>2
  <2>4. \A n \in Nodes : n # m => file'[n] = file[n] /\ flush'[n] = flush[n]
    BY <1>r, <2>1
  <2>5. log[m] # <<>>
    BY <2>2
  <2>6. \A n \in Nodes : flush'[n].by = flush[n].by
    BY <1>r, <2>1 DEF FlushRec
  <2>7. CopyInv'
    BY <2>1, <2>3, <2>4, <2>6 DEF CopyInv
  <2>8. ASSUME NEW n \in live, n \in Nodes, ~missed, HasFile(n) PROVE HasFile(n)'
    <3>1. CASE n = m
      <4>1. CASE file'[m] = Before
        BY <3>1, <4>1 DEF HasFile
      <4>2. CASE file'[m] = file[m] /\ m \in empty
        <5>1. file[m] = Before \/ merge[m].st = "opened"
          BY <2>8, <3>1, <4>2 DEF CopyInv
        <5>2. file'[m] = Before \/ merge'[m].st = "opened"
          BY <2>1, <4>2, <5>1
        <5>. QED  BY <3>1, <5>2 DEF HasFile, Overwriting
      <4>. QED  BY <2>3, <4>1, <4>2
    <3>2. CASE n # m
      <4>1. file'[n] = file[n] /\ From(n)' = From(n) /\ UNCHANGED <<log, repair, merge>>
        BY <2>8, <2>1, <2>4, <3>2 DEF From
      <4>. QED  BY <2>8, <4>1 DEF HasFile, Overwriting
    <3>. QED  BY <3>1, <3>2
  <2>. QED  BY <1>n, <2>1, <2>3, <2>4, <2>5, <2>7, <2>8
<1>3. CASE FlushError(m)
  BY <1>3, NoErrors DEF FlushError
<1>4. CASE FlushEnd(m)
  <2>1. /\ UNCHANGED <<live, view, failed, repair, file, empty, req, rpc, missed>>
        /\ flush[m] # Idle /\ flush[m].i > Len(log[m])
        /\ log' = [log EXCEPT ![m] = <<>>]
        /\ flush' = [flush EXCEPT ![m] = Idle]
        /\ merge' = IF flush[m].by = "merge" THEN [merge EXCEPT ![m].st = "write"] ELSE merge
    BY <1>4, NoErrors DEF FlushEnd, ClearLog, Resume, failures
  <2>2. From(m) = flush[m].i
    BY <2>1 DEF From
  <2>3. \A n \in Nodes : n # m => log'[n] = log[n] /\ flush'[n] = flush[n] /\ merge'[n] = merge[n]
    BY <1>r, <2>1
  <2>4. log'[m] = <<>> /\ flush'[m] = Idle
    BY <1>r, <2>1
  <2>5. /\ merge'[m].data = merge[m].data
        /\ merge'[m].st = merge[m].st \/ (flush[m].by = "merge" /\ merge'[m].st = "write")
    BY <1>r, <2>1 DEF MergeRec
  <2>6. flush[m].by = "merge" => merge[m].st = "flush"
    BY DEF CopyInv
  <2>7. \A n \in Nodes : /\ merge'[n].data = merge[n].data
                         /\ merge'[n].st = merge[n].st \/ (merge[n].st = "flush" /\ merge'[n].st = "write")
    BY <2>3, <2>5, <2>6
  <2>8. \A n \in Nodes : \A i \in 1 .. Len(log'[n]) : log'[n][i] = Replica(Before)
    BY <2>3, <2>4 DEF CopyInv
  <2>9. \A n \in Nodes : merge'[n].st # "none" => merge'[n].data = Before \/ (missed /\ merge'[n].data = <<>>)
    BY <2>3, <2>5, <2>6 DEF CopyInv
  <2>10. \A n \in Nodes : flush'[n].by = "merge" => merge'[n].st = "flush"
    BY <2>3, <2>4 DEF CopyInv, Idle
  <2>o. ~missed => \A n \in live : n \in empty /\ file[n] = <<>> => merge'[n].st = "opened"
    BY <1>n, <2>7 DEF CopyInv
  <2>11. CopyInv'
    BY <2>1, <2>8, <2>9, <2>10, <2>o DEF CopyInv
  <2>12. ~ (From(m) <= Len(log[m]))
    BY <1>r, <2>1, <2>2
  <2>13. ASSUME NEW n \in live, n \in Nodes, HasFile(n) PROVE HasFile(n)'
    <3>0. Overwriting(n) => Overwriting(n)'
      BY <2>7, <2>13 DEF Overwriting
    <3>1. CASE n = m
      BY <2>1, <2>12, <2>13, <3>0, <3>1 DEF HasFile
    <3>2. CASE n # m
      <4>1. file'[n] = file[n] /\ From(n)' = From(n) /\ log'[n] = log[n] /\ repair' = repair
        BY <2>13, <2>1, <2>3, <3>2 DEF From
      <4>. QED  BY <2>13, <3>0, <4>1 DEF HasFile
    <3>. QED  BY <3>1, <3>2
  <2>. QED  BY <1>n, <2>1, <2>3, <2>4, <2>7, <2>11, <2>13
<1>. QED  BY <1>1, <1>2, <1>3, <1>4 DEF Flush



\* The steps of MergeFile that make the copy anew, one by one.
LEMMA OverwriteCopy ==
  ASSUME TypeInv, CopyInv, errs' = {}, NEW m \in Nodes, Overwrite(m)
  PROVE  /\ m \in live
         /\ \A n \in Nodes : n # m => merge'[n] = merge[n] /\ file'[n] = file[n] /\ (n \in empty' <=> n \in empty)
         /\ merge'[m].data = merge[m].data
         /\ \/ merge[m].st = "write" /\ merge'[m].st = "removed" /\ file'[m] = <<>> /\ m \notin empty'
            \/ merge[m].st = "removed" /\ merge'[m].st = "opened" /\ file'[m] = <<>>
            \/ /\ merge[m].st = "opened" /\ merge'[m].st = "merged" /\ empty' = empty
               /\ file'[m] = file[m] \/ file'[m] = Before
               /\ merge[m].data = Before => file'[m] = Before
            \/ /\ merge[m].st = "unlinked" /\ merge'[m].st = "merged" /\ empty' = empty
               /\ file'[m] = file[m]
<1>r. file \in [Nodes -> Seq(Reqs)] /\ merge \in [Nodes -> MergeRec] /\ Before \in Seq(Reqs)
  BY Records, HydfsAssumption DEF HydfsAssumption
<1>g. ASSUME NEW st, MergeGoesOn(m, st), st # "failed"
      PROVE  /\ merge' = [merge EXCEPT ![m].st = st] /\ merge'[m].st = st /\ ~ MergeFails(m)
             /\ merge'[m].data = merge[m].data /\ \A n \in Nodes : n # m => merge'[n] = merge[n]
  <2>1. merge' = [merge EXCEPT ![m].st = st]
    BY <1>g, NoErrors DEF MergeGoesOn
  <2>. QED  BY <1>r, <1>g, <2>1 DEF MergeRec, MergeFails
<1>1. CASE MergeRemove(m)
  <2>1. MergeGoesOn(m, "removed") /\ merge[m].st = "write" /\ m \in live
    BY <1>1 DEF MergeRemove
  <2>2. ~ MergeFails(m)
    BY <1>g, <2>1
  <2>3. file' = [file EXCEPT ![m] = <<>>] /\ empty' = empty \ {m}
    BY <1>1, <2>2 DEF MergeRemove
  <2>. QED  BY <1>r, <1>g, <2>1, <2>3
<1>2. CASE MergeOpen(m)
  <2>1. MergeGoesOn(m, "opened") /\ merge[m].st = "removed" /\ m \in live
    BY <1>2 DEF MergeOpen
  <2>2. ~ MergeFails(m)
    BY <1>g, <2>1
  <2>3. file' = [file EXCEPT ![m] = <<>>] /\ empty' = empty \cup {m}
    BY <1>2, <2>2 DEF MergeOpen
  <2>. QED  BY <1>r, <1>g, <2>1, <2>3
<1>3. CASE MergeWrite(m)
  <2>. DEFINE d == merge[m].data
              w == d \o SubSeq(file[m], Len(d) + 1, Len(file[m]))
  <2>1. MergeGoesOn(m, "merged") /\ merge[m].st \in {"opened", "unlinked"} /\ m \in live /\ empty' = empty
    BY <1>3 DEF MergeWrite
  <2>2. ~ MergeFails(m)
    BY <1>g, <2>1
  <2>3. file' = IF merge[m].st = "unlinked" THEN file ELSE [file EXCEPT ![m] = w]
    BY <1>3, <2>2 DEF MergeWrite
  <2>4. d = Before \/ d = <<>>
    BY <2>1 DEF CopyInv
  <2>5. file[m] = <<>> \/ file[m] = Before
    BY DEF CopyInv
  <2>6. Len(Before) \in Nat /\ Len(<<>>) = 0 /\ Before \o <<>> = Before /\ <<>> \o Before = Before /\ <<>> \o <<>> = <<>>
    BY <1>r, LenProperties, ConcatEmptySeq, EmptySeq
  <2>7. SubSeq(Before, Len(Before) + 1, Len(Before)) = <<>> /\ SubSeq(<<>>, Len(Before) + 1, 0) = <<>>
        /\ SubSeq(<<>>, 0 + 1, 0) = <<>>
    BY <1>r, <2>6
  <2>8. SubSeq(Before, 0 + 1, Len(Before)) = Before
    BY <1>r, SubSeqFull
  <2>9. (d = Before => w = Before) /\ (d = <<>> => w = file[m])
    BY <2>5, <2>6, <2>7, <2>8
  <2>. HIDE DEF d, w
  <2>10. \/ merge[m].st = "unlinked" /\ file' = file
         \/ merge[m].st = "opened" /\ file'[m] = w /\ \A n \in Nodes : n # m => file'[n] = file[n]
    BY <1>r, <2>1, <2>3
  <2>. QED  BY <1>r, <1>g, <2>1, <2>4, <2>9, <2>10 DEF d
<1>. QED  BY <1>1, <1>2, <1>3 DEF Overwrite

\* A merge is asked for with the primary's file.
LEMMA SendCopy ==
  ASSUME TypeInv, CopyInv, NEW m \in Nodes, MergeSend(m)
  PROVE  /\ UNCHANGED <<live, view, failed, repair, file, empty, log, flush>>
         /\ \A n \in Nodes : n # m => merge'[n] = merge[n]
         /\ merge'[m].st = "sent" /\ Merged(m) /\ m \in Range(Replicas) /\ Primary \in Nodes
         /\ merge'[m].data = Before \/ (merge'[m].data = <<>> /\ missed' /\ Primary \in empty)
         /\ CopyInv' /\ \A n \in Nodes : HasFile(n) => HasFile(n)'
<1>r. merge \in [Nodes -> MergeRec] /\ live \subseteq Nodes
  BY Records DEF TypeInv, NodeType
<1>1. /\ UNCHANGED <<live, view, failed, repair, file, empty, log, flush, req, rpc>>
      /\ m \in Range(Replicas) /\ OnDisk(Primary) /\ Merged(m) /\ Miss(file[Primary] = <<>>)
      /\ merge' = [merge EXCEPT ![m] = [st |-> "sent", data |-> file[Primary], n |-> @.n + 1,
                                   calm |-> Settled /\ \A q \in Reqs : req[q].st # "new"]]
  BY DEF MergeSend, disk, failures
<1>2. Primary \in Nodes
  BY Routed DEF TypeInv
<1>3. merge'[m].st = "sent" /\ merge'[m].data = file[Primary] /\ \A n \in Nodes : n # m => merge'[n] = merge[n]
  BY <1>r, <1>1
<1>4. file[Primary] = Before \/ (file[Primary] = <<>> /\ missed' /\ Primary \in empty)
  BY <1>1, <1>2 DEF CopyInv, OnDisk, Miss
<1>5. merge[m].st \notin {"flush", "opened"} /\ ~ Overwriting(m)
  BY <1>1 DEF Merged, Overwriting
<1>6. missed => missed'
  BY <1>1 DEF Miss
<1>7. CopyInv'
  <2>1. \A n \in Nodes : flush'[n].by = "merge" => merge'[n].st = "flush"
    BY <1>1, <1>3, <1>5 DEF CopyInv
  <2>2. \A n \in Nodes : merge'[n].st # "none" => merge'[n].data = Before \/ (missed' /\ merge'[n].data = <<>>)
    BY <1>3, <1>4, <1>6 DEF CopyInv
  <2>3. ~missed' => \A n \in live' : n \in empty' /\ file'[n] = <<>> => merge'[n].st = "opened"
    BY <1>r, <1>1, <1>3, <1>5, <1>6 DEF CopyInv
  <2>. QED  BY <1>1, <2>1, <2>2, <2>3 DEF CopyInv
<1>8. ASSUME NEW n \in Nodes, HasFile(n) PROVE HasFile(n)'
  <2>1. UNCHANGED <<file, log, repair>> /\ From(n)' = From(n)
    BY <1>1 DEF From
  <2>2. Overwriting(n) => Overwriting(n)'
    BY <1>3, <1>5 DEF Overwriting
  <2>. QED  BY <1>8, <2>1, <2>2 DEF HasFile
<1>. QED  BY <1>1, <1>2, <1>3, <1>4, <1>7, <1>8

LEMMA MergeCopy ==
  ASSUME TypeInv, CopyInv, errs' = {}, Before # <<>>, NEW m \in Nodes, Merge(m), ~ MergeSend(m)
  PROVE  /\ CopyInv' /\ UNCHANGED <<live, view, failed, repair, log, missed>>
         /\ \A n \in Nodes : n # m => merge'[n] = merge[n] /\ file'[n] = file[n] /\ (n \in empty' <=> n \in empty)
         /\ merge[m].st # "none" /\ merge'[m].data = merge[m].data
         /\ file'[m] = Before \/ file'[m] = file[m] \/ Overwriting(m)'
         /\ Overwriting(m) => Overwriting(m)' \/ (merge[m].data = Before => file'[m] = Before)
         /\ ~missed => \A n \in live : HasFile(n) => HasFile(n)'
<1>r. /\ file \in [Nodes -> Seq(Reqs)] /\ log \in [Nodes -> Seq(EntryRec)]
      /\ flush \in [Nodes -> FlushRec] /\ merge \in [Nodes -> MergeRec]
      /\ live \subseteq Nodes
  BY Records DEF TypeInv, NodeType
<1>0. UNCHANGED <<live, view, failed, repair, log, req, rpc, missed>>
  BY OverwriteForm DEF Merge, MergeArrive, MergeLock, disk, failures
\* What is left to show of the file and of the call.
<1>q. ASSUME \A n \in Nodes : n # m => merge'[n] = merge[n] /\ file'[n] = file[n] /\ (n \in empty' <=> n \in empty),
             merge'[m].data = merge[m].data, merge[m].st # "none",
             \A n \in Nodes : From(n)' = From(n),
             file'[m] = Before \/ file'[m] = file[m] \/ Overwriting(m)',
             Overwriting(m) => Overwriting(m)' \/ (merge[m].data = Before => file'[m] = Before),
             file'[m] = <<>> \/ file'[m] = Before,
             \A n \in Nodes : flush'[n].by = "merge" => merge'[n].st = "flush",
             ~missed => (m \in empty' /\ file'[m] = <<>> => merge'[m].st = "opened")
      PROVE  /\ CopyInv' /\ UNCHANGED <<live, view, failed, repair, log, missed>>
             /\ ~missed => \A n \in live : HasFile(n) => HasFile(n)'
  <2>1. \A n \in Nodes : file'[n] = <<>> \/ file'[n] = Before
    BY <1>q DEF CopyInv
  <2>2. \A n \in Nodes : merge'[n].st # "none" => merge'[n].data = Before \/ (missed' /\ merge'[n].data = <<>>)
    BY <1>0, <1>q DEF CopyInv
  <2>3. ~missed' => \A n \in live' : n \in empty' /\ file'[n] = <<>> => merge'[n].st = "opened"
    BY <1>r, <1>0, <1>q DEF CopyInv
  <2>4. CopyInv'
    BY <1>0, <1>q, <2>1, <2>2, <2>3 DEF CopyInv
  <2>5. ASSUME ~missed, NEW n \in live, n \in Nodes, HasFile(n) PROVE HasFile(n)'
    <3>1. log'[n] = log[n] /\ repair' = repair /\ From(n)' = From(n)
      BY <1>0, <1>q, <2>5
    <3>2. CASE n # m
      BY <1>q, <2>5, <3>1, <3>2 DEF HasFile, Overwriting
    <3>3. CASE n = m
      <4>1. Overwriting(m) => merge[m].data = Before
        BY <2>5 DEF CopyInv, Overwriting
      <4>. QED  BY <1>q, <2>5, <3>1, <3>3, <4>1 DEF HasFile
    <3>. QED  BY <3>2, <3>3
  <2>. QED  BY <1>r, <1>0, <2>4, <2>5
<1>1. CASE MergeArrive(m)
  <2>1. /\ file' = file /\ empty' = empty /\ flush' = flush /\ merge[m].st = "sent" /\ m \in live
        /\ merge' = [merge EXCEPT ![m].st = IF NeedsMerge(m) THEN "lock" ELSE "write"]
    BY <1>1 DEF MergeArrive, disk
  <2>2. merge'[m].st # "none" /\ merge'[m].data = merge[m].data /\ \A n \in Nodes : n # m => merge'[n] = merge[n]
    BY <1>r, <2>1 DEF MergeRec
  <2>3. \A n \in Nodes : flush'[n].by = "merge" => merge'[n].st = "flush"
    BY <2>1, <2>2 DEF CopyInv
  <2>4. \A n \in Nodes : From(n)' = From(n)
    BY <2>1 DEF From
  <2>5. ~ Overwriting(m) /\ (~missed => (m \in empty' /\ file'[m] = <<>> => merge'[m].st = "opened"))
    BY <2>1 DEF Overwriting, CopyInv
  <2>6. (file'[m] = <<>> \/ file'[m] = Before) /\ file'[m] = file[m] /\ merge[m].st # "none"
    BY <2>1 DEF CopyInv
  <2>. QED  BY <1>q, <2>1, <2>2, <2>3, <2>4, <2>5, <2>6
<1>2. CASE MergeLock(m)
  <2>1. /\ file' = file /\ empty' = empty /\ merge[m].st = "lock" /\ flush[m] = Idle /\ m \in live
        /\ flush' = [flush EXCEPT ![m] = [i |-> 1, by |-> "merge"]]
        /\ merge' = [merge EXCEPT ![m].st = "flush"]
    BY <1>2 DEF MergeLock, LogFree, disk
  <2>2. /\ merge'[m].st = "flush" /\ merge'[m].data = merge[m].data
        /\ \A n \in Nodes : n # m => merge'[n] = merge[n] /\ flush'[n] = flush[n]
    BY <1>r, <2>1 DEF MergeRec
  <2>3. \A n \in Nodes : flush'[n].by = "merge" => merge'[n].st = "flush"
    BY <2>2 DEF CopyInv
  <2>4. \A n \in Nodes : From(n)' = From(n)
    BY <1>r, <2>1 DEF From, Idle
  <2>5. ~ Overwriting(m) /\ (~missed => (m \in empty' /\ file'[m] = <<>> => merge'[m].st = "opened"))
    BY <2>1 DEF Overwriting, CopyInv
  <2>6. (file'[m] = <<>> \/ file'[m] = Before) /\ file'[m] = file[m] /\ merge[m].st # "none"
    BY <2>1 DEF CopyInv
  <2>. QED  BY <1>q, <2>1, <2>2, <2>3, <2>4, <2>5, <2>6
<1>3. CASE Overwrite(m)
  <2>1. flush' = flush
    BY <1>3, OverwriteForm
  <2>2. \A n \in Nodes : From(n)' = From(n)
    BY <1>0, <2>1 DEF From
  <2>3. merge[m].st \notin {"none", "flush"}
    BY <1>3, OverwriteForm
  <2>4. /\ \A n \in Nodes : n # m => merge'[n] = merge[n] /\ file'[n] = file[n] /\ (n \in empty' <=> n \in empty)
        /\ merge'[m].data = merge[m].data /\ m \in live
    BY <1>3, OverwriteCopy
  <2>5. \A n \in Nodes : flush'[n].by = "merge" => merge'[n].st = "flush"
    BY <2>1, <2>3, <2>4 DEF CopyInv
  <2>6. \/ merge[m].st = "write" /\ merge'[m].st = "removed" /\ file'[m] = <<>> /\ m \notin empty'
        \/ merge[m].st = "removed" /\ merge'[m].st = "opened" /\ file'[m] = <<>>
        \/ /\ merge[m].st = "opened" /\ merge'[m].st = "merged" /\ empty' = empty
           /\ file'[m] = file[m] \/ file'[m] = Before
           /\ merge[m].data = Before => file'[m] = Before
        \/ /\ merge[m].st = "unlinked" /\ merge'[m].st = "merged" /\ empty' = empty
           /\ file'[m] = file[m]
    BY <1>3, OverwriteCopy
  <2>7. /\ file'[m] = Before \/ file'[m] = file[m] \/ Overwriting(m)'
        /\ Overwriting(m) => Overwriting(m)' \/ (merge[m].data = Before => file'[m] = Before)
        /\ file'[m] = <<>> \/ file'[m] = Before
    BY <2>6 DEF Overwriting, CopyInv
  <2>8. ~missed => (m \in empty' /\ file'[m] = <<>> => merge'[m].st = "opened")
    <3>1. ~missed => merge[m].data = Before /\ (m \in empty /\ file[m] = <<>> => merge[m].st = "opened")
      BY <2>3, <2>4 DEF CopyInv
    <3>. QED  BY <2>6, <3>1
  <2>. QED  BY <1>q, <2>2, <2>3, <2>4, <2>5, <2>7, <2>8
<1>. QED  BY <1>1, <1>2, <1>3 DEF Merge

\* A crash leaves the disks alone; what the failed node had sent or was sent is lost,
\* but for a copy that is to be put in the log of another node.
LEMMA CrashCopy ==
  ASSUME TypeInv, CopyInv, NEW m \in Nodes, Crash(m)
  PROVE  /\ CopyInv' /\ live' = live \ {m} /\ m \in live
         /\ UNCHANGED <<view, failed, file, empty, log, missed>>
         /\ \A n \in Nodes : /\ repair'[n].to = repair[n].to
                             /\ repair'[n].st = repair[n].st \/ repair'[n].st = "idle"
                             /\ repair'[n].todo \subseteq repair[n].todo
         /\ \A n \in Nodes : merge'[n] = merge[n] \/ (n = m /\ merge'[n].st = "none")
         /\ \A n \in Nodes \ {m} : HasFile(n) => HasFile(n)'
<1>r. /\ file \in [Nodes -> Seq(Reqs)] /\ log \in [Nodes -> Seq(EntryRec)]
      /\ flush \in [Nodes -> FlushRec] /\ merge \in [Nodes -> MergeRec]
      /\ repair \in [Nodes -> RepairRec]
  BY Records
<1>1. /\ live' = live \ {m} /\ m \in live /\ UNCHANGED <<view, failed, file, empty, log, missed>>
      /\ flush' = [flush EXCEPT ![m] = Idle] /\ merge' = [merge EXCEPT ![m].st = "none"]
      /\ repair' = [s \in Nodes |->
           CASE s = m -> [repair[s] EXCEPT !.todo = {}, !.st = IF @ = "mapped" THEN @ ELSE "idle"]
             [] s # m /\ repair[s].to = m -> [repair[s] EXCEPT !.st = "idle"]
             [] OTHER -> repair[s]]
  BY DEF Crash, disk
<1>2. /\ req' = [q \in Reqs |->
           IF req[q].at = m /\ req[q].st \in {"sent", "mapped", "call", "wait"}
             THEN [req[q] EXCEPT !.st = "failed"] ELSE req[q]]
      /\ rpc' = [c \in Reqs \X Slots |->
           IF rpc[c].to = m /\ rpc[c].st \in {"sent", "mapped"}
             THEN [rpc[c] EXCEPT !.st = "lost"] ELSE rpc[c]]
  BY DEF Crash
<1>3. (\A q \in Reqs : req'[q].st = "acked") /\ (\A c \in Reqs \X Slots : rpc'[c].st = "logged")
  BY <1>2 DEF CopyInv
<1>4. ASSUME NEW n \in Nodes
      PROVE  /\ repair'[n].to = repair[n].to /\ repair'[n].data = repair[n].data
             /\ repair'[n].st = repair[n].st \/ repair'[n].st = "idle"
             /\ repair'[n].todo \subseteq repair[n].todo
             /\ repair[n].st = "mapped" /\ repair[n].to # m => repair'[n].st = "mapped"
  <2>0. repair[n] \in RepairRec
    BY <1>r
  <2>1. CASE n = m
    <3>1. repair'[n] = [repair[n] EXCEPT !.todo = {}, !.st = IF @ = "mapped" THEN @ ELSE "idle"]
      BY <1>1, <2>1
    <3>. QED  BY <2>0, <3>1 DEF RepairRec
  <2>2. CASE n # m /\ repair[n].to = m
    <3>1. repair'[n] = [repair[n] EXCEPT !.st = "idle"]
      BY <1>1, <2>2
    <3>. QED  BY <2>0, <2>2, <3>1 DEF RepairRec
  <2>3. CASE n # m /\ repair[n].to # m
    BY <1>1, <2>3
  <2>. QED  BY <2>1, <2>2, <2>3
<1>5. /\ merge'[m].st = "none" /\ flush'[m] = Idle
      /\ \A n \in Nodes : n # m => merge'[n] = merge[n] /\ flush'[n] = flush[n]
  BY <1>r, <1>1 DEF MergeRec
<1>6. CopyInv'
  <2>1. \A n \in Nodes : flush'[n].by = "merge" => merge'[n].st = "flush"
    BY <1>5 DEF CopyInv, Idle
  <2>2. \A n \in Nodes : merge'[n].st # "none" => merge'[n].data = Before \/ (missed' /\ merge'[n].data = <<>>)
    <3>1. SUFFICES ASSUME NEW n \in Nodes, merge'[n].st # "none"
                   PROVE  merge'[n].data = Before \/ (missed' /\ merge'[n].data = <<>>)
      OBVIOUS
    <3>2. merge'[n] = merge[n] /\ missed' = missed
      BY <1>1, <1>5, <3>1
    <3>3. merge[n].data = Before \/ (missed /\ merge[n].data = <<>>)
      BY <3>1, <3>2 DEF CopyInv
    <3>. QED  BY <3>2, <3>3
  <2>3. ASSUME NEW n \in Nodes, repair'[n].st # "idle" PROVE repair'[n].data = Before
    <3>1. repair[n].st # "idle" /\ repair'[n].data = repair[n].data
      BY <1>4, <2>3
    <3>. QED  BY <3>1 DEF CopyInv
  <2>4. (\A n \in Nodes : file'[n] = <<>> \/ file'[n] = Before)
        /\ \A n \in Nodes : \A i \in 1 .. Len(log'[n]) : log'[n][i] = Replica(Before)
    BY <1>1 DEF CopyInv
  <2>5. ~missed' => \A n \in live' : n \in empty' /\ file'[n] = <<>> => merge'[n].st = "opened"
    <3>1. live \subseteq Nodes
      BY DEF TypeInv, NodeType
    <3>. QED  BY <1>1, <1>5, <3>1 DEF CopyInv
  <2>. QED  BY <1>3, <2>1, <2>2, <2>3, <2>4, <2>5 DEF CopyInv
<1>7. ASSUME NEW n \in Nodes \ {m}, HasFile(n) PROVE HasFile(n)'
  <2>1. file'[n] = file[n] /\ log'[n] = log[n]
    BY <1>1
  <2>2. From(n)' = From(n)
    BY <1>5 DEF From
  <2>3. \A s \in Nodes : repair[s].st = "mapped" /\ repair[s].to = n =>
                         repair'[s].st = "mapped" /\ repair'[s].to = n
    BY <1>4
  <2>4. merge'[n] = merge[n]
    BY <1>5
  <2>. QED  BY <1>7, <2>1, <2>2, <2>3, <2>4 DEF HasFile, Overwriting
<1>8. \A n \in Nodes : merge'[n] = merge[n] \/ (n = m /\ merge'[n].st = "none")
  BY <1>5
<1>. QED  BY <1>1, <1>4, <1>6, <1>7, <1>8


LEMMA RepairCopy ==
  ASSUME TypeInv, CopyInv, errs' = {}, NEW m \in Nodes, Repair(m)
  PROVE  CopyInv' /\ \A n \in Nodes : HasFile(n) => HasFile(n)'
<1>r. /\ file \in [Nodes -> Seq(Reqs)] /\ log \in [Nodes -> Seq(EntryRec)]
      /\ repair \in [Nodes -> RepairRec] /\ repair[m] \in RepairRec /\ repair[m].to \in Nodes
      /\ merge \in [Nodes -> MergeRec]
      /\ \A n \in Nodes : Len(log[n]) \in Nat /\ From(n) \in 1 .. Len(log[n]) + 1
  BY Records DEF RepairRec
<1>0. UNCHANGED <<flush, req, rpc, live>> /\ live \subseteq Nodes
  BY DEF Repair, RepairBegin, RepairSend, RepairArrive, RepairLog, disk, TypeInv, NodeType
<1>m. missed => missed'
  BY DEF Repair, RepairBegin, RepairSend, RepairArrive, RepairLog, Miss
<1>e. ASSUME UNCHANGED <<file, empty, merge>>
      PROVE  /\ ~missed' => \A n \in live' : n \in empty' /\ file'[n] = <<>> => merge'[n].st = "opened"
             /\ \A n \in Nodes : merge'[n].st # "none" => merge'[n].data = Before \/ (missed' /\ merge'[n].data = <<>>)
             /\ \A n \in Nodes : flush'[n].by = "merge" => merge'[n].st = "flush"
             /\ \A n \in Nodes : Overwriting(n) => Overwriting(n)'
  BY <1>0, <1>m, <1>e DEF CopyInv, Overwriting
<1>1. \A n \in Nodes : flush'[n] = flush[n]
  BY <1>0
<1>2. CASE RepairBegin(m)
  <2>1. /\ file' = file /\ log' = log /\ repair[m].st = "idle" /\ UNCHANGED <<empty, merge>>
        /\ repair' = [repair EXCEPT ![m].todo =
                  IF OnDisk(m) THEN Receivers(m, FileHash, view, failed[m]) ELSE {}]
    BY <1>2 DEF RepairBegin, disk
  <2>2. \A s \in Nodes : /\ repair'[s].st = repair[s].st /\ repair'[s].to = repair[s].to
                         /\ repair'[s].data = repair[s].data
    BY <1>r, <2>1 DEF RepairRec
  <2>3. CopyInv'
    BY <1>0, <1>e, <2>1, <2>2 DEF CopyInv
  <2>4. \A n \in Nodes : HasFile(n) => HasFile(n)'
    BY <1>1, <1>e, <2>1, <2>2 DEF HasFile, From
  <2>. QED  BY <2>3, <2>4
<1>3. CASE RepairSend(m)
  <2>1. /\ file' = file /\ log' = log /\ repair[m].st = "idle" /\ UNCHANGED <<empty, merge>>
        /\ \E to \in repair[m].todo :
             repair' = [repair EXCEPT ![m] =
               [todo |-> @.todo \ {to}, to |-> to, data |-> file[m],
                st |-> IF ~Csv /\ file[m] # <<>> /\ to \in live THEN "sent" ELSE "idle"]]
    BY <1>3 DEF RepairSend, disk
  <2>2. /\ \A s \in Nodes : s # m => repair'[s] = repair[s]
        /\ repair'[m].data = file[m] /\ repair'[m].st # "idle" => file[m] # <<>>
    BY <1>r, <2>1
  <2>3. CopyInv'
    BY <1>0, <1>e, <2>1, <2>2 DEF CopyInv
  <2>4. \A s \in Nodes : repair[s].st = "mapped" => repair'[s] = repair[s]
    BY <2>1, <2>2
  <2>5. \A n \in Nodes : HasFile(n) => HasFile(n)'
    BY <1>1, <1>e, <2>1, <2>4 DEF HasFile, From
  <2>. QED  BY <2>3, <2>5
<1>4. CASE RepairArrive(m)
  <2>. DEFINE r == repair[m].to
  <2>1. /\ log' = log /\ repair[m].st = "sent" /\ missed' = missed
        /\ file' = [file EXCEPT ![r] = <<>>] /\ empty' = empty \ {r}
        /\ merge' = [merge EXCEPT ![r].st = IF @ = "opened" THEN "unlinked" ELSE @]
        /\ repair' = [repair EXCEPT ![m].st = "mapped"]
    BY <1>4 DEF RepairArrive
  <2>2. /\ \A s \in Nodes : s # m => repair'[s] = repair[s]
        /\ repair'[m].data = repair[m].data /\ repair'[m].st = "mapped" /\ repair'[m].to = r
    BY <1>r, <2>1 DEF RepairRec
  <2>3. file'[r] = <<>> /\ \A n \in Nodes : n # r => file'[n] = file[n] /\ merge'[n] = merge[n]
    BY <1>r, <2>1
  <2>m. /\ merge'[r].data = merge[r].data
        /\ merge'[r].st = merge[r].st \/ (merge[r].st = "opened" /\ merge'[r].st = "unlinked")
    BY <1>r, <2>1 DEF MergeRec
  <2>. HIDE DEF r
  <2>e. ~missed' => \A n \in live' : n \in empty' /\ file'[n] = <<>> => merge'[n].st = "opened"
    BY <1>0, <2>1, <2>3 DEF CopyInv
  <2>d. \A n \in Nodes : merge'[n].st # "none" => merge'[n].data = Before \/ (missed' /\ merge'[n].data = <<>>)
    BY <2>1, <2>3, <2>m DEF CopyInv
  <2>f. \A n \in Nodes : flush'[n].by = "merge" => merge'[n].st = "flush"
    BY <1>0, <2>3, <2>m DEF CopyInv
  <2>4. CopyInv'
    BY <1>0, <2>1, <2>2, <2>3, <2>e, <2>d, <2>f DEF CopyInv
  <2>5. \A s \in Nodes : repair[s].st = "mapped" => repair'[s] = repair[s]
    BY <2>1, <2>2
  <2>6. ASSUME NEW n \in Nodes, HasFile(n) PROVE HasFile(n)'
    <3>1. CASE n = r
      BY <2>2, <3>1 DEF HasFile
    <3>2. CASE n # r
      <4>1. file'[n] = file[n] /\ log'[n] = log[n] /\ From(n)' = From(n) /\ merge'[n] = merge[n]
        BY <1>1, <2>1, <2>3, <2>6, <3>2 DEF From
      <4>. QED  BY <2>5, <2>6, <4>1 DEF HasFile, Overwriting
    <3>. QED  BY <3>1, <3>2
  <2>. QED  BY <2>4, <2>6
<1>5. CASE RepairLog(m)
  <2>. DEFINE r == repair[m].to
  <2>1. /\ file' = file /\ repair[m].st = "mapped" /\ flush[r] = Idle /\ UNCHANGED <<empty, merge>>
        /\ log' = [log EXCEPT ![r] = Append(@, Replica(repair[m].data))]
        /\ repair' = [repair EXCEPT ![m].st = "idle"]
    BY <1>5, NoErrors DEF RepairLog, WriteLog, LogFree, Append1
  <2>2. /\ \A s \in Nodes : s # m => repair'[s] = repair[s]
        /\ repair'[m].data = repair[m].data /\ repair'[m].st = "idle" /\ repair'[m].to = r
    BY <1>r, <2>1 DEF RepairRec
  <2>3. log'[r] = Append(log[r], Replica(Before)) /\ \A n \in Nodes : n # r => log'[n] = log[n]
    BY <1>r, <2>1 DEF CopyInv
  <2>4. r \in Nodes /\ log[r] \in Seq(EntryRec) /\ Replica(Before) \in EntryRec
    <3>1. Before \in Seq(Reqs)
      BY HydfsAssumption DEF HydfsAssumption
    <3>. QED  BY <1>r, <3>1, EntryTypes
  <2>. HIDE DEF r
  <2>5. /\ Len(log'[r]) = Len(log[r]) + 1 /\ Len(log[r]) \in Nat
        /\ \A i \in 1 .. Len(log[r]) : log'[r][i] = log[r][i]
        /\ log'[r][Len(log[r]) + 1] = Replica(Before)
    BY <2>3, <2>4, AppendProperties, LenProperties
  <2>6. \A i \in 1 .. Len(log'[r]) : log'[r][i] = Replica(Before)
    <3>1. \A i \in 1 .. Len(log'[r]) : i \in 1 .. Len(log[r]) \/ i = Len(log[r]) + 1
      BY <2>5
    <3>. QED  BY <2>4, <2>5, <3>1 DEF CopyInv
  <2>7. CopyInv'
    BY <1>0, <1>e, <2>1, <2>2, <2>3, <2>6 DEF CopyInv
  <2>8. ASSUME NEW n \in Nodes, HasFile(n) PROVE HasFile(n)'
    <3>1. CASE n = r
      <4>1. From(n)' = 1 /\ 1 <= Len(log'[n])
        BY <1>1, <2>1, <2>5, <3>1 DEF From
      <4>. QED  BY <4>1 DEF HasFile
    <3>2. CASE n # r
      <4>1. file'[n] = file[n] /\ log'[n] = log[n] /\ From(n)' = From(n)
        BY <1>1, <2>1, <2>3, <3>2 DEF From
      <4>2. \A s \in Nodes : repair[s].to = n /\ repair[s].st = "mapped" => repair'[s] = repair[s]
        BY <2>2, <3>2 DEF r
      <4>. QED  BY <1>e, <2>1, <2>8, <4>1, <4>2 DEF HasFile
    <3>. QED  BY <3>1, <3>2
  <2>. QED  BY <2>7, <2>8
<1>. QED  BY <1>2, <1>3, <1>4, <1>5 DEF Repair

LEMMA OtherCopy ==
  ASSUME TypeInv, CopyInv, Read \/ UNCHANGED vars \/ \E m \in Nodes : Detect(m)
  PROVE  CopyInv' /\ (\A n \in Nodes : HasFile(n) => HasFile(n)') /\ UNCHANGED <<live, repair, file, empty, log, merge, missed>>
<1>1. UNCHANGED <<live, file, empty, log, merge, repair, req, rpc, missed>>
  BY DEF Read, ReadStart, ReadLock, ReadOpen, Detect, vars, disk, failures
<1>2. \A n \in Nodes : From(n)' = From(n) /\ (flush'[n].by = "merge" => flush[n].by = "merge")
  <2>1. CASE ReadLock
    <3>1. flush \in [Nodes -> FlushRec]
      BY Records
    <3>2. /\ flush[read.at] = Idle
          /\ flush' = [flush EXCEPT ![read.at] = [i |-> 1, by |-> "read"]]
      BY <2>1 DEF ReadLock, LogFree
    <3>. QED  BY <3>1, <3>2 DEF From, Idle
  <2>2. CASE ~ ReadLock
    <3>1. flush' = flush
      BY <2>2 DEF Read, ReadStart, ReadOpen, Detect, vars
    <3>. QED  BY <3>1 DEF From
  <2>. QED  BY <2>1, <2>2
<1>3. CopyInv'
  BY <1>1, <1>2 DEF CopyInv
<1>4. \A n \in Nodes : HasFile(n) => HasFile(n)'
  BY <1>1, <1>2 DEF HasFile, Overwriting
<1>. QED  BY <1>1, <1>3, <1>4


\* Who is to have and to send what is a matter of the ring, and does not change.
LEMMA RingStays ==
  ASSUME NEW CONSTANT f
  PROVE  /\ OldPlaces' = OldPlaces /\ NewPlaces(f)' = NewPlaces(f)
         /\ \A s : SendsTo(s, f)' = SendsTo(s, f)
         /\ \A s : (Bare(s, f)' <=> Bare(s, f)) /\ (Safe(s, f)' <=> Safe(s, f))
         /\ First(f)' = First(f) /\ Owner' = Owner
BY DEF OldPlaces, NewPlaces, SendsTo, Bare, Safe, First, Owner

\* Whom merges gave the whole file before they did if they still do.
LEMMA TrustedStays ==
  ASSUME TypeInv, [Next]_vars, NEW CONSTANT f, NEW n, Trusted(n, f)'
  PROVE  Trusted(n, f)
BY MissedShrinks, RingStays DEF Trusted

\* The primary, whether f is in the list or not, and the replicas it has.
LEMMA PrimaryIs ==
  ASSUME TypeInv, Cardinality(Nodes) >= 5, NEW CONSTANT f \in Nodes, SenderInv(f)
  PROVE  /\ view = Nodes => Primary = Owner
         /\ view # Nodes => Primary = First(f)
         /\ f # Owner => First(f) = Owner
         /\ \A n \in Range(Replicas) : n # Primary /\ n \in Range(Routing)
<1>1. /\ Nodes \subseteq Nat /\ IsFiniteSet(Nodes) /\ FileHash \in Nat
      /\ view = Nodes \/ view = Nodes \ {f}
  BY HydfsAssumption DEF HydfsAssumption, SenderInv
<1>2. IsFiniteSet(view) /\ Cardinality(view) >= 3 /\ view \subseteq Nat
  <2>1. IsFiniteSet(Nodes \ {f}) /\ Cardinality(Nodes \ {f}) = Cardinality(Nodes) - 1 /\ Cardinality(Nodes) \in Nat
    <3>1. IsFiniteSet(Nodes \ {f}) /\ Cardinality(Nodes \ {f}) = Cardinality(Nodes) - 1
      BY <1>1, FS_RemoveElement
    <3>2. Cardinality(Nodes) \in Nat
      BY <1>1, FS_CardinalityType
    <3>. QED  BY <3>1, <3>2
  <2>2. CASE view = Nodes
    BY <1>1, <2>1, <2>2
  <2>3. CASE view = Nodes \ {f}
    <3>1. view \subseteq Nodes
      BY <2>3
    <3>2. Cardinality(view) = Cardinality(Nodes) - 1 /\ IsFiniteSet(view)
      BY <2>1, <2>3
    <3>. QED  BY <1>1, <2>1, <3>1, <3>2
  <2>. QED  BY <1>1, <2>2, <2>3
<1>3. view # {}
  BY <1>2, FS_EmptySet
<1>4. /\ \A k \in 1 .. 2 : Replicas[k] # Primary
      /\ Replicas \in Seq(view) /\ Len(Replicas) = 2 /\ Routing \in Seq(view) /\ Len(Routing) = 3
      /\ \A k \in 1 .. 2 : Replicas[k] = Routing[k + 1]
  <2>. DEFINE F == FileRouting(FileHash, view)
  <2>1. /\ F \in Seq(view) /\ Len(F) = 3 /\ Tail(F) \in Seq(view) /\ Len(Tail(F)) = 2
        /\ \A k \in 1 .. 2 : Tail(F)[k] = F[k + 1]
    BY <1>1, <1>2, <1>3, RoutingType
  <2>2. \A k \in 1 .. 2 : Tail(F)[k] # F[1]
    BY <1>1, <1>2, RoutingDistinct
  <2>3. Routing = F /\ Primary = F[1] /\ Replicas = Tail(F)
    BY DEF Routing, Primary, Replicas
  <2>. HIDE DEF F
  <2>. QED  BY <2>1, <2>2, <2>3
<1>5. /\ DOMAIN Replicas = 1 .. 2 /\ DOMAIN Routing = 1 .. 3
      /\ \A k \in 1 .. 2 : k + 1 \in 1 .. 3
  BY <1>4, LenProperties
<1>6. \A n \in Range(Replicas) : n # Primary /\ n \in Range(Routing)
  BY <1>4, <1>5 DEF Range
<1>7. (view = Nodes => Primary = Owner) /\ (view # Nodes => Primary = First(f))
  BY <1>1 DEF Primary, Routing, Owner, First
<1>8. f # Owner => First(f) = Owner
  <2>1. Owner = Succ(FileHash, Nodes) /\ First(f) = Succ(FileHash, Nodes \ {f})
    BY DEF Owner, First, FileRouting
  <2>2. Nodes \ {f} # {}
    <3>1. Cardinality({f}) = 1
      BY FS_Singleton
    <3>2. Nodes # {f}
      BY <3>1
    <3>. QED  BY <3>2
  <2>3. \A x \in Nat : Succ(x, Nodes \ {f}) = IF Succ(x, Nodes) = f THEN Succ(f, Nodes) ELSE Succ(x, Nodes)
    BY <1>1, <2>2, SuccWithout
  <2>. QED  BY <1>1, <2>1, <2>3
<1>. QED  BY <1>6, <1>7, <1>8

LEMMA PlacesAre == OldPlaces \subseteq Nodes
<1>1. Nodes \subseteq Nat /\ Nodes # {} /\ FileHash \in Nat
  BY HydfsAssumption, FS_EmptySet DEF HydfsAssumption
<1>2. FileRouting(FileHash, Nodes) \in Seq(Nodes)
  BY <1>1, RoutingType
<1>. QED  BY <1>2 DEF OldPlaces, Range

\* Copies, sends and failures noted are as before: so is the invariant.
LEMMA SenderSame ==
  ASSUME NEW CONSTANT f \in Nodes, AtMost(f), FailInv(f), UNCHANGED <<live, view, failed, repair>>,
         ~missed' => ~missed, ~missed' => \A n \in live : HasFile(n) => HasFile(n)'
  PROVE  SenderInv(f)' /\ OwedInv(f)'
<1>1. SenderInv(f)'
  BY RingStays DEF FailInv, SenderInv
<1>0. Nodes \ {f} \subseteq live
  BY DEF AtMost
<1>2. ASSUME ~missed', NEW z \in Nodes, NEW d \in Nodes \ {f}, Owed(z, d, f) PROVE Owed(z, d, f)'
  BY <1>0, <1>2 DEF Owed
<1>3. \A z : SendsTo(z, f) \subseteq Nodes \ {f}
  BY ReceiversType DEF SendsTo
<1>4. ~missed' => \A n \in OldPlaces \ {f} : HasFile(n)'
  BY <1>0, PlacesAre DEF FailInv, OwedInv
<1>5. ~missed' /\ (view # Nodes)' /\ ~Csv => \A z \in Nodes : Safe(z, f) => \A d \in SendsTo(z, f) : Owed(z, d, f)'
  BY <1>2, <1>3 DEF FailInv, OwedInv
<1>. QED  BY <1>1, <1>4, <1>5, RingStays DEF OwedInv


LEMMA FailFlush ==
  ASSUME TypeInv, CopyInv, errs' = {}, NEW CONSTANT f \in Nodes, AtMost(f), FailInv(f),
         NEW m \in Nodes, Flush(m)
  PROVE  FailInv(f)'
<1>1. /\ UNCHANGED <<live, view, failed, repair, empty, missed>>
      /\ \A n \in Nodes : file'[n] = file[n] \/ (file'[n] = Before /\ log[n] # <<>>)
      /\ \A n \in Nodes : log'[n] = log[n] \/ log'[n] = <<>>
      /\ \A n \in Nodes : /\ merge'[n].data = merge[n].data
                          /\ merge'[n].st = merge[n].st \/ (merge[n].st = "flush" /\ merge'[n].st = "write")
      /\ ~missed => \A n \in live : HasFile(n) => HasFile(n)'
  BY FlushCopy
<1>2. SenderInv(f)' /\ OwedInv(f)'
  BY <1>1, SenderSame
<1>t. \A n : Trusted(n, f)' <=> Trusted(n, f)
  BY <1>1, RingStays DEF Trusted
<1>3. BareInv(f)'
  BY <1>1, RingStays DEF FailInv, BareInv
<1>4. SafeInv(f)'
  BY <1>1, <1>t, RingStays DEF FailInv, SafeInv, Overwriting
<1>5. DataInv(f)'
  BY <1>1, <1>t, RingStays, Home DEF FailInv, DataInv
<1>. QED  BY <1>2, <1>3, <1>4, <1>5 DEF FailInv

\* A merge that is asked for; the primary to be is not asked.
LEMMA FailSend ==
  ASSUME TypeInv, CopyInv, Cardinality(Nodes) >= 5, NEW CONSTANT f \in Nodes, AtMost(f),
         FailInv(f), NEW m \in Nodes, MergeSend(m)
  PROVE  FailInv(f)'
<1>1. /\ UNCHANGED <<live, view, failed, repair, file, empty, log>>
      /\ \A n \in Nodes : n # m => merge'[n] = merge[n]
      /\ merge'[m].st = "sent" /\ Merged(m) /\ m \in Range(Replicas) /\ Primary \in Nodes
      /\ merge'[m].data = Before \/ (merge'[m].data = <<>> /\ missed' /\ Primary \in empty)
      /\ \A n \in Nodes : HasFile(n) => HasFile(n)'
  BY SendCopy
<1>0. SenderInv(f) /\ live \subseteq Nodes /\ (~missed' => ~missed)
  BY DEF FailInv, TypeInv, NodeType, MergeSend, Miss
<1>p. /\ view = Nodes => Primary = Owner
      /\ view # Nodes => Primary = First(f)
      /\ f # Owner => First(f) = Owner
      /\ m # Primary /\ m \in Range(Routing)
  BY <1>0, <1>1, PrimaryIs
<1>2. SenderInv(f)' /\ OwedInv(f)'
  BY <1>0, <1>1, SenderSame
<1>3. BareInv(f)'
  <2>1. ~ Bare(m, f)
    BY <1>p, Zenon DEF FailInv, SenderInv, Bare, Routing, OldPlaces, NewPlaces
  <2>. QED  BY <1>1, <2>1, RingStays DEF FailInv, BareInv
<1>t. \A n : Trusted(n, f)' => Trusted(n, f)
  BY <1>0, RingStays DEF Trusted
<1>4. SafeInv(f)'
  <2>1. ~ Overwriting(m)
    BY <1>1 DEF Merged, Overwriting
  <2>. QED  BY <1>1, <1>t, <2>1, RingStays DEF FailInv, SafeInv, Overwriting
<1>5. DataInv(f)'
  <2>1. view = Nodes \/ f # Owner => Owner # m /\ Owner \notin empty /\ Primary = Owner
    BY <1>p DEF FailInv, DataInv
  <2>2. Trusted(m, f)' => merge'[m].data = Before
    BY <1>1, <1>p, <2>1, RingStays DEF Trusted
  <2>. QED  BY <1>1, <1>t, <2>1, <2>2, RingStays, Home DEF FailInv, DataInv
<1>. QED  BY <1>2, <1>3, <1>4, <1>5 DEF FailInv

LEMMA FailMerge ==
  ASSUME TypeInv, CopyInv, errs' = {}, AllDone, Cardinality(Nodes) >= 5, NEW CONSTANT f \in Nodes,
         AtMost(f), FailInv(f), NEW m \in Nodes, Merge(m)
  PROVE  FailInv(f)'
<1>. SUFFICES ASSUME ~ MergeSend(m) PROVE FailInv(f)'
  BY FailSend
<1>1. /\ UNCHANGED <<live, view, failed, repair, log, missed>>
      /\ \A n \in Nodes : n # m => merge'[n] = merge[n] /\ file'[n] = file[n] /\ (n \in empty' <=> n \in empty)
      /\ merge[m].st # "none" /\ merge'[m].data = merge[m].data
      /\ file'[m] = Before \/ file'[m] = file[m] \/ Overwriting(m)'
      /\ Overwriting(m) => Overwriting(m)' \/ (merge[m].data = Before => file'[m] = Before)
      /\ ~missed => \A n \in live : HasFile(n) => HasFile(n)'
  BY MergeCopy DEF AllDone
<1>2. SenderInv(f)' /\ OwedInv(f)'
  BY <1>1, SenderSame
<1>t. \A n : Trusted(n, f)' <=> Trusted(n, f)
  BY <1>1, RingStays DEF Trusted
<1>3. BareInv(f)'
  <2>1. ~ Bare(m, f)
    BY <1>1 DEF FailInv, BareInv
  <2>. QED  BY <1>1, <2>1, RingStays DEF FailInv, BareInv
<1>4. SafeInv(f)'
  <2>1. SUFFICES ASSUME NEW n \in Nodes, Safe(n, f), Trusted(n, f) PROVE file'[n] = Before \/ Overwriting(n)'
    BY <1>t, RingStays DEF SafeInv
  <2>2. file[n] = Before \/ Overwriting(n)
    BY <2>1 DEF FailInv, SafeInv
  <2>3. CASE n # m
    BY <1>1, <2>2, <2>3 DEF Overwriting
  <2>4. CASE n = m
    <3>1. merge[m].data = Before
      BY <1>1, <2>1, <2>4 DEF FailInv, DataInv
    <3>. QED  BY <1>1, <2>2, <2>4, <3>1
  <2>. QED  BY <2>3, <2>4
<1>5. DataInv(f)'
  <2>1. view = Nodes \/ f # Owner => Owner # m
    BY <1>1 DEF FailInv, DataInv
  <2>. QED  BY <1>1, <1>t, <2>1, RingStays, Home DEF FailInv, DataInv
<1>. QED  BY <1>2, <1>3, <1>4, <1>5 DEF FailInv

\* The only crash there may be is that of f, and then nothing has been sent yet.
LEMMA FailCrash ==
  ASSUME TypeInv, CopyInv, NEW CONSTANT f \in Nodes, AtMost(f), AtMost(f)', FailInv(f),
         NEW m \in Nodes, Crash(m)
  PROVE  FailInv(f)'
<1>1. /\ live' = live \ {m} /\ m \in live
      /\ UNCHANGED <<view, failed, file, empty, log, missed>>
      /\ \A n \in Nodes : /\ repair'[n].to = repair[n].to
                          /\ repair'[n].st = repair[n].st \/ repair'[n].st = "idle"
                          /\ repair'[n].todo \subseteq repair[n].todo
      /\ \A n \in Nodes : merge'[n] = merge[n] \/ (n = m /\ merge'[n].st = "none")
      /\ \A n \in Nodes \ {m} : HasFile(n) => HasFile(n)'
  BY CrashCopy
<1>2. m = f /\ live = Nodes
  BY <1>1 DEF AtMost
<1>3. view = Nodes
  BY <1>2, Records
<1>t. \A n : Trusted(n, f)' <=> Trusted(n, f)
  BY <1>1, RingStays DEF Trusted
<1>4. SenderInv(f)'
  BY <1>1, <1>3, RingStays DEF FailInv, SenderInv
<1>5. BareInv(f)'
  BY <1>1, RingStays DEF FailInv, BareInv
<1>6. SafeInv(f)'
  <2>1. \A n : Safe(n, f) => n # f
    BY DEF Safe
  <2>. QED  BY <1>1, <1>2, <1>t, <2>1, RingStays DEF FailInv, SafeInv, Overwriting
<1>d. DataInv(f)'
  BY <1>1, <1>t, RingStays, Home DEF FailInv, DataInv
<1>7. OldPlaces \subseteq Nodes
  BY PlacesAre
<1>8. ~missed => \A n \in OldPlaces \ {f} : HasFile(n)'
  BY <1>1, <1>2, <1>7 DEF FailInv, OwedInv
<1>9. OwedInv(f)'
  BY <1>1, <1>3, <1>8, RingStays DEF OwedInv
<1>. QED  BY <1>4, <1>5, <1>6, <1>d, <1>9 DEF FailInv

LEMMA FailDetect ==
  ASSUME TypeInv, CopyInv, NEW CONSTANT f \in Nodes, AtMost(f), FailInv(f), NEW m \in Nodes, Detect(m)
  PROVE  FailInv(f)'
<1>r. failed \in [Nodes -> SUBSET Nodes] /\ live \subseteq view /\ view \subseteq Nodes
  BY Records
<1>1. /\ m \in view \ live /\ view' = view \ {m} /\ UNCHANGED <<live, repair, file, empty, log, merge, missed>>
      /\ failed' = [s \in Nodes |-> IF s \in live THEN failed[s] \cup {m} ELSE failed[s]]
      /\ \A n \in Nodes : HasFile(n) => HasFile(n)'
  BY OtherCopy DEF Detect, disk
<1>2. m = f /\ live = Nodes \ {f} /\ view = Nodes /\ view' = Nodes \ {f}
  BY <1>r, <1>1 DEF AtMost, FailInv, SenderInv
<1>3. \A s \in Nodes : failed'[s] \subseteq {f} /\ (s # f => f \in failed'[s])
  BY <1>r, <1>1, <1>2 DEF FailInv, SenderInv
<1>t. \A n : Trusted(n, f)' <=> Trusted(n, f)
  BY <1>1, RingStays DEF Trusted
<1>4. SenderInv(f)'
  BY <1>1, <1>2, <1>3, RingStays DEF FailInv, SenderInv
<1>5. BareInv(f)'
  BY <1>1, RingStays DEF FailInv, BareInv
<1>6. SafeInv(f)' /\ DataInv(f)'
  BY <1>1, <1>2, <1>t, RingStays DEF FailInv, SafeInv, DataInv, Overwriting
<1>7. ~missed => \A n \in OldPlaces \ {f} : HasFile(n)'
  BY <1>1, PlacesAre DEF FailInv, OwedInv
<1>8. \A z \in Nodes : Safe(z, f) => \A d \in SendsTo(z, f) : Owed(z, d, f)'
  BY <1>3 DEF Safe, Owed
<1>9. OwedInv(f)'
  BY <1>1, <1>7, <1>8, RingStays DEF OwedInv
<1>. QED  BY <1>4, <1>5, <1>6, <1>9 DEF FailInv


\* A step of a node that repairs.  It has noted f before, so f has left the list.
LEMMA FailRepair ==
  ASSUME TypeInv, CopyInv, errs' = {}, AllDone, NEW CONSTANT f \in Nodes, AtMost(f), FailInv(f),
         NEW m \in Nodes, Repair(m)
  PROVE  FailInv(f)'
<1>r. /\ file \in [Nodes -> Seq(Reqs)] /\ log \in [Nodes -> Seq(EntryRec)]
      /\ failed \in [Nodes -> SUBSET Nodes] /\ repair \in [Nodes -> RepairRec]
      /\ repair[m] \in RepairRec /\ repair[m].to \in Nodes /\ live \subseteq view
      /\ merge \in [Nodes -> MergeRec]
  BY Records DEF RepairRec
<1>0. UNCHANGED <<live, view>> /\ (~missed' => ~missed)
  <2>1. UNCHANGED <<live, view>>
    BY DEF Repair, RepairBegin, RepairSend, RepairArrive, RepairLog, disk
  <2>2. ~missed' => ~missed
    BY DEF Repair, RepairBegin, RepairSend, RepairArrive, RepairLog, Miss
  <2>. QED  BY <2>1, <2>2
<1>t. \A n \in Nodes : Trusted(n, f)' => Trusted(n, f)
  BY <1>0, RingStays DEF Trusted
\* Calls of MergeFile go on, but for the copy that is removed under one.
<1>d. ASSUME \A n \in Nodes : merge'[n] = merge[n] \/ (merge[n].st = "opened" /\ merge'[n].st = "unlinked" /\ merge'[n].data = merge[n].data),
             empty' \subseteq empty
      PROVE  DataInv(f)'
  <2>1. Owner \in Nodes
    BY Home
  <2>. QED  BY <1>0, <1>t, <1>d, <2>1, RingStays DEF FailInv, DataInv
<1>h. \A n \in Nodes : HasFile(n) => HasFile(n)'
  BY RepairCopy
<1>v. view # Nodes => view = Nodes \ {f} /\ live = Nodes \ {f}
  BY <1>r DEF FailInv, SenderInv, AtMost
<1>f. ~missed' => \A n \in OldPlaces \ {f} : HasFile(n)'
  BY <1>h, <1>0, PlacesAre DEF FailInv, OwedInv
<1>s. \A z : SendsTo(z, f) \subseteq Nodes \ {f}
  BY ReceiversType DEF SendsTo
\* What is left to show of the new list, of the copies and of what is owed.
<1>q. ASSUME SenderInv(f)', BareInv(f)', DataInv(f)', SafeInv(f)',
             ASSUME view # Nodes, ~missed', ~Csv, NEW z \in Nodes, Safe(z, f), NEW d \in SendsTo(z, f), Owed(z, d, f)
             PROVE  Owed(z, d, f)'
      PROVE  FailInv(f)'
  <2>1. ~missed' /\ (view # Nodes)' /\ ~Csv => \A z \in Nodes : Safe(z, f) => \A d \in SendsTo(z, f) : Owed(z, d, f)'
    BY <1>0, <1>q DEF FailInv, OwedInv
  <2>2. OwedInv(f)'
    BY <1>f, <2>1, RingStays DEF OwedInv
  <2>. QED  BY <1>q, <2>2 DEF FailInv
<1>1. CASE RepairBegin(m)
  <2>1. /\ UNCHANGED <<file, empty, log, merge>> /\ m \in live /\ failed[m] # {}
        /\ repair' = [repair EXCEPT ![m].todo =
                  IF OnDisk(m) THEN Receivers(m, FileHash, view, failed[m]) ELSE {}]
        /\ failed' = [failed EXCEPT ![m] = {}]
        /\ missed' = (missed \/ (~OnDisk(m) /\ Overwriting(m)))
    BY <1>1 DEF RepairBegin, disk, Miss
  <2>2. failed[m] = {f} /\ view = Nodes \ {f}
    BY <1>v, <2>1 DEF FailInv, SenderInv
  <2>3. /\ repair'[m].todo = IF OnDisk(m) THEN SendsTo(m, f) ELSE {}
        /\ repair'[m].st = repair[m].st /\ repair'[m].to = repair[m].to
        /\ \A s \in Nodes : s # m => repair'[s] = repair[s]
    BY <1>r, <2>1, <2>2 DEF SendsTo, RepairRec
  <2>4. failed'[m] = {} /\ \A s \in Nodes : s # m => failed'[s] = failed[s]
    BY <1>r, <2>1
  <2>5. SenderInv(f)'
    BY <1>0, <2>2, <2>3, <2>4, RingStays DEF FailInv, SenderInv
  <2>6. BareInv(f)'
    BY <1>0, <2>1, <2>3, RingStays DEF FailInv, BareInv, OnDisk
  <2>7. SafeInv(f)' /\ DataInv(f)'
    BY <1>d, <1>t, <2>1, RingStays DEF FailInv, SafeInv, Overwriting
  <2>8. ASSUME ~missed', NEW z \in Nodes, Safe(z, f), NEW d \in SendsTo(z, f), Owed(z, d, f) PROVE Owed(z, d, f)'
    <3>1. CASE z = m
      <4>1. OnDisk(m)
        BY <1>0, <2>1, <2>8, <3>1 DEF FailInv, SafeInv, Trusted, OnDisk, AllDone
      <4>2. d \in repair'[z].todo
        BY <2>3, <2>8, <3>1, <4>1
      <4>. QED  BY <4>2 DEF Owed
    <3>2. CASE z # m
      <4>1. repair'[z] = repair[z] /\ failed'[z] = failed[z] /\ d \in Nodes
        BY <1>s, <2>3, <2>4, <3>2
      <4>. QED  BY <1>h, <2>8, <4>1 DEF Owed
    <3>. QED  BY <3>1, <3>2
  <2>. QED  BY <1>q, <2>5, <2>6, <2>7, <2>8
<1>2. CASE RepairSend(m)
  <2>1. /\ UNCHANGED <<file, empty, log, merge, failed>> /\ m \in live /\ repair[m].st = "idle"
        /\ missed' = (missed \/ (file[m] = <<>> /\ Overwriting(m)))
    BY <1>2 DEF RepairSend, disk, Miss
  <2>2. PICK to \in repair[m].todo :
          repair' = [repair EXCEPT ![m] =
            [todo |-> @.todo \ {to}, to |-> to, data |-> file[m],
             st |-> IF ~Csv /\ file[m] # <<>> /\ to \in live THEN "sent" ELSE "idle"]]
    BY <1>2 DEF RepairSend
  <2>3. /\ repair'[m].todo = repair[m].todo \ {to} /\ repair'[m].to = to
        /\ repair'[m].st = IF ~Csv /\ file[m] # <<>> /\ to \in live THEN "sent" ELSE "idle"
        /\ \A s \in Nodes : s # m => repair'[s] = repair[s]
    BY <1>r, <2>2
  <2>4. view # Nodes /\ to \in SendsTo(m, f) /\ ~ Bare(m, f)
    BY <2>2 DEF FailInv, SenderInv, BareInv
  <2>5. f \notin live => m # f
    BY <2>1
  <2>6. SenderInv(f)'
    BY <1>0, <2>1, <2>3, <2>4, <2>5, RingStays DEF FailInv, SenderInv
  <2>7. BareInv(f)'
    BY <1>0, <2>1, <2>3, <2>4, RingStays DEF FailInv, BareInv
  <2>8. SafeInv(f)' /\ DataInv(f)'
    BY <1>d, <1>t, <2>1, RingStays DEF FailInv, SafeInv, Overwriting
  <2>9. ASSUME ~missed', ~Csv, NEW z \in Nodes, Safe(z, f), NEW d \in SendsTo(z, f), Owed(z, d, f) PROVE Owed(z, d, f)'
    <3>1. CASE z = m /\ d = to
      <4>1. file[m] # <<>>
        BY <1>0, <2>1, <2>9, <3>1 DEF FailInv, SafeInv, Trusted, AllDone
      <4>2. to \in live
        BY <1>s, <1>v, <2>4
      <4>. QED  BY <2>3, <2>9, <3>1, <4>1, <4>2 DEF Owed
    <3>2. CASE z = m /\ d # to
      BY <1>h, <1>s, <2>1, <2>3, <2>9, <3>2 DEF Owed
    <3>3. CASE z # m
      BY <1>h, <1>s, <2>1, <2>3, <2>9, <3>3 DEF Owed
    <3>. QED  BY <3>1, <3>2, <3>3
  <2>. QED  BY <1>q, <2>6, <2>7, <2>8, <2>9
<1>3. CASE RepairArrive(m)
  <2>1. /\ UNCHANGED <<log, failed>> /\ repair[m].st = "sent" /\ repair[m].to \in live
        /\ file' = [file EXCEPT ![repair[m].to] = <<>>] /\ empty' \subseteq empty
        /\ merge' = [merge EXCEPT ![repair[m].to].st = IF @ = "opened" THEN "unlinked" ELSE @]
        /\ repair' = [repair EXCEPT ![m].st = "mapped"]
    BY <1>3 DEF RepairArrive
  <2>2. /\ repair'[m].todo = repair[m].todo /\ repair'[m].to = repair[m].to
        /\ repair'[m].st = "mapped"
        /\ \A s \in Nodes : s # m => repair'[s] = repair[s]
    BY <1>r, <2>1 DEF RepairRec
  <2>3. view # Nodes /\ repair[m].to \in SendsTo(m, f) /\ ~ Bare(m, f)
    BY <2>1 DEF FailInv, SenderInv, BareInv
  <2>4. ~ Safe(repair[m].to, f)
    BY <2>3 DEF Safe
  <2>5. /\ \A n \in Nodes : file'[n] = file[n] \/ file'[n] = <<>>
        /\ \A n \in Nodes : n # repair[m].to => file'[n] = file[n] /\ merge'[n] = merge[n]
    BY <1>r, <2>1
  <2>m. \A n \in Nodes : merge'[n] = merge[n] \/ (merge[n].st = "opened" /\ merge'[n].st = "unlinked" /\ merge'[n].data = merge[n].data)
    <3>1. /\ merge'[repair[m].to] = [merge[repair[m].to] EXCEPT !.st = IF @ = "opened" THEN "unlinked" ELSE @]
          /\ merge[repair[m].to] \in MergeRec
      BY <1>r, <2>1
    <3>. DEFINE x == merge[repair[m].to]
    <3>2. x.st # "opened" => [x EXCEPT !.st = x.st] = x
      BY <3>1 DEF MergeRec
    <3>. QED  BY <2>5, <3>1, <3>2 DEF MergeRec
  <2>6. f \notin live => m # f
    BY <2>1 DEF FailInv, SenderInv
  <2>7. SenderInv(f)'
    BY <1>0, <2>1, <2>2, <2>3, <2>6, RingStays DEF FailInv, SenderInv
  <2>8. BareInv(f)'
    BY <1>0, <2>1, <2>2, <2>3, <2>5, <2>m, RingStays DEF FailInv, BareInv
  <2>9. SafeInv(f)' /\ DataInv(f)'
    BY <1>d, <1>t, <2>1, <2>4, <2>5, <2>m, RingStays DEF FailInv, SafeInv, Overwriting
  <2>10. ASSUME ~missed', NEW z \in Nodes, Safe(z, f), NEW d \in SendsTo(z, f), Owed(z, d, f) PROVE Owed(z, d, f)'
    <3>1. CASE z = m /\ d = repair[m].to
      <4>1. repair'[m].st = "mapped" /\ repair'[m].to = d
        BY <2>2, <3>1
      <4>2. HasFile(d)'
        BY <4>1 DEF HasFile
      <4>. QED  BY <4>2 DEF Owed
    <3>2. CASE z = m /\ d # repair[m].to
      BY <1>h, <1>s, <2>1, <2>2, <2>10, <3>2 DEF Owed
    <3>3. CASE z # m
      BY <1>h, <1>s, <2>1, <2>2, <2>10, <3>3 DEF Owed
    <3>. QED  BY <3>1, <3>2, <3>3
  <2>. QED  BY <1>q, <2>7, <2>8, <2>9, <2>10
<1>4. CASE RepairLog(m)
  <2>1. /\ UNCHANGED <<file, empty, merge, failed>> /\ repair[m].st = "mapped"
        /\ \A n \in Nodes : n # repair[m].to => log'[n] = log[n]
        /\ repair' = [repair EXCEPT ![m].st = "idle"]
    BY <1>r, <1>4, NoErrors DEF RepairLog, WriteLog, Append1
  <2>2. /\ repair'[m].todo = repair[m].todo /\ repair'[m].to = repair[m].to
        /\ repair'[m].st = "idle"
        /\ \A s \in Nodes : s # m => repair'[s] = repair[s]
    BY <1>r, <2>1 DEF RepairRec
  <2>3. ~ Bare(repair[m].to, f)
    BY <1>r, <2>1 DEF FailInv, SenderInv, Bare
  <2>4. SenderInv(f)'
    BY <1>0, <2>1, <2>2, RingStays DEF FailInv, SenderInv
  <2>5. BareInv(f)'
    BY <1>0, <2>1, <2>2, <2>3, RingStays DEF FailInv, BareInv
  <2>6. SafeInv(f)' /\ DataInv(f)'
    BY <1>d, <1>t, <2>1, RingStays DEF FailInv, SafeInv, Overwriting
  <2>7. ASSUME ~missed', NEW z \in Nodes, Safe(z, f), NEW d \in SendsTo(z, f), Owed(z, d, f) PROVE Owed(z, d, f)'
    BY <1>h, <1>s, <2>1, <2>2, <2>7 DEF Owed
  <2>. QED  BY <1>q, <2>4, <2>5, <2>6, <2>7
<1>. QED  BY <1>1, <1>2, <1>3, <1>4 DEF Repair


LEMMA CopyStep ==
  ASSUME TypeInv, CopyInv, errs' = {}, Before # <<>>, [Next]_vars
  PROVE  CopyInv'
BY FailActions, FlushCopy, SendCopy, MergeCopy, CrashCopy, RepairCopy, OtherCopy

LEMMA FailStep ==
  ASSUME TypeInv, CopyInv, errs' = {}, AllDone, Cardinality(Nodes) >= 5, NEW CONSTANT f \in Nodes,
         AtMost(f) => FailInv(f), AtMost(f)', [Next]_vars
  PROVE  FailInv(f)'
<1>1. AtMost(f)
  <2>1. ASSUME NEW m \in Nodes, Crash(m) PROVE AtMost(f)
    <3>1. live' = live \ {m} /\ m \in live /\ live \subseteq Nodes
      BY <2>1 DEF Crash, TypeInv, NodeType
    <3>2. live' = Nodes \ {f} /\ m = f
      BY <3>1 DEF AtMost
    <3>. QED  BY <3>1, <3>2 DEF AtMost
  <2>2. live' = live => AtMost(f)
    BY DEF AtMost
  <2>3. ASSUME NEW m \in Nodes, Flush(m) PROVE live' = live
    BY <2>3, FlushCopy
  <2>4. ASSUME NEW m \in Nodes, Merge(m) PROVE live' = live
    BY <2>4, MergeCopy, SendCopy DEF AllDone
  <2>5. ASSUME NEW m \in Nodes, Detect(m) PROVE live' = live
    BY <2>5 DEF Detect
  <2>6. ASSUME NEW m \in Nodes, Repair(m) PROVE live' = live
    BY <2>6 DEF Repair, RepairBegin, RepairSend, RepairArrive, RepairLog
  <2>7. Read \/ UNCHANGED vars => live' = live
    BY OtherCopy
  <2>. QED  BY <2>1, <2>2, <2>3, <2>4, <2>5, <2>6, <2>7, FailActions
<1>2. FailInv(f)
  BY <1>1
<1>3. ASSUME Read \/ UNCHANGED vars PROVE FailInv(f)'
  <2>1. UNCHANGED <<live, view, failed, repair, file, empty, log, merge, missed>>
    BY <1>3 DEF Read, ReadStart, ReadLock, ReadOpen, vars, disk, failures
  <2>2. SenderInv(f)' /\ OwedInv(f)'
    <3>1. \A n \in Nodes : HasFile(n) => HasFile(n)'
      BY <1>3, OtherCopy
    <3>2. live \subseteq Nodes
      BY DEF TypeInv, NodeType
    <3>. QED  BY <1>1, <1>2, <2>1, <3>1, <3>2, SenderSame
  <2>t. \A n : Trusted(n, f)' <=> Trusted(n, f)
    BY <2>1, RingStays DEF Trusted
  <2>3. BareInv(f)' /\ SafeInv(f)' /\ DataInv(f)'
    BY <1>2, <2>1, <2>t, RingStays DEF FailInv, BareInv, SafeInv, DataInv, Overwriting
  <2>. QED  BY <2>2, <2>3 DEF FailInv
<1>. QED
  BY <1>1, <1>2, <1>3, FailActions, FailFlush, FailMerge, FailCrash, FailDetect, FailRepair

LEMMA FailInitially ==
  ASSUME Init, AllDone, NEW CONSTANT f \in Nodes
  PROVE  CopyInv /\ FailInv(f)
<1>1. /\ live = Nodes /\ view = Nodes
      /\ \A n \in Nodes : /\ file[n] = IF n \in OldPlaces THEN Before ELSE <<>>
                          /\ log[n] = <<>> /\ flush[n] = Idle /\ merge[n].st = "none" /\ n \notin empty
                          /\ failed[n] = {} /\ repair[n].todo = {} /\ repair[n].st = "idle"
  BY DEF Init, OldPlaces, Routing
<1>e. live \subseteq Nodes
  BY DEF Init
<1>2. (\A q \in Reqs : req[q].st = "acked") /\ (\A c \in Reqs \X Slots : rpc[c].st = "logged")
  BY DEF Init, AllDone
<1>3. CopyInv
  BY <1>1, <1>2, <1>e DEF CopyInv, Idle
<1>4. SenderInv(f)
  BY <1>1 DEF SenderInv
<1>5. BareInv(f) /\ SafeInv(f) /\ DataInv(f)
  BY <1>1, Home DEF BareInv, SafeInv, DataInv, Bare, Safe
<1>6. OwedInv(f)
  BY <1>1, PlacesAre DEF OwedInv, HasFile
<1>. QED  BY <1>3, <1>4, <1>5, <1>6 DEF FailInv

\* For every node f, as long as no other fails.
FailKeptInv ==
  /\ TypeInv
  /\ errs = {} => CopyInv /\ \A f \in Nodes : AtMost(f) => FailInv(f)

LEMMA FailKept ==
  ASSUME AllDone, Cardinality(Nodes) >= 5
  PROVE  Spec => []FailKeptInv
<1>1. ASSUME Init PROVE FailKeptInv
  <2>1. ASSUME NEW CONSTANT f \in Nodes PROVE CopyInv /\ FailInv(f)
    BY <1>1, FailInitially
  <2>2. Nodes # {}
    BY FS_EmptySet, HydfsAssumption DEF HydfsAssumption
  <2>3. CopyInv
    BY <2>1, <2>2
  <2>. QED  BY <1>1, <2>1, <2>3, InitTypes DEF FailKeptInv
<1>2. ASSUME FailKeptInv, [Next]_vars PROVE FailKeptInv'
  <2>1. TypeInv /\ TypeInv'
    BY <1>2, TypeStep DEF FailKeptInv
  <2>2. ASSUME errs' = {} PROVE CopyInv' /\ \A f \in Nodes : AtMost(f)' => FailInv(f)'
    <3>1. errs = {}
      BY <1>2, <2>1, <2>2, ErrsShrink
    <3>2. CopyInv'
      BY <1>2, <2>1, <2>2, <3>1, CopyStep DEF FailKeptInv, AllDone
    <3>3. ASSUME NEW CONSTANT f \in Nodes, AtMost(f)' PROVE FailInv(f)'
      BY <1>2, <2>1, <2>2, <3>1, <3>3, FailStep DEF FailKeptInv
    <3>. QED  BY <3>2, <3>3
  <2>. QED  BY <2>1, <2>2 DEF FailKeptInv
<1>. QED  BY <1>1, <1>2, PTL DEF Spec

-----------------------------------------------------------------------------
(***************************************************************************)
(* In a ring of five the copy of one who sends it is safe.                 *)
(***************************************************************************)
\* Whoever goes from peer to peer around the ring comes to all of them.
LEMMA AllAround ==
  ASSUME NEW U, U \subseteq Nat, IsFiniteSet(U), NEW S, S \subseteq U, S # {},
         \A x \in S : Succ(x, U) \in S
  PROVE  S = U
<1>. DEFINE T == U \ S
<1>1. SUFFICES ASSUME T # {} PROVE FALSE
  OBVIOUS
<1>2. PICK t \in T : \A y \in T : t <= y
  <2>1. T \subseteq Nat
    OBVIOUS
  <2>. HIDE DEF T
  <2>. QED  BY <1>1, <2>1, Least
<1>3. IsFiniteSet(S) /\ S \subseteq Nat
  BY FS_Subset
<1>4. PICK m \in S : \A y \in S : m >= y
  BY <1>3, Greatest
<1>5. \A x \in U : x \in Nat /\ (x \in S \/ t <= x)
  BY <1>2
<1>6. t \in Nat /\ t \in U /\ t \notin S
  BY <1>2
<1>. HIDE DEF T
\* Below the least one that is missed there is one of S: the first of the ring.
<1>7. \E x \in S : x < t
  <2>1. /\ Succ(m, U) \in S
        /\ \A p \in U : p > m => m < Succ(m, U) /\ Succ(m, U) <= p
        /\ (\A p \in U : p <= m) => \A p \in U : Succ(m, U) <= p
    BY SuccOf
  <2>2. ~ (m < Succ(m, U))
    <3>1. m >= Succ(m, U)
      BY <1>4, <2>1
    <3>2. m \in Nat /\ Succ(m, U) \in Nat
      BY <1>3, <2>1
    <3>. QED  BY <3>1, <3>2
  <2>3. \A p \in U : ~ (p > m)
    BY <2>1, <2>2
  <2>4. Succ(m, U) <= t
    BY <1>4, <1>5, <1>6, <2>1, <2>3
  <2>5. Succ(m, U) # t /\ Succ(m, U) \in Nat
    BY <1>3, <1>6, <2>1
  <2>. QED  BY <1>6, <2>1, <2>4, <2>5
\* After the greatest of these comes the missed one.
<1>8. PICK g \in {x \in S : x < t} : \A y \in {x \in S : x < t} : g >= y
  <2>. DEFINE B == {x \in S : x < t}
  <2>1. B \in SUBSET S /\ B # {} /\ B \subseteq Nat
    BY <1>3, <1>7
  <2>. HIDE DEF B
  <2>2. IsFiniteSet(B)
    BY <1>3, <2>1, FS_Subset
  <2>3. \E x \in B : \A y \in B : x >= y
    BY <2>1, <2>2, Greatest
  <2>. QED  BY <2>3 DEF B
<1>9. /\ Succ(g, U) \in S /\ g < t /\ g \in Nat
      /\ \A p \in U : p > g => g < Succ(g, U) /\ Succ(g, U) <= p
  BY <1>3, <1>8, SuccOf
<1>10. Succ(g, U) \in Nat /\ t > g /\ Succ(g, U) # t
  BY <1>3, <1>6, <1>9
<1>11. g < Succ(g, U) /\ Succ(g, U) <= t
  BY <1>6, <1>9, <1>10
<1>12. Succ(g, U) < t
  BY <1>6, <1>10, <1>11
<1>13. g >= Succ(g, U)
  BY <1>8, <1>9, <1>12
<1>. QED  BY <1>9, <1>10, <1>11, <1>13

LEMMA OneMore ==
  ASSUME NEW S, IsFiniteSet(S), NEW x
  PROVE  /\ IsFiniteSet(S \cup {x}) /\ Cardinality(S \cup {x}) \in Nat
         /\ Cardinality(S \cup {x}) <= Cardinality(S) + 1
<1>1. IsFiniteSet(S \cup {x}) /\ Cardinality(S) \in Nat
  BY FS_AddElement, FS_CardinalityType
<1>2. Cardinality(S \cup {x}) = Cardinality(S) \/ Cardinality(S \cup {x}) = Cardinality(S) + 1
  BY FS_AddElement
<1>. QED  BY <1>1, <1>2

\* Five peers in a row are five.
LEMMA FiveInARow ==
  ASSUME NEW U, U \subseteq Nat, IsFiniteSet(U), Cardinality(U) >= 5, NEW x \in U
  PROVE  LET a == Succ(x, U)
             b == Succ(a, U)
             c == Succ(b, U)
             d == Succ(c, U)
         IN /\ a \in U /\ b \in U /\ c \in U /\ d \in U
            /\ x # a /\ x # b /\ x # c /\ x # d /\ a # b /\ a # c /\ a # d /\ b # c /\ b # d /\ c # d
<1>. DEFINE a == Succ(x, U)
            b == Succ(a, U)
            c == Succ(b, U)
            d == Succ(c, U)
<1>1. U # {}
  OBVIOUS
<1>2. a \in U /\ b \in U /\ c \in U /\ d \in U /\ x \in U
  BY <1>1, SuccOf
<1>3. Cardinality(U) \in Nat
  BY FS_CardinalityType
<1>4. ASSUME NEW S, S \subseteq U, S # {}, IsFiniteSet(S), Cardinality(S) <= 4, \A y \in S : Succ(y, U) \in S
      PROVE  FALSE
  <2>1. S = U
    BY <1>4, AllAround
  <2>. QED  BY <1>3, <1>4, <2>1
<1>5. ASSUME NEW y, NEW z, NEW v, NEW w
      PROVE  IsFiniteSet({y, z, v, w}) /\ Cardinality({y, z, v, w}) <= 4
  <2>1. IsFiniteSet({w}) /\ Cardinality({w}) = 1
    BY FS_Singleton
  <2>2. IsFiniteSet({v, w}) /\ Cardinality({v, w}) <= 2 /\ Cardinality({v, w}) \in Nat
    <3>1. {v, w} = {w} \cup {v}
      OBVIOUS
    <3>2. /\ IsFiniteSet({w} \cup {v}) /\ Cardinality({w} \cup {v}) \in Nat
          /\ Cardinality({w} \cup {v}) <= Cardinality({w}) + 1
      BY <2>1, OneMore, Zenon
    <3>. QED  BY <2>1, <3>1, <3>2
  <2>3. IsFiniteSet({z, v, w}) /\ Cardinality({z, v, w}) <= 3 /\ Cardinality({z, v, w}) \in Nat
    <3>1. {z, v, w} = {v, w} \cup {z}
      OBVIOUS
    <3>2. /\ IsFiniteSet({v, w} \cup {z}) /\ Cardinality({v, w} \cup {z}) \in Nat
          /\ Cardinality({v, w} \cup {z}) <= Cardinality({v, w}) + 1
      BY <2>2, OneMore, Zenon
    <3>. QED  BY <2>2, <3>1, <3>2
  <2>4. {y, z, v, w} = {z, v, w} \cup {y}
    OBVIOUS
  <2>5. /\ IsFiniteSet({z, v, w} \cup {y}) /\ Cardinality({z, v, w} \cup {y}) \in Nat
        /\ Cardinality({z, v, w} \cup {y}) <= Cardinality({z, v, w}) + 1
    BY <2>3, OneMore, Zenon
  <2>. QED  BY <2>3, <2>4, <2>5
<1>6. ASSUME NEW y \in U, NEW z \in U, NEW v \in U, NEW w \in U,
             {Succ(y, U), Succ(z, U), Succ(v, U), Succ(w, U)} \subseteq {y, z, v, w}
      PROVE  FALSE
  <2>. DEFINE S == {y, z, v, w}
  <2>1. S \subseteq U /\ S # {} /\ \A u \in S : Succ(u, U) \in S
    BY <1>6
  <2>2. IsFiniteSet(S) /\ Cardinality(S) <= 4
    BY <1>5
  <2>. HIDE DEF S
  <2>. QED  BY <1>4, <2>1, <2>2
<1>7. Succ(x, U) = a /\ Succ(a, U) = b /\ Succ(b, U) = c /\ Succ(c, U) = d
  OBVIOUS
<1>. SUFFICES /\ a \in U /\ b \in U /\ c \in U /\ d \in U
              /\ x # a /\ x # b /\ x # c /\ x # d /\ a # b /\ a # c /\ a # d /\ b # c /\ b # d /\ c # d
  OBVIOUS
<1>. HIDE DEF a, b, c, d
<1>8. a # b
  BY <1>2, <1>6, <1>7
<1>9. b # c
  BY <1>2, <1>6, <1>7
<1>10. c # d
  BY <1>2, <1>6, <1>7
<1>11. x # a
  BY <1>2, <1>6, <1>7
<1>12. x # b
  <2>1. x = b => {Succ(x, U), Succ(a, U), Succ(x, U), Succ(a, U)} \subseteq {x, a, x, a}
    BY <1>7
  <2>. QED  BY <1>2, <1>6, <2>1
<1>13. a # c
  <2>1. a = c => {Succ(a, U), Succ(b, U), Succ(a, U), Succ(b, U)} \subseteq {a, b, a, b}
    BY <1>7
  <2>. QED  BY <1>2, <1>6, <2>1
<1>14. b # d
  <2>1. b = d => {Succ(b, U), Succ(c, U), Succ(b, U), Succ(c, U)} \subseteq {b, c, b, c}
    BY <1>7
  <2>. QED  BY <1>2, <1>6, <2>1
<1>15. x # c
  <2>1. x = c => {Succ(x, U), Succ(a, U), Succ(b, U), Succ(b, U)} \subseteq {x, a, b, b}
    BY <1>7
  <2>. QED  BY <1>2, <1>6, <2>1
<1>16. a # d
  <2>1. a = d => {Succ(a, U), Succ(b, U), Succ(c, U), Succ(c, U)} \subseteq {a, b, c, c}
    BY <1>7
  <2>. QED  BY <1>2, <1>6, <2>1
<1>17. x # d
  <2>1. x = d => {Succ(x, U), Succ(a, U), Succ(b, U), Succ(c, U)} \subseteq {x, a, b, c}
    BY <1>7
  <2>. QED  BY <1>2, <1>6, <2>1
<1>. QED  BY <1>2, <1>8, <1>9, <1>10, <1>11, <1>12, <1>13, <1>14, <1>15, <1>16, <1>17

\* Two peers send a file when f is gone: the one before it to the two behind it, the one
\* behind it to the third behind it.
LEMMA WhoSends ==
  ASSUME NEW U, U \subseteq Nat, NEW f \in U, NEW h \in Nat, NEW s, NEW t,
         t \in Receivers(s, h, U \ {f}, {f})
  PROVE  LET n1 == Succ(f, U)
             n2 == Succ(n1, U)
             n3 == Succ(n2, U)
         IN (s = Pred(f, U) /\ t \in {n1, n2}) \/ (s = n1 /\ t = n3)
<1>. DEFINE M == U \ {f}
            n1 == Succ(f, U)
            n2 == Succ(n1, U)
            n3 == Succ(n2, U)
            p1 == Pred(f, U)
            p2 == Pred(p1, U)
            p3 == Pred(p2, U)
<1>1. M \cup {f} = U
  OBVIOUS
<1>2. TransferRanges(M, f) =
         {[from |-> p3, to |-> p2, sender |-> p1, receiver |-> n1],
          [from |-> p2, to |-> p1, sender |-> p1, receiver |-> n2],
          [from |-> p1, to |-> f,  sender |-> n1, receiver |-> n3]}
  <2>1. PrecedingPeers(M, f) = <<p1, p2, p3>>
    BY <1>1, Zenon DEF PrecedingPeers
  <2>2. SucceedingPeers(M, f) = <<n1, n2, n3>>
    BY <1>1, Zenon DEF SucceedingPeers, FileRouting
  <2>. HIDE DEF p2, p3, M
  <2>. QED  BY <2>1, <2>2 DEF TransferRanges
<1>. HIDE DEF M, p2, p3
<1>3. PICK x \in TransferRanges(M, f) : x.sender = s /\ x.receiver = t
  <2>1. t \in Receivers(s, h, M, {f})
    BY DEF M
  <2>. QED  BY <2>1 DEF Receivers
<1>. QED  BY <1>2, <1>3


\* The peer next to the one before it is the peer itself.
LEMMA SuccOfPred ==
  ASSUME NEW U, U \subseteq Nat, IsFiniteSet(U), NEW x \in U
  PROVE  Pred(x, U) \in U /\ Succ(Pred(x, U), U) = x
<1>. DEFINE r == Pred(x, U)
<1>1. /\ r \in U
      /\ \A p \in U : p < x => r < x /\ p <= r
      /\ (\A p \in U : p >= x) => \A p \in U : p <= r
  BY PredOf
<1>2. r \in Nat /\ x \in Nat /\ U # {} /\ \A p \in U : p \in Nat
  BY <1>1
<1>. HIDE DEF r
<1>3. CASE \A p \in U : p >= x
  <2>1. \A p \in U : ~ (p > r)
    BY <1>1, <1>2, <1>3
  <2>2. \A p \in U : x <= p
    BY <1>2, <1>3
  <2>3. Succ(r, U) = x
    BY <1>2, <2>1, <2>2, SuccUnique
  <2>. QED  BY <1>1, <2>3 DEF r
<1>4. CASE ~ \A p \in U : p >= x
  <2>1. PICK p \in U : p < x
    BY <1>2, <1>4
  <2>2. r < x
    BY <1>1, <2>1
  <2>3. \A y \in U : y > r => r < x /\ x <= y
    BY <1>1, <1>2, <2>2
  <2>4. ~ \A y \in U : y <= r
    BY <1>2, <2>2
  <2>5. Succ(r, U) = x
    BY <1>2, <2>3, <2>4, SuccUnique
  <2>. QED  BY <1>1, <2>5 DEF r
<1>. QED  BY <1>3, <1>4

LEMMA SafeSender ==
  ASSUME Cardinality(Nodes) >= 5, FileHash \notin Nodes, NEW f \in Nodes
  PROVE  /\ \E z \in Nodes : Safe(z, f) /\ (f = Owner => z = First(f))
         /\ \A n \in NewPlaces(f) : \/ n \in OldPlaces \ {f}
                                    \/ \E z \in Nodes : Safe(z, f) /\ n \in SendsTo(z, f)
<1>. DEFINE U == Nodes
            M == U \ {f}
            h == FileHash
            a == Succ(h, U)
            b == Succ(a, U)
            c == Succ(b, U)
            d == Succ(c, U)
            e == Succ(d, U)
            p1 == Pred(f, U)
            n1 == Succ(f, U)
            n2 == Succ(n1, U)
            n3 == Succ(n2, U)
<1>1. /\ U \subseteq Nat /\ IsFiniteSet(U) /\ Cardinality(U) >= 5 /\ Cardinality(U) >= 3
      /\ U # {} /\ h \in Nat /\ h \notin U /\ f \in U
  <2>1. Nodes \subseteq Nat /\ IsFiniteSet(Nodes) /\ FileHash \in Nat /\ Cardinality(Nodes) >= 3
    BY HydfsAssumption DEF HydfsAssumption
  <2>. QED  BY <2>1
<1>2. a \in U
  BY <1>1, SuccOf
<1>3. p1 \in U /\ Succ(p1, U) = f
  BY <1>1, SuccOfPred
<1>4. RepairedWithout(f, U, h)
  BY <1>1, RingRepaired
<1>5. /\ Succ(f, U) \in M
      /\ \A x \in Nat : Succ(x, M) = IF Succ(x, U) = f THEN Succ(f, U) ELSE Succ(x, U)
  <2>1. p1 # f
    <3>1. Succ(p1, U) # p1
      <4>1. p1 # Succ(p1, U)
        BY <1>1, <1>3, FiveInARow
      <4>. QED  BY <4>1
    <3>. QED  BY <1>3, <3>1
  <2>2. U \ {f} # {}
    BY <1>3, <2>1
  <2>. QED  BY <1>1, <2>2, SuccWithout
<1>6. /\ OldPlaces = Range(<<a, b, c>>) /\ OldPlaces = Range(FileRouting(h, U))
      /\ NewPlaces(f) = Range(<<Succ(h, M), Succ(Succ(h, M), M), Succ(Succ(Succ(h, M), M), M)>>)
      /\ NewPlaces(f) = Range(FileRouting(h, M))
      /\ \A s : SendsTo(s, f) = Receivers(s, h, M, {f})
  BY DEF OldPlaces, NewPlaces, FileRouting, SendsTo
<1>o. Owner = a /\ First(f) = Succ(h, M)
  BY DEF FileRouting, Owner, First
<1>7. /\ b = Succ(a, U) /\ c = Succ(b, U) /\ d = Succ(c, U) /\ e = Succ(d, U) /\ a = Succ(h, U)
      /\ p1 = Pred(f, U) /\ n1 = Succ(f, U) /\ n2 = Succ(n1, U) /\ n3 = Succ(n2, U)
      /\ M = U \ {f} /\ M \subseteq U
  OBVIOUS
<1>. HIDE DEF U, M, h, a, b, c, d, e, p1, n1, n2, n3
<1>8. /\ a \in U /\ b \in U /\ c \in U /\ d \in U /\ e \in U
      /\ a # b /\ a # c /\ a # d /\ a # e /\ b # c /\ b # d /\ b # e /\ c # d /\ c # e /\ d # e
  BY <1>1, <1>2, <1>7, FiveInARow
<1>9. /\ p1 \in U /\ f \in U /\ n1 \in U /\ n2 \in U /\ n3 \in U
      /\ p1 # f /\ p1 # n1 /\ p1 # n2 /\ p1 # n3 /\ f # n1 /\ f # n2 /\ f # n3 /\ n1 # n2 /\ n1 # n3 /\ n2 # n3
  BY <1>1, <1>3, <1>7, FiveInARow
<1>10. \A s, t : t \in SendsTo(s, f) => (s = p1 /\ t \in {n1, n2}) \/ (s = n1 /\ t = n3)
  <2>1. SUFFICES ASSUME NEW s, NEW t, t \in Receivers(s, h, U \ {f}, {f})
                 PROVE  (s = p1 /\ t \in {n1, n2}) \/ (s = n1 /\ t = n3)
    BY <1>6, <1>7
  <2>. QED  BY <1>1, <1>7, <2>1, WhoSends
<1>11. \A x, y, z : Range(<<x, y, z>>) = {x, y, z}
  <2>1. SUFFICES ASSUME NEW x, NEW y, NEW z PROVE Range(<<x, y, z>>) = {x, y, z}
    OBVIOUS
  <2>2. DOMAIN <<x, y, z>> = 1 .. 3 /\ \A i \in 1 .. 3 : i = 1 \/ i = 2 \/ i = 3
    OBVIOUS
  <2>3. <<x, y, z>>[1] = x /\ <<x, y, z>>[2] = y /\ <<x, y, z>>[3] = z /\ 1 \in 1 .. 3 /\ 2 \in 1 .. 3 /\ 3 \in 1 .. 3
    OBVIOUS
  <2>. QED  BY <2>2, <2>3 DEF Range
<1>12. OldPlaces = {a, b, c}
  BY <1>6, <1>11
<1>13. a \in Nat /\ b \in Nat /\ c \in Nat /\ h \in Nat
  BY <1>1, <1>8
\* One place is new if f was one of the old ones, or else none.
<1>14. /\ NewPlaces(f) \subseteq {a, b, c, d} \ {f}
       /\ f \notin {a, b, c} => NewPlaces(f) = {a, b, c}
  <2>. DEFINE x == Succ(h, M)
              y == Succ(x, M)
              z == Succ(y, M)
  <2>0. NewPlaces(f) = {x, y, z}
    BY <1>6, <1>11
  <2>1. CASE f \notin {a, b, c}
    <3>1. x = a /\ y = b /\ z = c
      BY <1>5, <1>7, <1>13, <2>1
    <3>. QED  BY <2>0, <2>1, <3>1
  <2>2. CASE f = a
    <3>1. x = b
      BY <1>5, <1>7, <1>8, <1>13, <2>2
    <3>2. y = c
      BY <1>5, <1>7, <1>8, <1>13, <2>2, <3>1
    <3>3. z = d
      BY <1>5, <1>7, <1>8, <1>13, <2>2, <3>2
    <3>. QED  BY <1>8, <2>0, <2>2, <3>1, <3>2, <3>3
  <2>3. CASE f = b
    <3>1. x = a
      BY <1>5, <1>7, <1>8, <1>13, <2>3
    <3>2. y = c
      BY <1>5, <1>7, <1>8, <1>13, <2>3, <3>1
    <3>3. z = d
      BY <1>5, <1>7, <1>8, <1>13, <2>3, <3>2
    <3>. QED  BY <1>8, <2>0, <2>3, <3>1, <3>2, <3>3
  <2>4. CASE f = c
    <3>1. x = a
      BY <1>5, <1>7, <1>8, <1>13, <2>4
    <3>2. y = b
      BY <1>5, <1>7, <1>8, <1>13, <2>4, <3>1
    <3>3. z = d
      BY <1>5, <1>7, <1>8, <1>13, <2>4, <3>2
    <3>. QED  BY <1>8, <2>0, <2>4, <3>1, <3>2, <3>3
  <2>. QED  BY <2>1, <2>2, <2>3, <2>4
<1>15. p1 \notin OldPlaces => Bare(p1, f)
  <2>1. SUFFICES ASSUME p1 \notin OldPlaces PROVE Bare(p1, f)
    OBVIOUS
  <2>2. p1 \notin NewPlaces(f)
    <3>1. p1 = d => f = e
      BY <1>3, <1>7
    <3>. QED  BY <1>8, <1>12, <1>14, <2>1, <3>1
  <2>3. \A s \in Nodes : p1 \notin SendsTo(s, f)
    BY <1>9, <1>10
  <2>. QED  BY <2>1, <2>2, <2>3 DEF Bare
<1>16. ASSUME NEW z \in {a, b, c} \ {f}, z # n3, z \in {n1, n2} => p1 \notin OldPlaces
       PROVE  z \in Nodes /\ Safe(z, f)
  <2>1. \A s \in Nodes : z \in SendsTo(s, f) => Bare(s, f)
    BY <1>10, <1>15, <1>16
  <2>. QED  BY <1>8, <1>12, <2>1 DEF Safe, U
<1>17. p1 \in OldPlaces => p1 \in Nodes /\ Safe(p1, f)
  BY <1>9, <1>12, <1>16
<1>18. \E z \in Nodes : Safe(z, f) /\ (f = Owner => z = First(f))
  <2>0. ASSUME f = a PROVE b \in Nodes /\ Safe(b, f) /\ First(f) = b
    <3>1. n1 = b /\ n2 = c /\ n3 = d
      BY <1>7, <2>0
    <3>2. p1 \notin OldPlaces
      <4>1. (p1 = b => f = c) /\ (p1 = c => f = d)
        BY <1>3, <1>7
      <4>. QED  BY <1>8, <1>9, <1>12, <2>0, <4>1
    <3>3. First(f) = b
      BY <1>5, <1>o, <1>7, <1>13, <2>0
    <3>. QED  BY <1>8, <1>16, <2>0, <3>1, <3>2, <3>3
  <2>. SUFFICES ASSUME f # a PROVE \E z \in Nodes : Safe(z, f)
    BY <1>o, <2>0
  <2>1. CASE p1 \in OldPlaces
    BY <1>17, <2>1
  <2>2. CASE p1 \notin OldPlaces
    <3>1. \E z \in {a, b, c} \ {f} : z # n3
      BY <1>8
    <3>. QED  BY <1>16, <2>2, <3>1
  <2>. QED  BY <2>1, <2>2
<1>19. ASSUME NEW n \in NewPlaces(f), n \notin OldPlaces
       PROVE  \E z \in Nodes : Safe(z, f) /\ n \in SendsTo(z, f)
  <2>1. PICK s \in OldPlaces \ {f} : n \in SendsTo(s, f)
    <3>1. NewPlaces(f) \subseteq OldPlaces \cup UNION {Receivers(x, h, M, {f}) : x \in OldPlaces \ {f}}
      BY <1>4, <1>6, <1>7, Zenon DEF RepairedWithout
    <3>2. PICK x \in OldPlaces \ {f} : n \in Receivers(x, h, M, {f})
      BY <1>19, <3>1
    <3>. QED  BY <1>6, <3>2
  <2>2. CASE s = p1
    BY <1>17, <2>1, <2>2
  <2>3. CASE s = n1 /\ n = n3
    <3>1. n = d /\ f \in {a, b, c}
      BY <1>12, <1>14, <1>19
    <3>2. p1 \notin OldPlaces
      <4>1. p1 = a => f = b /\ n1 = c /\ n2 = d /\ n3 = e
        BY <1>3, <1>7
      <4>2. p1 = b => f = c /\ n1 = d
        BY <1>3, <1>7
      <4>3. p1 = c => f = d
        BY <1>3, <1>7
      <4>. QED  BY <1>8, <1>12, <2>1, <2>3, <3>1, <4>1, <4>2, <4>3
    <3>3. n1 \in Nodes /\ Safe(n1, f)
      BY <1>9, <1>12, <1>16, <2>1, <2>3, <3>2
    <3>. QED  BY <2>1, <2>3, <3>3
  <2>. QED  BY <1>10, <2>1, <2>2, <2>3
<1>20. \A n \in NewPlaces(f) : n # f
  BY <1>14
<1>. QED  BY <1>18, <1>19, <1>20


-----------------------------------------------------------------------------
(***************************************************************************)
(* What is left when a node fails, and after the repair.                   *)
(***************************************************************************)
\* As long as one node at most has failed there is one that nobody else than it fails.
LEMMA OneGone ==
  ASSUME TypeInv, Cardinality(Nodes \ live) <= 1
  PROVE  \E f \in Nodes : AtMost(f)
<1>. DEFINE D == Nodes \ live
<1>1. IsFiniteSet(Nodes) /\ Nodes # {} /\ live \subseteq Nodes
  BY HydfsAssumption, FS_EmptySet DEF HydfsAssumption, TypeInv, NodeType
<1>2. IsFiniteSet(D) /\ Cardinality(D) \in Nat
  <2>1. D \subseteq Nodes
    OBVIOUS
  <2>. HIDE DEF D
  <2>. QED  BY <1>1, <2>1, FS_Subset, FS_CardinalityType
<1>3. CASE D = {}
  BY <1>1, <1>3 DEF AtMost
<1>4. CASE D # {}
  <2>1. PICK f \in D : TRUE
    BY <1>4
  <2>2. {f} \subseteq D /\ Cardinality({f}) = 1
    BY <2>1, FS_Singleton
  <2>3. D = {f}
    <3>1. Cardinality(D) <= 1
      OBVIOUS
    <3>. HIDE DEF D
    <3>2. Cardinality({f}) <= Cardinality(D) /\ (Cardinality({f}) = Cardinality(D) => {f} = D)
      BY <1>2, <2>2, FS_Subset
    <3>. QED  BY <1>2, <2>2, <3>1, <3>2
  <2>4. f \in Nodes /\ live = Nodes \ {f}
    BY <1>1, <2>3
  <2>. QED  BY <2>4 DEF AtMost
<1>. QED  BY <1>3, <1>4

\* Nothing to show if there is no file.
LEMMA NoFile ==
  ASSUME TypeInv, \A q \in Reqs : Done(q), Before = <<>>
  PROVE  Acked = {}
<1>1. Range(Before) = {}
  BY DEF Range
<1>. QED  BY <1>1 DEF Done, Acked

LEMMA WholeContent ==
  ASSUME TypeInv, CopyInv, AllDone, NEW n \in Nodes, file[n] = Before
  PROVE  Content(n) = Before
<1>. DEFINE u == SubSeq(log[n], From(n), Len(log[n]))
            g == [k \in Nat |-> Before]
<1>1. log[n] \in Seq(EntryRec) /\ Len(log[n]) \in Nat /\ From(n) \in 1 .. Len(log[n]) + 1
  BY Records
<1>2. \A i \in From(n) .. Len(log[n]) : log[n][i] \in EntryRec /\ log[n][i] = Replica(Before)
  BY <1>1, ElementOfSeq DEF CopyInv
<1>3. /\ u \in Seq(EntryRec) /\ Len(u) = Len(log[n]) - From(n) + 1
      /\ \A i \in 1 .. Len(log[n]) - From(n) + 1 : u[i] = log[n][From(n) + i - 1]
  BY <1>1, <1>2, SubSeqProperties
<1>4. Content(n) = FoldLeft(Apply, Before, u)
  BY DEF Content, Unmerged, From
<1>. HIDE DEF u
<1>5. ASSUME NEW k \in 1 .. Len(u) PROVE u[k] = Replica(Before)
  <2>1. PICK a \in Nat : a = From(n)
    BY <1>1
  <2>2. PICK b \in Nat : b = Len(log[n])
    BY <1>1
  <2>3. 1 <= k /\ k <= b - a + 1 /\ k \in Nat
    BY <1>1, <1>3, <2>1, <2>2
  <2>4. a + k - 1 \in a .. b /\ k \in 1 .. b - a + 1
    BY <2>3
  <2>5. u[k] = log[n][a + k - 1] /\ a + k - 1 \in From(n) .. Len(log[n])
    BY <1>3, <2>1, <2>2, <2>4
  <2>. QED  BY <1>2, <2>5
<1>6. Apply(Before, Replica(Before)) = Before
  BY ApplyWhole
<1>7. Len(u) \in Nat
  BY <1>3, LenProperties
<1>8. g[0] = Before /\ g[Len(u)] = Before
  BY <1>7
<1>9. \A k \in 1 .. Len(u) : g[k] = Apply(g[k - 1], u[k])
  BY <1>5, <1>6, <1>7
<1>. HIDE DEF g
<1>10. u \in Seq(EntryRec) /\ g[0] = Before
  BY <1>3, <1>8
<1>11. FoldLeft(Apply, Before, u) = g[Len(u)]
  BY <1>9, <1>10, FoldIs, Zenon
<1>. QED  BY <1>4, <1>8, <1>11

\* Nothing is written, but copies are merged and whatever one node fails: of every write
\* there is a copy at a node that runs, in its file or in the hands of its MergeFile,
\* though a receiver removes its copy before it logs the one it is sent and a merge before
\* it writes the other (fileOperations.go:267-286,361-382).  In a ring of four two holders
\* may send to each other, and in one with a peer at the hash a place may be missed.
THEOREM OneFailureLeavesACopy ==
  ASSUME \A q \in Reqs : Done(q), Cardinality(Nodes) >= 5, FileHash \notin Nodes
  PROVE  Spec => [](Cardinality(Nodes \ live) <= 1 => CopyRemains)
<1>. DEFINE J == Cardinality(Nodes \ live) <= 1 => CopyRemains
<1>1. CASE Before = <<>>
  <2>1. TypeInv => J
    BY <1>1, NoFile DEF CopyRemains
  <2>. QED  BY <2>1, Types, PTL
<1>2. CASE Before # <<>>
  <2>1. AllDone
    BY <1>2 DEF AllDone
  <2>2. ASSUME FailKeptInv PROVE J
    <3>1. SUFFICES ASSUME Cardinality(Nodes \ live) <= 1, errs = {}, NEW q \in Acked, Done(q)
                   PROVE  Holders(q) # {}
      BY DEF CopyRemains
    <3>2. PICK f \in Nodes : AtMost(f)
      BY <2>2, <3>1, OneGone DEF FailKeptInv
    <3>3. TypeInv /\ CopyInv /\ FailInv(f)
      BY <2>2, <3>1, <3>2 DEF FailKeptInv
    <3>4. PICK z \in Nodes : Safe(z, f) /\ (f = Owner => z = First(f))
      BY SafeSender
    <3>5. z \in live /\ (file[z] = Before \/ Overwriting(z)) /\ (Overwriting(z) => merge[z].data = Before)
      BY <3>2, <3>3, <3>4 DEF Safe, AtMost, FailInv, SafeInv, DataInv, Trusted, Overwriting
    <3>6. Times(q, Before) >= 1 /\ q \in Range(Before)
      <4>1. Before \in Seq(Reqs) /\ q \in Range(Before)
        BY <3>1, HydfsAssumption DEF HydfsAssumption, Done
      <4>. QED  BY <4>1, CountOnce
    <3>7. CASE file[z] = Before
      <4>1. Content(z) = Before
        BY <2>1, <3>3, <3>7, WholeContent
      <4>. QED  BY <2>1, <3>5, <3>6, <3>7, <4>1 DEF Holders, AllDone
    <3>8. CASE Overwriting(z)
      BY <3>5, <3>6, <3>8 DEF Holders
    <3>. QED  BY <3>5, <3>7, <3>8
  <2>. QED  BY <2>1, <2>2, FailKept, PTL
<1>. QED  BY <1>1, <1>2

\* And when all is repaired and merged the nodes that FileRouting gives then have the
\* whole file (hydfs.go:90-158, coordinator.go:136-163), unless it is a .csv, which is
\* never sent, or a copy was looked for while a merge had it removed.
THEOREM OneFailureIsRepaired ==
  ASSUME \A q \in Reqs : Done(q), Cardinality(Nodes) >= 5, FileHash \notin Nodes
  PROVE  Spec => [](Cardinality(Nodes \ live) <= 1 => ThreeReplicas)
<1>. DEFINE J == Cardinality(Nodes \ live) <= 1 => ThreeReplicas
<1>1. CASE Before = <<>>
  <2>1. TypeInv => J
    BY <1>1, NoFile DEF ThreeReplicas
  <2>. QED  BY <2>1, Types, PTL
<1>2. CASE Before # <<>>
  <2>1. AllDone
    BY <1>2 DEF AllDone
  <2>2. ASSUME FailKeptInv PROVE J
    <3>1. SUFFICES ASSUME Cardinality(Nodes \ live) <= 1, errs = {}, Quiet, ~Csv, ~missed,
                          NEW q \in Acked, Done(q), NEW n \in Range(Routing)
                   PROVE  q \in Range(file[n])
      BY DEF ThreeReplicas
    <3>2. PICK f \in Nodes : AtMost(f) /\ (live = Nodes => f # n)
      <4>1. CASE live = Nodes
        <5>1. Nodes # {n}
          <6>1. Cardinality({n}) = 1
            BY FS_Singleton
          <6>. QED  BY <6>1
        <5>2. Nodes # {}
          BY FS_EmptySet
        <5>. QED  BY <4>1, <5>1, <5>2 DEF AtMost
      <4>2. CASE live # Nodes
        BY <2>2, <3>1, <4>2, OneGone DEF FailKeptInv
      <4>. QED  BY <4>1, <4>2
    <3>3. TypeInv /\ CopyInv /\ FailInv(f)
      BY <2>2, <3>1, <3>2 DEF FailKeptInv
    <3>4. /\ view = live
          /\ \A s \in live : /\ log[s] = <<>> /\ flush[s] = Idle /\ failed[s] = {}
                             /\ repair[s].todo = {} /\ repair[s].st = "idle"
      BY <3>1 DEF Quiet, Settled
    <3>5. \A s \in Nodes : repair[s].st = "idle"
      BY <3>2, <3>3, <3>4 DEF AtMost, FailInv, SenderInv
    <3>6. ASSUME NEW s \in live, HasFile(s) PROVE file[s] = Before
      <4>1. Len(log[s]) = 0 /\ From(s) = 1
        BY <3>4 DEF From
      <4>2. ~ Overwriting(s)
        BY <3>1 DEF Quiet, Merged, Overwriting
      <4>. QED  BY <3>5, <3>6, <4>1, <4>2 DEF HasFile
    <3>7. n \in live /\ HasFile(n)
      <4>1. CASE live = Nodes
        <5>1. n \in OldPlaces \ {f}
          BY <3>1, <3>2, <3>4, <4>1 DEF Routing, OldPlaces
        <5>. QED  BY <3>1, <3>3, <4>1, <5>1, PlacesAre DEF FailInv, OwedInv
      <4>2. CASE live # Nodes
        <5>1. live = Nodes \ {f} /\ view = Nodes \ {f}
          BY <3>2, <3>4, <4>2 DEF AtMost
        <5>2. n \in NewPlaces(f)
          BY <3>1, <5>1 DEF Routing, NewPlaces
        <5>3. n \in OldPlaces \ {f} \/ \E z \in Nodes : Safe(z, f) /\ n \in SendsTo(z, f)
          BY <5>2, SafeSender
        <5>4. CASE n \in OldPlaces \ {f}
          BY <3>1, <3>3, <5>1, <5>4, PlacesAre DEF FailInv, OwedInv
        <5>5. ASSUME NEW z \in Nodes, Safe(z, f), n \in SendsTo(z, f) PROVE n \in live /\ HasFile(n)
          <6>1. z \in live /\ n \in live
            BY <5>1, <5>5, ReceiversType DEF Safe, SendsTo
          <6>2. Owed(z, n, f)
            BY <3>1, <3>3, <4>2, <5>1, <5>5 DEF FailInv, OwedInv
          <6>. QED  BY <3>4, <6>1, <6>2 DEF Owed
        <5>. QED  BY <5>3, <5>4, <5>5
      <4>. QED  BY <4>1, <4>2
    <3>. QED  BY <3>1, <3>6, <3>7 DEF Done
  <2>. QED  BY <2>1, <2>2, FailKept, PTL
<1>. QED  BY <1>1, <1>2
=============================================================================
