------------------------ MODULE LeaderSchedule_proofs ------------------------
(***************************************************************************)
(* Proofs about the leader, for any number of jobs.                        *)
(*                                                                         *)
(* The partitions of the input hold each of its lines once:                *)
(* PartitionInputData rounds their length up, so that n of them have room  *)
(* for all lines, and cuts off what is beyond the last line; partition     *)
(* line \div length is the only one to have the line.                      *)
(*                                                                         *)
(* Types: what is not a matter of form is that ids stay within Ids.  An id *)
(* is one more than the size of TaskMap, which reports add to (a report of *)
(* an unknown id leaves a nil there).  But they bring only ids that were   *)
(* given before, and those are numbers up to Given(j) while job j is       *)
(* created and assigned: a bound that grows with each job and each task.   *)
(***************************************************************************)
EXTENDS LeaderSchedule, TLAPS, FiniteSetTheorems, SequenceTheorems, WellFoundedInduction

\* Division of integers.
LEMMA Quotient ==
  ASSUME NEW a \in Int, NEW b \in Nat \ {0}
  PROVE  a \div b \in Int /\ b * (a \div b) <= a /\ a < b * (a \div b) + b
OBVIOUS

\* The partitions are long enough: together they have room for every line.
LEMMA EnoughLines ==
  ASSUME NEW count \in Nat \ {0}, NEW n \in Nat \ {0}
  PROVE  LinesPerTask(count, n) \in Nat \ {0} /\ count <= n * LinesPerTask(count, n)
<1>. DEFINE L == (count + n - 1) \div n
<1>1. count + n - 1 \in Int
  OBVIOUS
<1>2. L \in Int /\ n * L <= count + n - 1 /\ count + n - 1 < n * L + n
  BY <1>1, Quotient
<1>. HIDE DEF L
<1>3. n * L > 0 /\ n * L >= count
  BY <1>2
<1>4. L > 0
  BY <1>2, <1>3
<1>. QED  BY <1>2, <1>3, <1>4 DEF L, LinesPerTask

\* The i-th partition has the lines from i times its length on, as far as there are any.
LEMMA LinesOf ==
  ASSUME NEW count \in Nat \ {0}, NEW n \in Nat \ {0}, NEW i \in 0 .. n - 1, NEW line \in 0 .. count - 1
  PROVE  line \in Partition(count, n, i) <=>
           /\ i * LinesPerTask(count, n) <= line
           /\ line < i * LinesPerTask(count, n) + LinesPerTask(count, n)
<1>. DEFINE L == LinesPerTask(count, n)
            s == i * L
<1>1. L \in Nat \ {0}
  BY EnoughLines
<1>2. s \in Nat
  BY <1>1
<1>3. line \in Partition(count, n, i) <=> line \in s .. (IF s + L - 1 >= count THEN count - 1 ELSE s + L - 1)
  BY DEF Partition
<1>. HIDE DEF L, s
<1>. QED  BY <1>1, <1>2, <1>3 DEF L, s

\* Each line is in one partition.
LEMMA OnePartition ==
  ASSUME NEW count \in Nat, NEW n \in Nat \ {0}, NEW line \in 0 .. count - 1
  PROVE  Cardinality({i \in 0 .. n - 1 : line \in Partition(count, n, i)}) = 1
<1>. DEFINE L == LinesPerTask(count, n)
            k == line \div L
<1>1. count \in Nat \ {0} /\ line \in Int
  OBVIOUS
<1>2. L \in Nat \ {0} /\ count <= n * L
  BY <1>1, EnoughLines
<1>. HIDE DEF L
<1>3. k \in Int /\ L * k <= line /\ line < L * k + L
  BY <1>1, <1>2, Quotient
<1>. HIDE DEF k
<1>4. k >= 0 /\ k < n
  <2>1. k >= 0
    <3>1. SUFFICES ASSUME k <= -1 PROVE FALSE
      BY <1>3
    <3>2. L * k <= L * (-1)
      BY <1>2, <1>3, <3>1
    <3>. QED  BY <1>2, <1>3, <3>2
  <2>2. k < n
    <3>1. SUFFICES ASSUME k >= n PROVE FALSE
      BY <1>3
    <3>2. L * k >= L * n /\ L * n = n * L
      BY <1>2, <1>3, <3>1
    <3>3. line < count
      OBVIOUS
    <3>. QED  BY <1>2, <1>3, <3>2, <3>3
  <2>. QED  BY <2>1, <2>2
<1>5. k \in 0 .. n - 1
  BY <1>3, <1>4
<1>6. ASSUME NEW i \in 0 .. n - 1 PROVE line \in Partition(count, n, i) <=> i = k
  <2>1. line \in Partition(count, n, i) <=> i * L <= line /\ line < i * L + L
    BY <1>1, LinesOf DEF L
  <2>2. ASSUME i <= k - 1 PROVE i * L + L <= L * k
    BY <1>2, <1>3, <2>2
  <2>3. ASSUME i >= k + 1 PROVE i * L >= L * k + L
    BY <1>2, <1>3, <2>3
  <2>4. k * L = L * k
    BY <1>2, <1>3
  <2>5. i * L \in Int /\ L * k \in Int /\ i \in Int
    BY <1>2, <1>3
  <2>. QED  BY <1>1, <1>2, <1>3, <2>1, <2>2, <2>3, <2>4, <2>5
<1>7. {i \in 0 .. n - 1 : line \in Partition(count, n, i)} = {k}
  BY <1>5, <1>6
<1>. QED  BY <1>7, FS_Singleton

\* Every line of the input is in exactly one of the partitions that a job is assigned,
\* whatever the number of lines and of tasks (PartitionInputData, leader.go:96-120):
\* nothing is processed twice or left out.
THEOREM PartitionsCovered == Spec => []PartitionsCover
<1>1. PartitionsCover
  <2>. SUFFICES ASSUME NEW count \in 0 .. MaxLines, NEW n \in 1 .. MaxLines, NEW line \in 0 .. count - 1
               PROVE  Cardinality({i \in 0 .. n - 1 : line \in Partition(count, n, i)}) = 1
    BY DEF PartitionsCover
  <2>1. count \in Nat /\ n \in Nat \ {0}
    BY ScheduleAssumption DEF ScheduleAssumption
  <2>. QED  BY <2>1, OnePartition
<1>. QED  BY <1>1, PTL


-----------------------------------------------------------------------------
(***************************************************************************)
(* Sequences and maps.                                                     *)
(***************************************************************************)
\* A set of naturals has a least element.
LEMMA LeastOf ==
  ASSUME NEW T, T \subseteq Nat, T # {}
  PROVE  Min(T) \in T /\ \A y \in T : Min(T) <= y
<1>. DEFINE R == {ss \in Nat \X Nat : ss[1] < ss[2]}
<1>1. IsWellFoundedOn(R, Nat)
  BY NatLessThanWellFounded DEF OpToRel
<1>2. \A x, y \in Nat : <<y, x>> \in R <=> y < x
  OBVIOUS
<1>. HIDE DEF R
<1>3. PICK x \in T : \A y \in T : <<y, x>> \notin R
  BY <1>1, WFMin
<1>4. ASSUME NEW y \in T PROVE x <= y
  <2>1. x \in Nat /\ y \in Nat
    OBVIOUS
  <2>2. ~ (y < x)
    BY <1>2, <1>3, <2>1
  <2>. QED  BY <2>1, <2>2
<1>. QED  BY <1>4 DEF Min

\* A sequence without one of its elements.
LEMMA RemoveAtOf ==
  ASSUME NEW S, NEW s \in Seq(S), NEW i \in 1 .. Len(s)
  PROVE  /\ RemoveAt(s, i) \in Seq(S) /\ Len(RemoveAt(s, i)) = Len(s) - 1
         /\ \A j \in 1 .. Len(s) - 1 : RemoveAt(s, i)[j] = IF j < i THEN s[j] ELSE s[j + 1]
         /\ Range(RemoveAt(s, i)) \subseteq Range(s)
<1>. DEFINE a == SubSeq(s, 1, i - 1)
            b == SubSeq(s, i + 1, Len(s))
            c == a \o b
<1>1. a \in Seq(S) /\ Len(a) = i - 1 /\ \A j \in 1 .. i - 1 : a[j] = s[j]
  BY SMT
<1>2. b \in Seq(S) /\ Len(b) = Len(s) - i /\ \A j \in 1 .. Len(s) - i : b[j] = s[i + j]
  <2>1. i + 1 \in Int /\ Len(s) \in Int /\ \A j \in i + 1 .. Len(s) : s[j] \in S
    OBVIOUS
  <2>2. /\ b \in Seq(S) /\ Len(b) = IF i + 1 <= Len(s) THEN Len(s) - (i + 1) + 1 ELSE 0
        /\ \A j \in 1 .. Len(s) - (i + 1) + 1 : b[j] = s[i + 1 + j - 1]
    BY <2>1, SubSeqProperties
  <2>3. \A j \in 1 .. Len(s) - i : i + 1 + j - 1 = i + j
    OBVIOUS
  <2>. QED  BY <2>1, <2>2, <2>3
<1>. HIDE DEF a, b
<1>3. c \in Seq(S) /\ Len(c) = Len(s) - 1
  <2>1. c \in Seq(S) /\ Len(c) = Len(a) + Len(b)
    BY <1>1, <1>2, ConcatProperties
  <2>. QED  BY <1>1, <1>2, <2>1
<1>4. \A j \in 1 .. Len(s) - 1 : c[j] = IF j < i THEN s[j] ELSE s[j + 1]
  BY <1>1, <1>2, SMT
<1>5. RemoveAt(s, i) = c
  BY DEF RemoveAt, a, b
<1>. HIDE DEF c
<1>6. Range(c) \subseteq Range(s)
  <2>1. DOMAIN c = 1 .. Len(s) - 1 /\ DOMAIN s = 1 .. Len(s)
    BY <1>3
  <2>2. \A j \in 1 .. Len(s) - 1 : j \in 1 .. Len(s) /\ j + 1 \in 1 .. Len(s)
    OBVIOUS
  <2>. QED  BY <1>4, <2>1, <2>2 DEF Range
<1>. QED  BY <1>3, <1>4, <1>5, <1>6

\* RemoveFirst leaves elements of the sequence, and its last one unless that is meant.
LEMMA RemoveFirstOf ==
  ASSUME NEW S, NEW s \in Seq(S), NEW e
  PROVE  /\ RemoveFirst(s, e) \in Seq(S) /\ Range(RemoveFirst(s, e)) \subseteq Range(s)
         /\ s # <<>> /\ Last(s) # e => RemoveFirst(s, e) # <<>> /\ Last(RemoveFirst(s, e)) = Last(s)
<1>. DEFINE I == {i \in 1 .. Len(s) : s[i] = e}
<1>1. CASE I = {}
  BY <1>1 DEF RemoveFirst
<1>2. CASE I # {}
  <2>. DEFINE i == Min(I)
  <2>1. I \subseteq Nat
    OBVIOUS
  <2>2. i \in I
    BY <1>2, <2>1, LeastOf
  <2>3. RemoveFirst(s, e) = RemoveAt(s, i)
    BY <1>2 DEF RemoveFirst, SelectInSeq
  <2>4. i \in 1 .. Len(s) /\ s[i] = e
    BY <2>2
  <2>. HIDE DEF i, I
  <2>5. ASSUME s # <<>>, Last(s) # e
        PROVE  RemoveAt(s, i) # <<>> /\ Last(RemoveAt(s, i)) = Last(s)
    <3>1. Len(s) \in Nat \ {0} /\ i < Len(s)
      BY <2>4, <2>5 DEF Last
    <3>2. Len(s) - 1 \in 1 .. Len(s) - 1 /\ ~(Len(s) - 1 < i)
      BY <2>4, <3>1
    <3>3. Len(RemoveAt(s, i)) = Len(s) - 1 /\ RemoveAt(s, i)[Len(s) - 1] = s[Len(s) - 1 + 1]
      BY <2>4, <3>2, RemoveAtOf
    <3>4. Len(s) - 1 # 0 /\ Len(s) - 1 + 1 = Len(s)
      <4>1. PICK n \in Int : n = Len(s)
        BY <3>1
      <4>2. i \in Int /\ 1 <= i /\ i < n
        BY <2>4, <3>1, <4>1
      <4>3. n - 1 # 0 /\ n - 1 + 1 = n
        BY <4>2
      <4>. QED  BY <4>1, <4>3
    <3>5. RemoveAt(s, i) # <<>>
      BY <3>3, <3>4
    <3>6. RemoveAt(s, i)[Len(RemoveAt(s, i))] = s[Len(s)]
      BY <3>3, <3>4
    <3>. QED  BY <3>5, <3>6 DEF Last
  <2>. QED  BY <2>3, <2>4, <2>5, RemoveAtOf
<1>. QED  BY <1>1, <1>2

\* The queue of a worker without a task that is completed.
LEMMA RemovedOf ==
  ASSUME NEW q \in Seq(Tasks), NEW t \in Tasks
  PROVE  /\ Removed(q, t) \in Seq(Tasks)
         /\ q = <<>> \/ q = <<t>> => Removed(q, t) = <<>>
<1>. DEFINE I == {i \in 1 .. Len(q) : SameId(q[i], t)}
<1>1. CASE I = {}
  <2>1. Removed(q, t) = q
    BY <1>1 DEF Removed, RemoveFirstMatch
  <2>2. q # <<t>>
    <3>1. q = <<t>> => 1 \in I
      BY DEF SameId
    <3>. QED  BY <1>1, <3>1
  <2>. QED  BY <2>1, <2>2
<1>2. CASE I # {}
  <2>. DEFINE i == Min(I)
  <2>1. I \subseteq Nat
    OBVIOUS
  <2>2. i \in I
    BY <1>2, <2>1, LeastOf
  <2>3. Removed(q, t) = RemoveAt(q, i)
    BY <1>2 DEF Removed, RemoveFirstMatch, SelectInSeq
  <2>4. i \in 1 .. Len(q)
    BY <2>2
  <2>. HIDE DEF i, I
  <2>5. RemoveAt(q, i) \in Seq(Tasks) /\ Len(RemoveAt(q, i)) = Len(q) - 1
    BY <2>4, RemoveAtOf
  <2>. QED  BY <2>3, <2>4, <2>5
<1>. QED  BY <1>1, <1>2

LEMMA AppendOf ==
  ASSUME NEW S, NEW s \in Seq(S), NEW x \in S
  PROVE  /\ Append(s, x) \in Seq(S) /\ Range(Append(s, x)) = Range(s) \cup {x}
         /\ Append(s, x) # <<>> /\ Last(Append(s, x)) = x
         /\ Len(Append(s, x)) = Len(s) + 1 /\ DOMAIN Append(s, x) = 1 .. Len(s) + 1
         /\ \A i \in 1 .. Len(s) : Append(s, x)[i] = s[i]
         /\ Append(s, x)[Len(s) + 1] = x
<1>. DEFINE a == Append(s, x)
<1>1. a \in Seq(S) /\ Len(a) = Len(s) + 1 /\ DOMAIN a = 1 .. Len(s) + 1
  OBVIOUS
<1>2. (\A i \in 1 .. Len(s) : a[i] = s[i]) /\ a[Len(s) + 1] = x
  OBVIOUS
<1>. HIDE DEF a
<1>3. Range(a) = Range(s) \cup {x}
  <2>1. DOMAIN s = 1 .. Len(s) /\ 1 .. Len(s) + 1 = (1 .. Len(s)) \cup {Len(s) + 1}
    OBVIOUS
  <2>. QED  BY <1>1, <1>2, <2>1 DEF Range
<1>. QED  BY <1>1, <1>2, <1>3 DEF a, Last

LEMMA RangeOf ==
  ASSUME NEW S, NEW s \in Seq(S)
  PROVE  Range(s) \subseteq S /\ (s = <<>> => Range(s) = {})
BY DEF Range


LEMMA PutOf ==
  ASSUME NEW map, NEW id, NEW t
  PROVE  /\ DOMAIN Put(map, id, t) = DOMAIN map \cup {id}
         /\ Put(map, id, t)[id] = t
         /\ \A x \in DOMAIN map : x # id => Put(map, id, t)[x] = map[x]
         /\ Range(Put(map, id, t)) \subseteq Range(map) \cup {t}
BY DEF Put, Range

-----------------------------------------------------------------------------
(***************************************************************************)
(* Types.                                                                  *)
(***************************************************************************)
JobPcs == {"new", "create", "assign", "monitor", "ended", "refused", "gone"}
JobRec == [pc : JobPcs, i : 1 .. 2 * K + 1, ok : BOOLEAN, senders : SUBSET Nodes,
           receivers : SUBSET Nodes, out : PartsType]
TaskRec == [id : Ids, at : Places]
FailPcs == {"wait", "sleep", "gone"}
FailRec == [pc : FailPcs, n : Nodes]
RunPcs == {"sending", "running", "called", "marked", "telling"}
RunRec == [pc : RunPcs, id : Ids, i : 0 .. 2 * K + 1]
Troubles == {"fault", "doubted", "crowded", "unconnected", "hurried", "panic"}

QueueTypes ==
  /\ queue \in [Nodes -> Seq(Tasks)] /\ waiting \in Seq(Tasks)
  /\ assigned \in Seq(Tasks) /\ completed \in Seq(Tasks) /\ jobTasks \in [Jobs -> Seq(Tasks)]
MapTypes ==
  /\ task \in [Tasks -> TaskRec]
  /\ DOMAIN taskMap \subseteq Ids /\ \A id \in DOMAIN taskMap : taskMap[id] \in Tasks \cup {NoTask}
LeaderTypes ==
  /\ isAlive \in [Nodes -> BOOLEAN] /\ fail \in FailRec
  /\ conns \subseteq Nodes /\ updates \subseteq Tasks \X Nodes
JobTypes == job \in [Jobs -> JobRec]
WorkerTypes ==
  /\ up \in [Nodes -> BOOLEAN] /\ wq \in [Nodes -> Seq(Ids)] /\ wparts \in [Nodes -> PartsType]
  /\ toLeader \subseteq Nodes
RunTypes == DOMAIN run \subseteq Tasks \X Nodes /\ \A r \in DOMAIN run : run[r] \in RunRec
BudgetTypes ==
  /\ crashes \in 0 .. MaxCrashes /\ faults \in 0 .. MaxFaults /\ joins \in 0 .. MaxJoins
  /\ mishaps \in 0 .. MaxMishaps /\ trouble \subseteq Troubles
Types ==
  /\ QueueTypes /\ MapTypes /\ LeaderTypes /\ JobTypes /\ WorkerTypes /\ RunTypes /\ BudgetTypes

LEMMA TypesAre == TypeOK <=> Types
<1>1. Range(taskMap) \subseteq Tasks \cup {NoTask}
        <=> \A id \in DOMAIN taskMap : taskMap[id] \in Tasks \cup {NoTask}
  BY DEF Range
<1>2. Range(run) \subseteq RunRec <=> \A r \in DOMAIN run : run[r] \in RunRec
  BY DEF Range
<1>3. QueueTypes /\ MapTypes <=>
        /\ queue \in [Nodes -> Seq(Tasks)] /\ waiting \in Seq(Tasks)
        /\ task \in [Tasks -> TaskRec]
        /\ DOMAIN taskMap \subseteq Ids /\ Range(taskMap) \subseteq Tasks \cup {NoTask}
        /\ assigned \in Seq(Tasks) /\ completed \in Seq(Tasks) /\ jobTasks \in [Jobs -> Seq(Tasks)]
  BY <1>1 DEF QueueTypes, MapTypes
<1>4. RunTypes <=> DOMAIN run \subseteq Tasks \X Nodes /\ Range(run) \subseteq RunRec
  BY <1>2 DEF RunTypes
<1>5. /\ TaskRec = [id : Ids, at : Places]
      /\ JobRec = [pc : {"new", "create", "assign", "monitor", "ended", "refused", "gone"},
                   i : 1 .. 2 * K + 1, ok : BOOLEAN, senders : SUBSET Nodes,
                   receivers : SUBSET Nodes, out : PartsType]
      /\ FailRec = [pc : {"wait", "sleep", "gone"}, n : Nodes]
      /\ RunRec = [pc : {"sending", "running", "called", "marked", "telling"},
                   id : Ids, i : 0 .. 2 * K + 1]
      /\ Troubles = {"fault", "doubted", "crowded", "unconnected", "hurried", "panic"}
  BY DEF TaskRec, JobRec, JobPcs, FailRec, FailPcs, RunRec, RunPcs, Troubles
<1>. QED  BY <1>3, <1>4, <1>5 DEF TypeOK, Types, LeaderTypes, JobTypes, WorkerTypes, BudgetTypes

\* The ids given so far are numbers up to a bound, which grows with the jobs created
\* and the tasks assigned.
Early == {"new", "create", "assign"}
Given(j) == 2 * K * (j - 1) + (job[j].i - 1)
Known(x) ==
  \/ x \in DOMAIN taskMap
  \/ \E n \in Nodes : x \in Range(wq[n])
  \/ \E r \in DOMAIN run : x = run[r].id
  \/ \E t \in Range(assigned) : x = task[t].id
  \/ \E t \in Tasks : Current(t) /\ x = task[t].id

\* Jobs are created one after the other.
OrderInv ==
  /\ \A j \in Jobs : job[j].pc \in {"new", "create"} => job[j].i = 1
  /\ \A j \in Jobs : job[j].pc \in Early => \A i \in Jobs : i > j => job[i].pc = "new"
IdInv ==
  /\ \A x : Known(x) => x \in 1 .. 2 * K * NumJobs
  /\ \A j \in Jobs : job[j].pc \in Early => \A x : Known(x) => x \in 1 .. Given(j)
TellInv == \A r \in DOMAIN run : run[r].pc = "telling" => run[r].i \in K + 1 .. 2 * K
\* While a job is assigned its tasks are at workers.
PlaceInv == \A j \in Jobs : job[j].pc = "assign" => \A t \in Range(assigned) : task[t].at \in Nodes
TypeInd == Types /\ OrderInv /\ IdInv /\ TellInv /\ PlaceInv

LEMMA Constants ==
  /\ Leader \in Nodes /\ Worker0 \in Nodes /\ NoNode \notin Nodes /\ Nodes \subseteq Places
  /\ K \in Nat \ {0} /\ NumJobs \in Nat \ {0} /\ Jobs = 1 .. NumJobs
  /\ {MaxCrashes, MaxFaults, MaxJoins, MaxMishaps} \subseteq Nat
  /\ NoTask \notin Tasks /\ \A t \in Tasks : t = <<t[1], t[2]>> /\ t[1] \in Jobs /\ t[2] \in 1 .. 2 * K
  /\ \A j \in Jobs, i \in 1 .. 2 * K : <<j, i>> \in Tasks
<1>1. K \in Nat \ {0} /\ NumJobs \in Nat \ {0}
  BY ScheduleAssumption DEF ScheduleAssumption
<1>2. Stage1 \cup Stage2 = 1 .. 2 * K
  BY <1>1 DEF Stage1, Stage2
<1>3. NoTask \notin Tasks
  BY <1>1 DEF NoTask, Tasks, Jobs
<1>. QED  BY <1>1, <1>2, <1>3, ScheduleAssumption DEF ScheduleAssumption, Places, Tasks, Jobs


\* A step that gives no id and creates no job.
JobsOn ==
  \A j \in Jobs : job'[j].pc \in Early =>
    /\ job[j].pc \in Early /\ job'[j].i = job[j].i
    /\ job'[j].pc \in {"new", "create"} => job[j].pc \in {"new", "create"}
    /\ \A i \in Jobs : job[i].pc = "new" => job'[i].pc = "new"
NoNewId == \A x : Known(x)' => Known(x)

LEMMA NoneGiven ==
  ASSUME OrderInv, IdInv, JobsOn, NoNewId
  PROVE  OrderInv' /\ IdInv'
<1>1. OrderInv'
  BY DEF OrderInv, JobsOn, Early
<1>2. \A j \in Jobs : job'[j].pc \in Early => Given(j)' = Given(j)
  BY DEF JobsOn, Given
<1>3. \A x : Known(x)' => x \in 1 .. 2 * K * NumJobs
  BY DEF IdInv, NoNewId
<1>4. ASSUME NEW j \in Jobs, job'[j].pc \in Early, NEW x, Known(x)' PROVE x \in 1 .. Given(j)'
  <2>1. job[j].pc \in Early
    BY <1>4 DEF JobsOn
  <2>. QED  BY <1>2, <1>4, <2>1 DEF IdInv, NoNewId
<1>. QED  BY <1>1, <1>3, <1>4 DEF IdInv

LEMMA NoneGivenSame ==
  ASSUME OrderInv, IdInv, UNCHANGED job, NoNewId
  PROVE  OrderInv' /\ IdInv'
BY NoneGiven DEF JobsOn

LEMMA GoesOf ==
  ASSUME JobTypes, NEW j \in Jobs, NEW pc \in JobPcs, Goes(j, pc)
  PROVE  /\ JobTypes' /\ job'[j].pc = pc
         /\ job'[j].i = job[j].i /\ job'[j].ok = job[j].ok
         /\ \A i \in Jobs : i # j => job'[i] = job[i]
<1>1. job' = [job EXCEPT ![j] = [@ EXCEPT !.pc = pc]] /\ job \in [Jobs -> JobRec]
  BY DEF Goes, JobTypes
<1>2. [job[j] EXCEPT !.pc = pc] \in JobRec
  BY <1>1 DEF JobRec
<1>3. job' \in [Jobs -> JobRec]
  BY <1>1, <1>2
<1>4. job'[j] = [job[j] EXCEPT !.pc = pc] /\ job[j] \in JobRec
  BY <1>1
<1>. QED  BY <1>1, <1>3, <1>4 DEF JobTypes, JobRec

LEMMA RunsOf ==
  ASSUME RunTypes, NEW r \in DOMAIN run, NEW pc \in RunPcs, Runs(r, pc)
  PROVE  /\ RunTypes' /\ DOMAIN run' = DOMAIN run
         /\ run'[r].pc = pc /\ run'[r].id = run[r].id /\ run'[r].i = run[r].i
         /\ \A q \in DOMAIN run : q # r => run'[q] = run[q]
<1>1. run' = [run EXCEPT ![r] = [@ EXCEPT !.pc = pc]]
  BY DEF Runs
<1>2. run[r] \in RunRec /\ [run[r] EXCEPT !.pc = pc] \in RunRec
  BY DEF RunTypes, RunRec
<1>3. DOMAIN run' = DOMAIN run /\ run'[r] = [run[r] EXCEPT !.pc = pc]
      /\ \A q \in DOMAIN run : q # r => run'[q] = run[q]
  BY <1>1
<1>. QED  BY <1>2, <1>3 DEF RunTypes, RunRec

LEMMA OverOf ==
  ASSUME RunTypes, NEW R, run' = Over(R)
  PROVE  /\ RunTypes' /\ DOMAIN run' = DOMAIN run \ R
         /\ \A q \in DOMAIN run' : run'[q] = run[q]
BY DEF Over, RunTypes

\* A fault, or none, keeps to the bounds.
LEMMA FaultTypes ==
  ASSUME BudgetTypes, NEW what \in Troubles, Wrong(what) \/ NoFault, UNCHANGED <<crashes, joins>>
  PROVE  BudgetTypes' /\ trouble \subseteq trouble'
<1>1. /\ faults' \in 0 .. MaxFaults /\ mishaps' \in 0 .. MaxMishaps
      /\ trouble' = trouble \/ trouble' = trouble \cup {what}
  BY Constants DEF Wrong, Mishap, NoFault, BudgetTypes
<1>. QED  BY <1>1 DEF BudgetTypes

LEMMA FaultOrNot ==
  ASSUME BudgetTypes, Fault \/ NoFault, UNCHANGED <<crashes, joins>>
  PROVE  BudgetTypes' /\ trouble \subseteq trouble' /\ ("fault" \in trouble' \/ trouble' = trouble)
<1>1. Wrong("fault") \/ NoFault
  BY DEF Fault
<1>2. "fault" \in trouble' \/ trouble' = trouble
  BY <1>1 DEF Wrong, NoFault
<1>. QED  BY <1>1, <1>2, FaultTypes DEF Troubles

LEMMA SpoiltOf ==
  ASSUME NEW t, NEW w
  PROVE  /\ Spoilt(t, w) \subseteq {"crowded", "unconnected"} /\ Spoilt(t, w) \subseteq Troubles
         /\ "crowded" \in Spoilt(t, w) <=> \E u \in Range(taskMap) \ {NoTask, t} : task[u].at = w
BY DEF Spoilt, Troubles

\* Types of the initial state.
LEMMA InitTypes == Init => TypeInd
<1>. SUFFICES ASSUME Init PROVE TypeInd
  OBVIOUS
<1>1. NewTask \in TaskRec /\ NewJob \in JobRec /\ NoParts \in PartsType
  BY Constants DEF NewTask, NewJob, NoParts, TaskRec, JobRec, JobPcs, PartsType, Places, Ids, NoNode
<1>2. DOMAIN EmptyMap = {}
  BY DEF EmptyMap
<1>3. QueueTypes /\ MapTypes
  BY <1>1, <1>2 DEF Init, QueueTypes, MapTypes
<1>4. LeaderTypes
  BY <1>2, Constants DEF Init, LeaderTypes, FailRec, FailPcs
<1>5. JobTypes /\ WorkerTypes /\ RunTypes
  BY <1>1, <1>2 DEF Init, JobTypes, WorkerTypes, RunTypes
<1>6. BudgetTypes
  BY Constants DEF Init, BudgetTypes
<1>7. \A j \in Jobs : job[j].pc = "new" /\ job[j].i = 1
  BY DEF Init, NewJob
<1>8. \A x : ~Known(x)
  <2>1. Range(<<>>) = {}
    BY DEF Range
  <2>. QED  BY <1>2, <2>1 DEF Init, Known, Current
<1>. QED  BY <1>2, <1>3, <1>4, <1>5, <1>6, <1>7, <1>8 DEF TypeInd, Types, OrderInv, IdInv, TellInv, PlaceInv, Init


LEMMA GivenOf ==
  ASSUME NEW j \in Jobs, job[j].i \in 1 .. 2 * K
  PROVE  /\ Given(j) \in Nat /\ 2 * K * j \in Int /\ 2 * K * NumJobs \in Int
         /\ Given(j) + 1 <= 2 * K * j /\ 2 * K * j <= 2 * K * NumJobs
         /\ \A i \in Jobs : i > j => 2 * K * (i - 1) \in Int /\ 2 * K * (i - 1) >= 2 * K * j
<1>. DEFINE m == 2 * K
<1>1. m \in Nat /\ j \in Nat \ {0} /\ j <= NumJobs /\ NumJobs \in Nat /\ job[j].i \in Int
  BY Constants
<1>2. Given(j) = m * (j - 1) + (job[j].i - 1)
  BY DEF Given
<1>3. m * (j - 1) \in Nat /\ m * j = m * (j - 1) + m
  BY <1>1
<1>4. \A i \in Nat : m * i \in Int /\ (i >= j => m * i >= m * j)
  BY <1>1
<1>5. \A i \in Jobs : i > j => m * (i - 1) \in Int /\ m * (i - 1) >= m * j
  BY <1>1, <1>4 DEF Jobs
<1>6. m * NumJobs \in Int /\ m * NumJobs >= m * j
  BY <1>1, <1>4
<1>7. 1 <= job[j].i /\ job[j].i <= m
  OBVIOUS
<1>. HIDE DEF m
<1>8. Given(j) \in Nat /\ Given(j) + 1 <= m * j
  BY <1>1, <1>2, <1>3, <1>7
<1>9. m * j \in Int
  BY <1>1
<1>. QED  BY <1>5, <1>6, <1>8, <1>9 DEF m

LEMMA NextIdOf ==
  ASSUME TypeInd, NEW j \in Jobs, job[j].pc = "assign", job[j].i \in 1 .. 2 * K
  PROVE  NextId \in 1 .. Given(j) + 1 /\ NextId \in Ids
<1>. DEFINE g == Given(j)
<1>1. \A x : Known(x) => x \in 1 .. g
  BY DEF TypeInd, IdInv, Early
<1>2. g \in Nat /\ g + 1 <= 2 * K * NumJobs /\ 2 * K * NumJobs \in Int
  BY GivenOf
<1>0. g \in Nat
  BY <1>2
<1>. HIDE DEF g
<1>3. DOMAIN taskMap \subseteq 1 .. g
  BY <1>1 DEF Known
<1>4. IsFiniteSet(1 .. g) /\ Cardinality(1 .. g) = g
  <2>1. 1 \in Int /\ g \in Int
    BY <1>0
  <2>2. IsFiniteSet(1 .. g) /\ Cardinality(1 .. g) = IF 1 > g THEN 0 ELSE g - 1 + 1
    BY <2>1, FS_Interval, Zenon
  <2>. QED  BY <1>0, <2>2
<1>5. Cardinality(DOMAIN taskMap) \in Nat /\ Cardinality(DOMAIN taskMap) <= g
  BY <1>3, <1>4, FS_Subset, FS_CardinalityType
<1>. QED  BY <1>2, <1>5 DEF NextId, g, Ids

LEMMA Sizes == K \in Nat \ {0} /\ NumJobs \in Nat \ {0}
BY Constants

\* One more id, within the bound of the job that is assigned.
LEMMA OneGiven ==
  ASSUME TypeInd, NEW j \in Jobs, job[j].pc = "assign", job[j].i \in 1 .. 2 * K,
         job'[j].pc = "assign", job'[j].i = job[j].i + 1,
         \A i \in Jobs : i # j => job'[i] = job[i],
         \A x : Known(x)' => Known(x) \/ x = NextId
  PROVE  OrderInv' /\ IdInv'
<1>. DEFINE g == Given(j)
            b == 2 * K * j
            c == 2 * K * NumJobs
<1>1. g \in Nat /\ b \in Int /\ c \in Int /\ g + 1 <= b /\ b <= c
  BY GivenOf
<1>2. \A i \in Jobs : i > j => 2 * K * (i - 1) \in Int /\ 2 * K * (i - 1) >= b
  BY GivenOf
<1>3. Given(j)' = g + 1
  <2>1. 2 * K * (j - 1) \in Int /\ job[j].i \in Int
    BY Constants DEF Jobs
  <2>. QED  BY <2>1 DEF Given
<1>4. NextId \in 1 .. g + 1
  BY NextIdOf
<1>5. \A x : Known(x) => x \in 1 .. g
  BY DEF TypeInd, IdInv, Early
<1>. HIDE DEF g, b, c
<1>6. \A x : Known(x)' => x \in 1 .. g + 1
  BY <1>1, <1>4, <1>5
<1>7. \A i \in Jobs : i # j => job'[i].pc = job[i].pc /\ job'[i].i = job[i].i
  OBVIOUS
<1>8. OrderInv'
  BY <1>7 DEF TypeInd, OrderInv, Early
<1>9. ASSUME NEW i \in Jobs, job'[i].pc \in Early, i # j, NEW x, Known(x)'
      PROVE  x \in 1 .. Given(i)'
  <2>1. i > j /\ job[i].pc = "new" /\ job[i].i = 1
    <3>1. job[i].pc \in Early /\ i \in Int /\ j \in Int
      BY <1>7, <1>9 DEF Jobs
    <3>2. ~(i < j)
      BY <3>1 DEF TypeInd, OrderInv, Early
    <3>3. i > j
      BY <1>9, <3>1, <3>2
    <3>. QED  BY <3>3 DEF TypeInd, OrderInv, Early
  <2>2. Given(i)' = 2 * K * (i - 1) + (1 - 1)
    BY <1>7, <1>9, <2>1 DEF Given
  <2>3. Given(i)' \in Int /\ Given(i)' >= b
    BY <1>2, <2>1, <2>2
  <2>4. x \in Int /\ 1 <= x /\ x <= g + 1
    BY <1>1, <1>6, <1>9
  <2>. QED  BY <1>1, <2>3, <2>4
<1>10. \A x : Known(x)' => x \in 1 .. c
  BY <1>1, <1>6
<1>. QED  BY <1>3, <1>6, <1>8, <1>9, <1>10 DEF IdInv, c

LEMMA IdsAre ==
  ASSUME IdInv
  PROVE  \A x : Known(x) => x \in Ids
BY Constants DEF IdInv, Ids

LEMMA SubmitTypes ==
  ASSUME TypeInd, NEW j \in Jobs, Submit(j)
  PROVE  TypeInd'
<1>1. Goes(j, "create") /\ job[j].pc = "new" /\ JobTypes
  BY DEF Submit, TypeInd, Types
<1>2. JobTypes' /\ job'[j].pc = "create" /\ job'[j].i = job[j].i /\ \A i \in Jobs : i # j => job'[i] = job[i]
  BY <1>1, GoesOf DEF JobPcs
<1>3. QueueTypes' /\ MapTypes' /\ LeaderTypes'
  BY DEF Submit, lists, TypeInd, Types, QueueTypes, MapTypes, LeaderTypes
<1>4. WorkerTypes' /\ RunTypes' /\ BudgetTypes' /\ TellInv'
  BY DEF Submit, workerVars, budget, TypeInd, Types, WorkerTypes, RunTypes, BudgetTypes, TellInv
<1>5. \A x : Known(x)' => Known(x)
  BY DEF Known, Current, Submit, lists, workerVars
<1>6. OrderInv'
  <2>1. ASSUME NEW i \in Jobs, job'[i].pc \in Early, NEW h \in Jobs, h > i PROVE job'[h].pc = "new"
    <3>1. job[i].pc \in Early
      BY <1>1, <1>2, <2>1 DEF Early
    <3>2. job[h].pc = "new"
      BY <2>1, <3>1 DEF TypeInd, OrderInv
    <3>3. h # j
      <4>1. ASSUME h = j PROVE i \in 1 .. j - 1
        BY <2>1, <4>1 DEF Jobs
      <4>. QED  BY <3>1, <4>1 DEF Submit, Early
    <3>. QED  BY <1>2, <3>2, <3>3
  <2>2. \A i \in Jobs : job'[i].pc \in {"new", "create"} => job'[i].i = 1
    BY <1>1, <1>2 DEF TypeInd, OrderInv
  <2>. QED  BY <2>1, <2>2 DEF OrderInv
<1>7. IdInv'
  <2>1. \A i \in Jobs : job'[i].pc \in Early => job[i].pc \in Early /\ Given(i)' = Given(i)
    BY <1>1, <1>2 DEF Early, Given
  <2>. QED  BY <1>5, <2>1 DEF TypeInd, IdInv
<1>8. PlaceInv'
  BY <1>2 DEF Submit, lists, TypeInd, PlaceInv
<1>. QED  BY <1>2, <1>3, <1>4, <1>6, <1>7, <1>8 DEF TypeInd, Types

LEMMA CreateJobTypes ==
  ASSUME TypeInd, NEW j \in Jobs, CreateJob(j)
  PROVE  TypeInd'
<1>1. PICK pc \in {"assign", "refused"} : Goes(j, pc)
  BY DEF CreateJob
<1>2. JobTypes /\ job[j].pc = "create"
  BY DEF CreateJob, TypeInd, Types
<1>3. JobTypes' /\ job'[j].pc = pc /\ job'[j].i = job[j].i /\ \A i \in Jobs : i # j => job'[i] = job[i]
  BY <1>1, <1>2, GoesOf DEF JobPcs
<1>4. QueueTypes'
  <2>1. <<>> \in Seq(Tasks) /\ QueueTypes
    BY DEF TypeInd, Types
  <2>2. CASE UNCHANGED <<queue, waiting, assigned, completed, jobTasks>>
    BY <2>1, <2>2 DEF QueueTypes
  <2>3. CASE /\ queue' = [n \in Nodes |-> <<>>] /\ waiting' = <<>>
             /\ assigned' = <<>> /\ completed' = <<>> /\ jobTasks' = [i \in Jobs |-> <<>>]
    BY <2>1, <2>3 DEF QueueTypes
  <2>. QED  BY <2>2, <2>3 DEF CreateJob
<1>5. MapTypes' /\ LeaderTypes'
  BY DEF CreateJob, TypeInd, Types, MapTypes, LeaderTypes, EmptyMap
<1>6. WorkerTypes' /\ RunTypes' /\ TellInv'
  BY DEF CreateJob, workerVars, TypeInd, Types, WorkerTypes, RunTypes, TellInv
<1>7. BudgetTypes'
  BY FaultOrNot DEF CreateJob, TypeInd, Types
<1>8. NoNewId
  <2>1. CASE UNCHANGED <<taskMap, assigned>>
    BY <2>1 DEF NoNewId, Known, Current, CreateJob, workerVars
  <2>2. CASE taskMap' = EmptyMap /\ assigned' = <<>>
    <3>1. DOMAIN taskMap' = {} /\ Range(assigned') = {}
      BY <2>2 DEF EmptyMap, Range
    <3>. QED  BY <3>1 DEF NoNewId, Known, Current, CreateJob, workerVars
  <2>. QED  BY <2>1, <2>2 DEF CreateJob
<1>9. JobsOn
  BY <1>2, <1>3 DEF JobsOn, Early
<1>10. PlaceInv'
  <2>1. CASE pc = "refused"
    <3>1. \A i \in Jobs : job'[i].pc = "assign" => job[i].pc = "assign"
      BY <1>3, <2>1
    <3>2. UNCHANGED <<task, assigned>> \/ Range(assigned') = {}
      BY DEF CreateJob, Range
    <3>. QED  BY <3>1, <3>2 DEF TypeInd, PlaceInv
  <2>2. CASE pc = "assign"
    <3>1. job'[j].pc # "refused"
      BY <1>3, <2>2
    <3>2. assigned' = <<>>
      <4>1. Goes(j, "refused") => job'[j].pc = "refused"
        BY <1>2, GoesOf DEF JobPcs
      <4>. QED  BY <3>1, <4>1 DEF CreateJob
    <3>3. Range(assigned') = {}
      BY <3>2 DEF Range
    <3>. QED  BY <3>3 DEF PlaceInv
  <2>. QED  BY <2>1, <2>2
<1>. QED  BY <1>3, <1>4, <1>5, <1>6, <1>7, <1>8, <1>9, <1>10, NoneGiven DEF TypeInd, Types

LEMMA SendsOf ==
  ASSUME RunTypes, MapTypes, NEW R \in SUBSET (Tasks \X Nodes), Sends(R)
  PROVE  /\ RunTypes' /\ DOMAIN run' = R \cup DOMAIN run
         /\ \A r \in R : run'[r] = Sending(r[1]) /\ run'[r].pc = "sending" /\ run'[r].id = task[r[1]].id
         /\ \A r \in DOMAIN run \ R : run'[r] = run[r]
<1>1. \A t \in Tasks : Sending(t) \in RunRec
  BY Constants DEF Sending, RunRec, RunPcs, MapTypes, TaskRec
<1>2. \A t \in Tasks : Sending(t).pc = "sending" /\ Sending(t).id = task[t].id
  BY DEF Sending
<1>3. run' = [r \in R \cup DOMAIN run |-> IF r \in R THEN Sending(r[1]) ELSE run[r]]
  BY DEF Sends
<1>4. \A r \in R : r[1] \in Tasks
  OBVIOUS
<1>. QED  BY <1>1, <1>2, <1>3, <1>4 DEF RunTypes


\* What the assignments of stage 1 and of stage 2 have in common: task t is put down
\* for worker w, or has found none.
Placed(t, w) ==
  /\ queue' = [queue EXCEPT ![w] = Append(@, t)] /\ UNCHANGED waiting
  /\ isAlive[w] /\ trouble' = trouble \cup Spoilt(t, w)
Waits(t) == UNCHANGED queue /\ waiting' = Append(waiting, t) /\ trouble' = trouble \cup {"crowded"}
Listed(t) == taskMap' = Put(taskMap, NextId, t) /\ assigned' = Append(assigned, t)
Assigns(j, t, w) ==
  /\ job[j].pc = "assign" /\ t = <<j, job[j].i>>
  /\ task' = [task EXCEPT ![t] = [id |-> NextId, at |-> w]]
  /\ jobTasks' = [jobTasks EXCEPT ![j] = Append(@, t)]
  /\ \/ Placed(t, w) /\ Listed(t)
     \/ Waits(t) /\ Listed(t)
     \/ Waits(t) /\ UNCHANGED <<taskMap, assigned>>
  /\ UNCHANGED <<isAlive, completed, fail, conns, updates, workerVars, budget>>

LEMMA CandidatesOf ==
  ASSUME NEW files, NEW w \in Candidates(files)
  PROVE  w \in Nodes /\ isAlive[w]
BY DEF Candidates

LEMMA AssignOf ==
  ASSUME JobTypes, NEW j \in Jobs, AssignStage1(j) \/ AssignStage2(j)
  PROVE  /\ job[j].i \in 1 .. 2 * K
         /\ \E t \in Tasks, w \in Nodes : Assigns(j, t, w)
         /\ JobTypes' /\ job'[j].pc = "assign" /\ job'[j].i = job[j].i + 1
         /\ job'[j].ok = job[j].ok \/ "crowded" \in trouble'
         /\ \A i \in Jobs : i # j => job'[i] = job[i]
<1>. PICK t : t = <<j, job[j].i>>
  OBVIOUS
<1>1. job[j] \in JobRec /\ job[j].pc = "assign" /\ job[j].i \in Stage1 \cup Stage2
  BY DEF JobTypes, AssignStage1, AssignStage2
<1>2. job[j].i \in 1 .. 2 * K /\ job[j].i + 1 \in 1 .. 2 * K + 1
  <2>1. \A i \in (1 .. K) \cup (K + 1 .. 2 * K) : i \in 1 .. 2 * K /\ i + 1 \in 1 .. 2 * K + 1
    BY Sizes
  <2>. QED  BY <1>1, <2>1 DEF Stage1, Stage2
<1>3. t \in Tasks
  BY <1>2, Constants
<1>4. ASSUME AssignStage1(j)
      PROVE  /\ \E w \in Nodes : Assigns(j, t, w)
             /\ JobTypes' /\ job'[j].pc = "assign" /\ job'[j].i = job[j].i + 1
             /\ job'[j].ok = job[j].ok \/ "crowded" \in trouble'
             /\ \A i \in Jobs : i # j => job'[i] = job[i]
  <2>1. CASE Candidates(Holders) = {}
    <3>1. Assigns(j, t, Worker0)
      BY <1>1, <1>4, <2>1 DEF AssignStage1, Assigns, Waits
    <3>2. job' = [job EXCEPT ![j].i = @ + 1, ![j].ok = FALSE] /\ "crowded" \in trouble'
      BY <1>4, <2>1 DEF AssignStage1
    <3>. DEFINE rec == [job[j] EXCEPT !.i = @ + 1, !.ok = FALSE]
    <3>3. rec \in JobRec /\ rec.pc = "assign" /\ rec.i = job[j].i + 1
      BY <1>1, <1>2 DEF JobRec
    <3>4. job' = [job EXCEPT ![j] = rec]
      BY <3>2
    <3>. HIDE DEF rec
    <3>5. job' \in [Jobs -> JobRec] /\ job'[j] = rec /\ \A i \in Jobs : i # j => job'[i] = job[i]
      BY <3>3, <3>4 DEF JobTypes
    <3>. QED  BY <3>1, <3>2, <3>3, <3>5, Constants DEF JobTypes
  <2>2. CASE Candidates(Holders) # {}
    <3>1. PICK w \in Candidates(Holders) :
            /\ queue' = [queue EXCEPT ![w] = Append(@, t)]
            /\ task' = [task EXCEPT ![t] = [id |-> NextId, at |-> w]]
            /\ taskMap' = Put(taskMap, NextId, t)
            /\ assigned' = Append(assigned, t)
            /\ job' = [job EXCEPT ![j].i = @ + 1, ![j].senders = @ \cup {w}]
            /\ trouble' = trouble \cup Spoilt(t, w)
            /\ UNCHANGED waiting
      BY <1>4, <2>2 DEF AssignStage1
    <3>2. w \in Nodes /\ isAlive[w]
      BY CandidatesOf
    <3>3. Assigns(j, t, w)
      BY <1>1, <1>4, <3>1, <3>2 DEF AssignStage1, Assigns, Placed, Listed
    <3>. DEFINE rec == [job[j] EXCEPT !.i = @ + 1, !.senders = @ \cup {w}]
    <3>4. rec \in JobRec /\ rec.pc = "assign" /\ rec.i = job[j].i + 1 /\ rec.ok = job[j].ok
      BY <1>1, <1>2, <3>2 DEF JobRec
    <3>5. job' = [job EXCEPT ![j] = rec]
      BY <3>1
    <3>. HIDE DEF rec
    <3>6. job' \in [Jobs -> JobRec] /\ job'[j] = rec /\ \A i \in Jobs : i # j => job'[i] = job[i]
      BY <3>4, <3>5 DEF JobTypes
    <3>. QED  BY <3>2, <3>3, <3>4, <3>6 DEF JobTypes
  <2>. QED  BY <2>1, <2>2
<1>5. ASSUME AssignStage2(j)
      PROVE  /\ \E w \in Nodes : Assigns(j, t, w)
             /\ JobTypes' /\ job'[j].pc = "assign" /\ job'[j].i = job[j].i + 1
             /\ job'[j].ok = job[j].ok
             /\ \A i \in Jobs : i # j => job'[i] = job[i]
  <2>1. PICK c : c \in (IF Candidates({}) = {} THEN {NoNode} ELSE Candidates({})) /\
          \E w \in Nodes :
            /\ w = IF c = NoNode THEN Worker0 ELSE c
            /\ queue' = IF c = NoNode THEN queue ELSE [queue EXCEPT ![c] = Append(@, t)]
            /\ waiting' = IF c = NoNode THEN Append(waiting, t) ELSE waiting
            /\ task' = [task EXCEPT ![t] = [id |-> NextId, at |-> w]]
            /\ job' = [job EXCEPT ![j].i = job[j].i + 1, ![j].out[job[j].i - K] = w, ![j].receivers = @ \cup {w}]
            /\ trouble' = trouble \cup IF c = NoNode THEN {"crowded"} ELSE Spoilt(t, c)
    <3>1. \A c \in IF Candidates({}) = {} THEN {NoNode} ELSE Candidates({}) :
            (IF c = NoNode THEN Worker0 ELSE c) \in Nodes
      BY CandidatesOf, Constants
    <3>. QED  BY <1>5, <3>1 DEF AssignStage2
  <2>2. PICK w \in Nodes :
            /\ w = IF c = NoNode THEN Worker0 ELSE c
            /\ queue' = IF c = NoNode THEN queue ELSE [queue EXCEPT ![c] = Append(@, t)]
            /\ waiting' = IF c = NoNode THEN Append(waiting, t) ELSE waiting
            /\ task' = [task EXCEPT ![t] = [id |-> NextId, at |-> w]]
            /\ job' = [job EXCEPT ![j].i = job[j].i + 1, ![j].out[job[j].i - K] = w, ![j].receivers = @ \cup {w}]
            /\ trouble' = trouble \cup IF c = NoNode THEN {"crowded"} ELSE Spoilt(t, c)
    BY <2>1
  <2>3. Placed(t, w) \/ Waits(t)
    <3>1. CASE c = NoNode
      BY <2>2, <3>1 DEF Waits
    <3>2. CASE c # NoNode
      <4>1. c = w /\ isAlive[c]
        BY <2>1, <2>2, <3>2, CandidatesOf
      <4>. QED  BY <2>2, <3>2, <4>1 DEF Placed
    <3>. QED  BY <3>1, <3>2
  <2>4. Assigns(j, t, w)
    BY <1>1, <1>5, <2>2, <2>3 DEF AssignStage2, Assigns, Listed
  <2>. DEFINE rec == [job[j] EXCEPT !.i = job[j].i + 1, !.out[job[j].i - K] = w, !.receivers = @ \cup {w}]
  <2>5. job' = [job EXCEPT ![j] = rec]
    BY <2>2
  <2>6. rec \in JobRec /\ rec.pc = "assign" /\ rec.i = job[j].i + 1 /\ rec.ok = job[j].ok
    <3>1. job[j].i - K \in Stage1
      <4>1. \A i \in K + 1 .. 2 * K : i - K \in 1 .. K
        BY Sizes
      <4>. QED  BY <1>5, <4>1 DEF AssignStage2, Stage1, Stage2
    <3>2. [job[j].out EXCEPT ![job[j].i - K] = w] \in PartsType
      BY <1>1, <3>1, Constants DEF JobRec, PartsType
    <3>3. PICK parts0 \in PartsType, k0 \in 1 .. 2 * K + 1 :
            k0 = job[j].i + 1 /\ parts0 = [job[j].out EXCEPT ![job[j].i - K] = w]
      BY <1>2, <3>2
    <3>. DEFINE new == [job[j] EXCEPT !.i = k0, !.out = parts0, !.receivers = @ \cup {w}]
    <3>4. new \in JobRec /\ new.pc = "assign" /\ new.i = k0 /\ new.ok = job[j].ok
      BY <1>1 DEF JobRec
    <3>5. rec = new
      BY <3>3
    <3>. HIDE DEF rec, new
    <3>. QED  BY <3>3, <3>4, <3>5
  <2>. HIDE DEF rec
  <2>7. job' \in [Jobs -> JobRec] /\ job'[j] = rec /\ \A i \in Jobs : i # j => job'[i] = job[i]
    BY <2>5, <2>6 DEF JobTypes
  <2>. QED  BY <2>4, <2>6, <2>7 DEF JobTypes
<1>. QED  BY <1>2, <1>3, <1>4, <1>5

LEMMA AssignTypes ==
  ASSUME TypeInd, NEW j \in Jobs, AssignStage1(j) \/ AssignStage2(j)
  PROVE  TypeInd'
<1>1. JobTypes /\ QueueTypes /\ MapTypes
  BY DEF TypeInd, Types
<1>2. /\ job[j].i \in 1 .. 2 * K
      /\ JobTypes' /\ job'[j].pc = "assign" /\ job'[j].i = job[j].i + 1
      /\ \A i \in Jobs : i # j => job'[i] = job[i]
  BY <1>1, AssignOf
<1>3. PICK t \in Tasks, w \in Nodes : Assigns(j, t, w)
  BY <1>1, AssignOf
<1>4. NextId \in Ids
  BY <1>2, <1>3, NextIdOf DEF Assigns
<1>5. [id |-> NextId, at |-> w] \in TaskRec /\ [id |-> NextId, at |-> w].id = NextId /\ [id |-> NextId, at |-> w].at = w
  BY <1>4, Constants DEF TaskRec
<1>6. task' \in [Tasks -> TaskRec] /\ task'[t].id = NextId /\ task'[t].at = w
      /\ \A u \in Tasks : u # t => task'[u] = task[u]
  BY <1>1, <1>3, <1>5 DEF Assigns, MapTypes
<1>7. assigned \in Seq(Tasks) /\ Range(assigned) \subseteq Tasks
  BY <1>1, RangeOf DEF QueueTypes
<1>8. assigned' = assigned \/ (assigned' = Append(assigned, t) /\ Range(assigned') = Range(assigned) \cup {t})
  <2>1. Range(Append(assigned, t)) = Range(assigned) \cup {t}
    BY <1>7, AppendOf
  <2>. QED  BY <1>3, <2>1 DEF Assigns, Listed
<1>9. QueueTypes'
  <2>1. queue' \in [Nodes -> Seq(Tasks)]
    <3>1. Append(queue[w], t) \in Seq(Tasks)
      BY <1>1 DEF QueueTypes
    <3>. QED  BY <1>1, <1>3, <3>1 DEF QueueTypes, Assigns, Placed, Waits
  <2>2. jobTasks' \in [Jobs -> Seq(Tasks)]
    <3>1. Append(jobTasks[j], t) \in Seq(Tasks)
      BY <1>1 DEF QueueTypes
    <3>. QED  BY <1>1, <1>3, <3>1 DEF QueueTypes, Assigns
  <2>3. waiting' \in Seq(Tasks) /\ assigned' \in Seq(Tasks) /\ completed' \in Seq(Tasks)
    <3>1. Append(waiting, t) \in Seq(Tasks) /\ Append(assigned, t) \in Seq(Tasks)
      BY <1>1 DEF QueueTypes
    <3>. QED  BY <1>1, <1>3, <3>1 DEF QueueTypes, Assigns, Placed, Waits, Listed
  <2>. QED  BY <2>1, <2>2, <2>3 DEF QueueTypes
<1>10. MapTypes'
  <2>1. CASE taskMap' = taskMap
    BY <1>1, <1>6, <2>1 DEF MapTypes
  <2>2. CASE taskMap' = Put(taskMap, NextId, t)
    <3>1. DOMAIN taskMap' = DOMAIN taskMap \cup {NextId} /\ taskMap'[NextId] = t
          /\ \A x \in DOMAIN taskMap : x # NextId => taskMap'[x] = taskMap[x]
      BY <2>2 DEF Put
    <3>. QED  BY <1>1, <1>4, <1>6, <3>1 DEF MapTypes
  <2>. QED  BY <1>3, <2>1, <2>2 DEF Assigns, Listed
<1>11. LeaderTypes' /\ WorkerTypes' /\ RunTypes' /\ TellInv'
  BY <1>3 DEF Assigns, workerVars, TypeInd, Types, LeaderTypes, WorkerTypes, RunTypes, TellInv
<1>12. BudgetTypes'
  <2>1. trouble' \subseteq Troubles
    <3>1. trouble \subseteq Troubles /\ Spoilt(t, w) \subseteq Troubles /\ {"crowded"} \subseteq Troubles
      BY SpoiltOf DEF TypeInd, Types, BudgetTypes, Troubles
    <3>. QED  BY <1>3, <3>1 DEF Assigns, Placed, Waits
  <2>. QED  BY <1>3, <2>1 DEF Assigns, budget, TypeInd, Types, BudgetTypes
<1>13. ASSUME NEW x, Known(x)' PROVE Known(x) \/ x = NextId
  <2>1. ASSUME NEW u \in Tasks, Current(u)' PROVE u = t \/ Current(u)
    <3>1. CASE taskMap' = taskMap
      BY <2>1, <3>1 DEF Current
    <3>2. CASE taskMap' = Put(taskMap, NextId, t)
      BY <2>1, <3>2 DEF Current, Put
    <3>. QED  BY <1>3, <3>1, <3>2 DEF Assigns, Listed
  <2>2. CASE x \in DOMAIN taskMap'
    BY <1>3, <2>2 DEF Assigns, Listed, Known, Put
  <2>3. CASE \E n \in Nodes : x \in Range(wq'[n])
    BY <1>3, <2>3 DEF Assigns, workerVars, Known
  <2>4. CASE \E r \in DOMAIN run' : x = run'[r].id
    BY <1>3, <2>4 DEF Assigns, workerVars, Known
  <2>5. CASE \E u \in Range(assigned') : x = task'[u].id
    BY <1>6, <1>7, <1>8, <2>5 DEF Known
  <2>6. CASE \E u \in Tasks : Current(u)' /\ x = task'[u].id
    BY <1>6, <2>1, <2>6 DEF Known
  <2>. QED  BY <1>13, <2>2, <2>3, <2>4, <2>5, <2>6 DEF Known
<1>14. OrderInv' /\ IdInv'
  BY <1>2, <1>3, <1>13, OneGiven DEF Assigns
<1>15. PlaceInv'
  <2>1. \A u \in Range(assigned) : task[u].at \in Nodes
    BY <1>3 DEF TypeInd, PlaceInv, Assigns
  <2>2. \A u \in Range(assigned') : task'[u].at \in Nodes
    BY <1>6, <1>7, <1>8, <2>1
  <2>. QED  BY <2>2 DEF PlaceInv
<1>. QED  BY <1>2, <1>9, <1>10, <1>11, <1>12, <1>14, <1>15 DEF TypeInd, Types


LEMMA LeaderSame ==
  ASSUME TypeInd, UNCHANGED leaderVars
  PROVE  QueueTypes' /\ MapTypes' /\ LeaderTypes' /\ JobTypes' /\ PlaceInv'
<1>1. QueueTypes' /\ MapTypes'
  BY DEF leaderVars, lists, TypeInd, Types, QueueTypes, MapTypes
<1>2. LeaderTypes' /\ JobTypes' /\ PlaceInv'
  BY DEF leaderVars, lists, TypeInd, Types, LeaderTypes, JobTypes, PlaceInv
<1>. QED  BY <1>1, <1>2

\* A step of a worker or of a call: the leader's state stays, runs keep their ids or take
\* known ones, and so do the queues of the workers.
LEMMA WorkerStep ==
  ASSUME TypeInd, UNCHANGED leaderVars, WorkerTypes', RunTypes', BudgetTypes', TellInv',
         \A r \in DOMAIN run' : Known(run'[r].id),
         \A n \in Nodes : \A x \in Range(wq'[n]) : Known(x)
  PROVE  TypeInd'
<1>1. \A x : Known(x)' => Known(x)
  BY DEF leaderVars, lists, Known, Current
<1>2. OrderInv' /\ IdInv'
  BY <1>1, NoneGivenSame DEF TypeInd, leaderVars, NoNewId
<1>. QED  BY <1>2, LeaderSame DEF TypeInd, Types

LEMMA SendAllTypes ==
  ASSUME TypeInd, NEW j \in Jobs, SendAll(j)
  PROVE  TypeInd'
<1>1. JobTypes /\ QueueTypes /\ MapTypes /\ RunTypes /\ job[j].pc = "assign" /\ Goes(j, "monitor")
  BY DEF SendAll, TypeInd, Types
<1>2. JobTypes' /\ job'[j].pc = "monitor" /\ \A i \in Jobs : i # j => job'[i] = job[i]
  BY <1>1, GoesOf DEF JobPcs
<1>3. Range(assigned) \subseteq Tasks /\ \A t \in Range(assigned) : task[t].at \in Nodes
  BY <1>1, RangeOf DEF QueueTypes, TypeInd, PlaceInv
<1>4. PICK R \in SUBSET (Tasks \X Nodes) : Sends(R) /\ \A r \in R : r[1] \in Range(assigned)
  <2>1. {<<t, task[t].at>> : t \in Range(assigned)} \in SUBSET (Tasks \X Nodes)
    BY <1>3
  <2>2. \A r \in {<<t, task[t].at>> : t \in Range(assigned)} : r[1] \in Range(assigned)
    OBVIOUS
  <2>. QED  BY <2>1, <2>2 DEF SendAll
<1>5. /\ RunTypes' /\ DOMAIN run' = R \cup DOMAIN run
      /\ \A r \in R : run'[r].pc = "sending" /\ run'[r].id = task[r[1]].id
      /\ \A r \in DOMAIN run \ R : run'[r] = run[r]
  BY <1>1, <1>4, SendsOf
<1>6. QueueTypes' /\ MapTypes' /\ LeaderTypes'
  BY DEF SendAll, lists, TypeInd, Types, QueueTypes, MapTypes, LeaderTypes
<1>7. WorkerTypes' /\ BudgetTypes'
  BY DEF SendAll, budget, TypeInd, Types, WorkerTypes, BudgetTypes
<1>8. TellInv'
  BY <1>5 DEF TypeInd, TellInv
<1>9. NoNewId
  <2>1. ASSUME NEW r \in DOMAIN run' PROVE Known(run'[r].id)
    BY <1>4, <1>5 DEF Known
  <2>. QED  BY <2>1 DEF NoNewId, Known, Current, SendAll, lists
<1>10. JobsOn
  BY <1>1, <1>2 DEF JobsOn, Early
<1>11. PlaceInv'
  BY <1>2 DEF PlaceInv, TypeInd, SendAll, lists
<1>. QED  BY <1>2, <1>5, <1>6, <1>7, <1>8, <1>9, <1>10, <1>11, NoneGiven DEF TypeInd, Types

LEMMA MonitorTickTypes ==
  ASSUME TypeInd, NEW j \in Jobs, MonitorTick(j)
  PROVE  TypeInd'
<1>1. /\ job[j].pc = "monitor" /\ Goes(j, "ended") /\ assigned' = <<>> /\ completed' = <<>>
      /\ jobTasks' = [jobTasks EXCEPT ![j] = <<>>]
      /\ UNCHANGED <<isAlive, queue, waiting, task, taskMap, fail, conns, updates, workerVars, budget, trouble>>
  BY DEF MonitorTick, Ticks
<1>2. JobTypes' /\ job'[j].pc = "ended" /\ \A i \in Jobs : i # j => job'[i] = job[i]
  BY <1>1, GoesOf DEF JobPcs, TypeInd, Types
<1>3. QueueTypes'
  BY <1>1 DEF TypeInd, Types, QueueTypes
<1>4. MapTypes' /\ LeaderTypes' /\ WorkerTypes'
  BY <1>1 DEF workerVars, TypeInd, Types, MapTypes, LeaderTypes, WorkerTypes
<1>5. RunTypes' /\ BudgetTypes' /\ TellInv'
  BY <1>1 DEF workerVars, budget, TypeInd, Types, RunTypes, BudgetTypes, TellInv
<1>6. Range(assigned') = {}
  BY <1>1 DEF Range
<1>7. NoNewId
  BY <1>1, <1>6 DEF NoNewId, Known, Current, workerVars
<1>8. JobsOn
  BY <1>1, <1>2 DEF JobsOn, Early
<1>9. PlaceInv'
  BY <1>6 DEF PlaceInv
<1>. QED  BY <1>2, <1>3, <1>4, <1>5, <1>7, <1>8, <1>9, NoneGiven DEF TypeInd, Types

LEMMA DeliverTypes ==
  ASSUME TypeInd, NEW t, NEW n, <<t, n>> \in DOMAIN run, Deliver(t, n)
  PROVE  TypeInd'
<1>. PICK r \in DOMAIN run : r = <<t, n>>
  OBVIOUS
<1>1. r \in Tasks \X Nodes /\ t \in Tasks /\ n \in Nodes /\ t[1] \in Jobs /\ run[r] \in RunRec
  BY Constants DEF TypeInd, Types, RunTypes
<1>2. /\ wparts' = [wparts EXCEPT ![n] = job[t[1]].out]
      /\ wq' = [wq EXCEPT ![n] = Append(@, run[r].id)]
      /\ UNCHANGED <<leaderVars, up, toLeader, crashes, joins>>
      /\ Fault \/ NoFault
      /\ Runs(r, "running") \/ run' = Over({r})
  BY DEF Deliver
<1>3. /\ RunTypes' /\ \A q \in DOMAIN run' : q \in DOMAIN run /\ run'[q].id = run[q].id /\ run'[q].i = run[q].i
      /\ \A q \in DOMAIN run' : run'[q].pc = "running" \/ run'[q] = run[q]
  BY <1>2, RunsOf, OverOf DEF RunPcs, TypeInd, Types
<1>4. run[r].id \in Ids
  BY <1>1 DEF RunRec
<1>5. WorkerTypes'
  <2>1. job[t[1]].out \in PartsType
    BY <1>1 DEF TypeInd, Types, JobTypes, JobRec
  <2>2. Append(wq[n], run[r].id) \in Seq(Ids)
    BY <1>1, <1>4 DEF TypeInd, Types, WorkerTypes
  <2>. QED  BY <1>1, <1>2, <2>1, <2>2 DEF TypeInd, Types, WorkerTypes
<1>6. BudgetTypes'
  BY <1>2, FaultOrNot DEF TypeInd, Types
<1>7. TellInv'
  BY <1>3 DEF TypeInd, TellInv
<1>8. \A q \in DOMAIN run' : Known(run'[q].id)
  BY <1>3 DEF Known
<1>9. ASSUME NEW m \in Nodes, NEW x \in Range(wq'[m]) PROVE Known(x)
  <2>1. wq[m] \in Seq(Ids) /\ wq[n] \in Seq(Ids)
    BY <1>1 DEF TypeInd, Types, WorkerTypes
  <2>2. Range(Append(wq[n], run[r].id)) = Range(wq[n]) \cup {run[r].id}
    BY <1>4, <2>1, AppendOf
  <2>3. x \in Range(wq[m]) \/ x = run[r].id
    BY <1>1, <1>2, <1>9, <2>2 DEF TypeInd, Types, WorkerTypes
  <2>. QED  BY <2>3 DEF Known
<1>. QED  BY <1>2, <1>3, <1>5, <1>6, <1>7, <1>8, <1>9, WorkerStep

\* A step that only drops runs, or moves them without a new id.
LEMMA RunStep ==
  ASSUME TypeInd, UNCHANGED <<leaderVars, up, wq, wparts, toLeader>>, RunTypes', BudgetTypes', TellInv',
         \A r \in DOMAIN run' : Known(run'[r].id)
  PROVE  TypeInd'
<1>1. WorkerTypes'
  BY DEF TypeInd, Types, WorkerTypes
<1>2. \A n \in Nodes : \A x \in Range(wq'[n]) : Known(x)
  BY DEF Known
<1>3. UNCHANGED leaderVars
  OBVIOUS
<1>. QED  BY <1>1, <1>2, <1>3, WorkerStep

LEMMA SendFailsTypes ==
  ASSUME TypeInd, NEW t, NEW n, <<t, n>> \in DOMAIN run, SendFails(t, n)
  PROVE  TypeInd'
<1>1. run' = Over({<<t, n>>}) /\ (Fault \/ NoFault)
  BY DEF SendFails
<1>2. RunTypes' /\ \A q \in DOMAIN run' : q \in DOMAIN run /\ run'[q] = run[q]
  BY <1>1, OverOf DEF TypeInd, Types
<1>3. BudgetTypes' /\ TellInv'
  BY <1>1, <1>2, FaultOrNot DEF SendFails, TypeInd, Types, TellInv
<1>4. \A q \in DOMAIN run' : Known(run'[q].id)
  BY <1>2 DEF Known
<1>. QED  BY <1>2, <1>3, <1>4, RunStep DEF SendFails

LEMMA LastOf ==
  ASSUME NEW S, NEW s \in Seq(S), s # <<>>
  PROVE  Last(s) \in Range(s) /\ Last(s) \in S
<1>1. Len(s) \in 1 .. Len(s) /\ DOMAIN s = 1 .. Len(s)
  OBVIOUS
<1>2. s[Len(s)] \in S
  BY <1>1
<1>. QED  BY <1>1, <1>2 DEF Last, Range

\* A run that is reported, under the id it has or the last one in the queue.
LEMMA ReportOf ==
  ASSUME TypeInd, NEW r \in DOMAIN run, Report(r[1], r[2])
  PROVE  /\ run[r].pc = "running" /\ RunTypes' /\ (Fault \/ NoFault)
         /\ \/ DOMAIN run' = DOMAIN run \ {r}
            \/ /\ DOMAIN run' = DOMAIN run /\ run'[r].pc = "called" /\ run'[r].i = run[r].i
               /\ run'[r].id = run[r].id \/ (wq[r[2]] # <<>> /\ run'[r].id = Last(wq[r[2]]))
         /\ \A q \in DOMAIN run' : q # r => run'[q] = run[q]
<1>1. r \in Tasks \X Nodes /\ r[2] \in Nodes /\ run[r] \in RunRec /\ r = <<r[1], r[2]>>
  BY DEF TypeInd, Types, RunTypes
<1>2. run[r].pc = "running"
  BY <1>1 DEF Report, Is
<1>3. ASSUME NEW id \in {run[r].id} \cup (IF wq[r[2]] = <<>> THEN {} ELSE {Last(wq[r[2]])}),
             run' = [run EXCEPT ![r].pc = "called", ![r].id = id]
      PROVE  /\ RunTypes' /\ DOMAIN run' = DOMAIN run
             /\ run'[r].pc = "called" /\ run'[r].i = run[r].i /\ run'[r].id = id
             /\ \A q \in DOMAIN run' : q # r => run'[q] = run[q]
  <2>1. id \in Ids
    BY <1>1, <1>3, LastOf DEF TypeInd, Types, WorkerTypes, RunRec
  <2>. DEFINE new == [run[r] EXCEPT !.pc = "called", !.id = id]
  <2>2. new \in RunRec /\ new.pc = "called" /\ new.id = id /\ new.i = run[r].i
    BY <1>1, <2>1 DEF RunRec, RunPcs
  <2>3. run' = [run EXCEPT ![r] = new]
    BY <1>3
  <2>. HIDE DEF new
  <2>4. DOMAIN run' = DOMAIN run /\ run'[r] = new /\ \A q \in DOMAIN run : q # r => run'[q] = run[q]
    BY <2>3
  <2>. QED  BY <1>1, <2>2, <2>4 DEF TypeInd, Types, RunTypes
<1>4. ASSUME run' = Over({r})
      PROVE  /\ RunTypes' /\ DOMAIN run' = DOMAIN run \ {r}
             /\ \A q \in DOMAIN run' : q # r => run'[q] = run[q]
  BY <1>4, OverOf DEF TypeInd, Types
<1>5. /\ Fault \/ NoFault
      /\ \/ run' = Over({r})
         \/ \E id \in {run[r].id} \cup (IF wq[r[2]] = <<>> THEN {} ELSE {Last(wq[r[2]])}) :
              run' = [run EXCEPT ![r].pc = "called", ![r].id = id]
  BY <1>1 DEF Report
<1>. QED  BY <1>2, <1>3, <1>4, <1>5

LEMMA ReportTypes ==
  ASSUME TypeInd, NEW r \in DOMAIN run, Report(r[1], r[2])
  PROVE  TypeInd'
<1>1. r[2] \in Nodes /\ wq[r[2]] \in Seq(Ids)
  BY DEF TypeInd, Types, RunTypes, WorkerTypes
<1>2. \A q \in DOMAIN run' : Known(run'[q].id)
  <2>1. \A q \in DOMAIN run : Known(run[q].id)
    BY DEF Known
  <2>2. wq[r[2]] # <<>> => Known(Last(wq[r[2]]))
    BY <1>1, LastOf DEF Known
  <2>3. \A q \in DOMAIN run' : q \in DOMAIN run
    BY ReportOf
  <2>. QED  BY <2>1, <2>2, <2>3, ReportOf
<1>3. BudgetTypes'
  BY ReportOf, FaultOrNot DEF Report, TypeInd, Types, BudgetTypes
<1>4. TellInv'
  BY ReportOf DEF TypeInd, TellInv
<1>. QED  BY <1>2, <1>3, <1>4, ReportOf, RunStep DEF Report

LEMMA UpdateTaskTypes ==
  ASSUME TypeInd, NEW t, NEW n, <<t, n>> \in updates, UpdateTask(t, n)
  PROVE  TypeInd'
<1>1. t \in Tasks /\ n \in Nodes /\ t[1] \in Jobs
  BY Constants DEF TypeInd, Types, LeaderTypes
<1>2. LeaderTypes' /\ QueueTypes' /\ MapTypes' /\ JobTypes'
  BY DEF UpdateTask, lists, TypeInd, Types, LeaderTypes, QueueTypes, MapTypes, JobTypes
<1>3. WorkerTypes'
  <2>1. job[t[1]].out \in PartsType
    BY <1>1 DEF TypeInd, Types, JobTypes, JobRec
  <2>. QED  BY <1>1, <2>1 DEF UpdateTask, TypeInd, Types, WorkerTypes
<1>4. RunTypes' /\ TellInv' /\ PlaceInv'
  BY DEF UpdateTask, lists, TypeInd, Types, RunTypes, TellInv, PlaceInv
<1>5. BudgetTypes'
  BY FaultOrNot DEF UpdateTask, TypeInd, Types
<1>6. NoNewId
  BY DEF NoNewId, Known, Current, UpdateTask, lists
<1>7. OrderInv' /\ IdInv'
  BY <1>6, NoneGivenSame DEF UpdateTask, TypeInd
<1>. QED  BY <1>2, <1>3, <1>4, <1>5, <1>7 DEF TypeInd, Types


\* MarkTaskCompleted keeps the types and gives no id.
LEMMA MarkOf ==
  ASSUME QueueTypes, MapTypes, NEW id \in Ids, MarkCompleted(id)
  PROVE  /\ queue' \in [Nodes -> Seq(Tasks)] /\ completed' \in Seq(Tasks)
         /\ DOMAIN taskMap' = DOMAIN taskMap \cup {id} /\ taskMap'[id] = NoTask
         /\ \A x \in DOMAIN taskMap : x # id => taskMap'[x] = taskMap[x]
         /\ \A t \in Tasks : Current(t)' => Current(t)
<1>1. taskMap' = Put(taskMap, id, NoTask)
  BY DEF MarkCompleted
<1>2. DOMAIN taskMap' = DOMAIN taskMap \cup {id} /\ taskMap'[id] = NoTask
      /\ \A x \in DOMAIN taskMap : x # id => taskMap'[x] = taskMap[x]
  BY <1>1 DEF Put
<1>3. \A t \in Tasks : Current(t)' => Current(t)
  BY <1>2, Constants DEF Current
<1>4. PICK m : m = Marked(id)
  OBVIOUS
<1>5. m = NoTask \/ m \in Tasks
  BY <1>4 DEF Marked, MapTypes
<1>6. CASE m = NoTask
  BY <1>2, <1>3, <1>4, <1>6 DEF MarkCompleted, QueueTypes
<1>7. CASE m # NoTask
  <2>1. m \in Tasks /\ task[m].at \in Places
    BY <1>5, <1>7 DEF MapTypes, TaskRec
  <2>2. completed' = Append(completed, m)
    BY <1>4, <1>7 DEF MarkCompleted
  <2>3. queue' = IF task[m].at = NoNode THEN queue ELSE [queue EXCEPT ![task[m].at] = Removed(@, m)]
    BY <1>4, <1>7 DEF MarkCompleted
  <2>4. completed' \in Seq(Tasks)
    BY <2>1, <2>2 DEF QueueTypes
  <2>5. queue' \in [Nodes -> Seq(Tasks)]
    <3>1. CASE task[m].at = NoNode
      BY <2>3, <3>1 DEF QueueTypes
    <3>2. CASE task[m].at # NoNode
      <4>1. PICK n \in Nodes : n = task[m].at
        BY <2>1, <3>2 DEF Places
      <4>2. Removed(queue[n], m) \in Seq(Tasks)
        BY <2>1, RemovedOf DEF QueueTypes
      <4>3. queue' = [queue EXCEPT ![n] = Removed(queue[n], m)]
        BY <2>3, <3>2, <4>1
      <4>. QED  BY <4>2, <4>3 DEF QueueTypes
    <3>. QED  BY <3>1, <3>2
  <2>. QED  BY <1>2, <1>3, <2>4, <2>5
<1>. QED  BY <1>6, <1>7

LEMMA NotifiedTypes ==
  ASSUME TypeInd, NEW r \in DOMAIN run, Notified(r)
  PROVE  TypeInd'
<1>1. QueueTypes /\ MapTypes /\ run[r].id \in Ids /\ Known(run[r].id)
  BY DEF TypeInd, Types, RunTypes, RunRec, Known
<1>2. RunTypes' /\ DOMAIN run' = DOMAIN run /\ run'[r].pc = "marked"
      /\ \A q \in DOMAIN run : run'[q].id = run[q].id /\ run'[q].i = run[q].i /\ (q # r => run'[q] = run[q])
  BY RunsOf DEF Notified, TypeInd, Types, RunPcs
<1>3. /\ queue' \in [Nodes -> Seq(Tasks)] /\ completed' \in Seq(Tasks)
      /\ DOMAIN taskMap' = DOMAIN taskMap \cup {run[r].id} /\ taskMap'[run[r].id] = NoTask
      /\ \A x \in DOMAIN taskMap : x # run[r].id => taskMap'[x] = taskMap[x]
      /\ \A t \in Tasks : Current(t)' => Current(t)
  <2>1. CASE MarkCompleted(run[r].id)
    BY <1>1, <2>1, MarkOf
  <2>2. CASE taskMap' = Put(taskMap, run[r].id, NoTask) /\ UNCHANGED <<queue, completed>>
    <3>1. /\ DOMAIN taskMap' = DOMAIN taskMap \cup {run[r].id} /\ taskMap'[run[r].id] = NoTask
          /\ \A x \in DOMAIN taskMap : x # run[r].id => taskMap'[x] = taskMap[x]
      BY <2>2 DEF Put
    <3>2. \A t \in Tasks : Current(t)' => Current(t)
      BY <3>1, Constants DEF Current
    <3>. QED  BY <1>1, <2>2, <3>1, <3>2 DEF QueueTypes
  <2>. QED  BY <2>1, <2>2 DEF Notified
<1>4. QueueTypes' /\ MapTypes'
  <2>1. QueueTypes'
    BY <1>1, <1>3 DEF Notified, QueueTypes
  <2>2. MapTypes'
    BY <1>1, <1>3 DEF Notified, MapTypes
  <2>. QED  BY <2>1, <2>2
<1>5. LeaderTypes' /\ JobTypes' /\ WorkerTypes' /\ PlaceInv'
  BY DEF Notified, TypeInd, Types, LeaderTypes, JobTypes, WorkerTypes, PlaceInv
<1>6. BudgetTypes'
  BY FaultOrNot DEF Notified, TypeInd, Types
<1>7. TellInv'
  BY <1>2 DEF TypeInd, TellInv
<1>8. NoNewId
  BY <1>1, <1>2, <1>3 DEF NoNewId, Known, Notified
<1>9. OrderInv' /\ IdInv'
  BY <1>8, NoneGivenSame DEF Notified, TypeInd
<1>. QED  BY <1>2, <1>4, <1>5, <1>6, <1>7, <1>9 DEF TypeInd, Types

\* A report is answered: the id is gone from the queue of its worker, if anything.
LEMMA CheckedTypes ==
  ASSUME TypeInd, NEW r \in DOMAIN run, Checked(r)
  PROVE  TypeInd'
<1>1. r \in Tasks \X Nodes /\ r[2] \in Nodes /\ run[r] \in RunRec
  BY DEF TypeInd, Types, RunTypes
<1>2. CASE AllSendersCompleted
  <2>1. run' = [run EXCEPT ![r].pc = "telling", ![r].i = K + 1] /\ NoFault /\ UNCHANGED wq
    BY <1>2 DEF Checked
  <2>. DEFINE new == [run[r] EXCEPT !.pc = "telling", !.i = K + 1]
  <2>2. K + 1 \in 0 .. 2 * K + 1 /\ K + 1 \in K + 1 .. 2 * K
    BY Sizes
  <2>3. new \in RunRec /\ new.id = run[r].id /\ new.i = K + 1
    BY <1>1, <2>2 DEF RunRec, RunPcs
  <2>4. run' = [run EXCEPT ![r] = new]
    BY <2>1
  <2>. HIDE DEF new
  <2>5. DOMAIN run' = DOMAIN run /\ run'[r] = new /\ \A q \in DOMAIN run : q # r => run'[q] = run[q]
    BY <2>4
  <2>6. RunTypes' /\ TellInv'
    BY <2>2, <2>3, <2>5 DEF TypeInd, Types, RunTypes, TellInv
  <2>7. \A q \in DOMAIN run' : Known(run'[q].id)
    BY <2>3, <2>5 DEF Known
  <2>8. BudgetTypes'
    BY <2>1, FaultOrNot DEF Checked, TypeInd, Types
  <2>. QED  BY <2>1, <2>6, <2>7, <2>8, RunStep DEF Checked
<1>3. CASE ~AllSendersCompleted
  <2>1. run' = Over({r}) /\ (wq' = [wq EXCEPT ![r[2]] = RemoveFirst(@, run[r].id)] \/ wq' = wq)
        /\ (Fault \/ NoFault)
    BY <1>3 DEF Checked
  <2>2. RunTypes' /\ \A q \in DOMAIN run' : q \in DOMAIN run /\ run'[q] = run[q]
    BY <2>1, OverOf DEF TypeInd, Types
  <2>3. wq[r[2]] \in Seq(Ids)
    BY <1>1 DEF TypeInd, Types, WorkerTypes
  <2>4. /\ RemoveFirst(wq[r[2]], run[r].id) \in Seq(Ids)
        /\ Range(RemoveFirst(wq[r[2]], run[r].id)) \subseteq Range(wq[r[2]])
    BY <2>3, RemoveFirstOf
  <2>5. WorkerTypes'
    BY <2>1, <2>4 DEF Checked, TypeInd, Types, WorkerTypes
  <2>6. \A n \in Nodes : \A x \in Range(wq'[n]) : x \in Range(wq[n])
    BY <2>1, <2>4 DEF TypeInd, Types, WorkerTypes
  <2>7. \A n \in Nodes : \A x \in Range(wq'[n]) : Known(x)
    BY <2>6 DEF Known
  <2>8. \A q \in DOMAIN run' : Known(run'[q].id)
    BY <2>2 DEF Known
  <2>9. BudgetTypes' /\ TellInv'
    BY <2>1, <2>2, FaultOrNot DEF Checked, TypeInd, Types, TellInv
  <2>. QED  BY <2>2, <2>5, <2>7, <2>8, <2>9, WorkerStep DEF Checked
<1>. QED  BY <1>2, <1>3


\* Removing an id at one worker: nothing new comes into a queue, and the last id stays
\* unless it is the one.
Lessened(old, new, id, n) ==
  /\ new \in [Nodes -> Seq(Ids)]
  /\ \A m \in Nodes : /\ Range(new[m]) \subseteq Range(old[m])
                      /\ (old[m] # <<>> /\ ~(m = n /\ Last(old[m]) = id)
                           => new[m] # <<>> /\ Last(new[m]) = Last(old[m]))

LEMMA LessenedOf ==
  ASSUME NEW old \in [Nodes -> Seq(Ids)], NEW id, NEW n
  PROVE  /\ Lessened(old, [old EXCEPT ![n] = RemoveFirst(@, id)], id, n)
         /\ Lessened(old, old, id, n)
<1>. DEFINE new == [old EXCEPT ![n] = RemoveFirst(@, id)]
<1>1. \A m \in Nodes :
        /\ RemoveFirst(old[m], id) \in Seq(Ids)
        /\ Range(RemoveFirst(old[m], id)) \subseteq Range(old[m])
        /\ (old[m] # <<>> /\ Last(old[m]) # id =>
             RemoveFirst(old[m], id) # <<>> /\ Last(RemoveFirst(old[m], id)) = Last(old[m]))
  BY RemoveFirstOf
<1>2. \A m \in Nodes : m # n => new[m] = old[m]
  OBVIOUS
<1>3. n \in Nodes => new[n] = RemoveFirst(old[n], id)
  OBVIOUS
<1>4. new \in [Nodes -> Seq(Ids)]
  BY <1>1
<1>. HIDE DEF new
<1>5. Lessened(old, new, id, n)
  BY <1>1, <1>2, <1>3, <1>4 DEF Lessened
<1>6. Lessened(old, old, id, n)
  BY DEF Lessened
<1>. QED  BY <1>5, <1>6 DEF new

\* One receiver is told, and the last time the worker that reported is answered.
LEMMA TellOf ==
  ASSUME TypeInd, NEW r \in DOMAIN run, TellReceiver(r)
  PROVE  /\ run[r].pc = "telling" /\ run[r].i \in DOMAIN assigned /\ run[r].i \in K + 1 .. 2 * K
         /\ assigned[run[r].i] \in Tasks /\ task[assigned[run[r].i]].id \in Ids
         /\ MarkCompleted(task[assigned[run[r].i]].id)
         /\ Fault \/ NoFault
         /\ RunTypes' /\ TellInv' /\ \A q \in DOMAIN run' : q \in DOMAIN run /\ run'[q].id = run[q].id
                                                             /\ run'[q].pc = run[q].pc
         /\ \E told : /\ Lessened(wq, told, task[assigned[run[r].i]].id, task[assigned[run[r].i]].at)
                      /\ Lessened(told, wq', run[r].id, r[2])
<1>. PICK i : i = run[r].i
  OBVIOUS
<1>. PICK t : t = assigned[i]
  OBVIOUS
<1>. PICK id, at : id = task[t].id /\ at = task[t].at
  OBVIOUS
<1>. PICK last \in BOOLEAN : last = (i = 2 * K \/ at \notin conns)
  OBVIOUS
<1>1. run[r] \in RunRec /\ assigned \in Seq(Tasks) /\ task \in [Tasks -> TaskRec] /\ wq \in [Nodes -> Seq(Ids)]
  BY DEF TypeInd, Types, RunTypes, QueueTypes, MapTypes, WorkerTypes
<1>2. run[r].pc = "telling" /\ i \in K + 1 .. 2 * K
  BY DEF TellReceiver, Is, TypeInd, TellInv
<1>3. i \in DOMAIN assigned
  <2>1. i <= Len(assigned) /\ i \in Int /\ i >= 1
    <3>1. i <= Len(assigned)
      BY DEF TellReceiver
    <3>2. i \in K + 1 .. 2 * K
      BY <1>2
    <3>. QED  BY <3>1, <3>2, Sizes
  <2>. QED  BY <1>1, <2>1
<1>4. t \in Tasks /\ id \in Ids
  BY <1>1, <1>3 DEF TaskRec
<1>5. MarkCompleted(id) /\ (Fault \/ NoFault)
  BY DEF TellReceiver
<1>6. run' = IF last THEN Over({r}) ELSE [run EXCEPT ![r].i = i + 1]
  BY DEF TellReceiver
<1>7. RunTypes' /\ TellInv' /\ \A q \in DOMAIN run' : q \in DOMAIN run /\ run'[q].id = run[q].id
                                                       /\ run'[q].pc = run[q].pc
  <2>1. CASE last
    <3>1. RunTypes' /\ \A q \in DOMAIN run' : q \in DOMAIN run /\ run'[q] = run[q]
      BY <1>6, <2>1, OverOf DEF TypeInd, Types
    <3>. QED  BY <3>1 DEF TypeInd, TellInv
  <2>2. CASE ~last
    <3>0. i # 2 * K /\ i \in K + 1 .. 2 * K
      BY <1>2, <2>2
    <3>1. i + 1 \in 0 .. 2 * K + 1 /\ i + 1 \in K + 1 .. 2 * K
      BY <3>0, Sizes
    <3>. DEFINE new == [run[r] EXCEPT !.i = i + 1]
    <3>2. new \in RunRec /\ new.id = run[r].id /\ new.pc = run[r].pc /\ new.i = i + 1
      BY <1>1, <3>1 DEF RunRec
    <3>3. run' = [run EXCEPT ![r] = new]
      BY <1>6, <2>2
    <3>. HIDE DEF new
    <3>4. DOMAIN run' = DOMAIN run /\ run'[r] = new /\ \A q \in DOMAIN run : q # r => run'[q] = run[q]
      BY <3>3
    <3>. QED  BY <3>1, <3>2, <3>4 DEF TypeInd, Types, RunTypes, TellInv
  <2>. QED  BY <2>1, <2>2
<1>8. \E told : Lessened(wq, told, id, at) /\ Lessened(told, wq', run[r].id, r[2])
  <2>1. PICK told : /\ told = wq \/ told = [wq EXCEPT ![at] = RemoveFirst(@, id)]
                    /\ wq' = IF last THEN [told EXCEPT ![r[2]] = RemoveFirst(@, run[r].id)] ELSE told
    BY DEF TellReceiver
  <2>2. Lessened(wq, told, id, at)
    <3>1. Lessened(wq, wq, id, at) /\ Lessened(wq, [wq EXCEPT ![at] = RemoveFirst(@, id)], id, at)
      BY <1>1, LessenedOf
    <3>. QED  BY <2>1, <3>1
  <2>3. told \in [Nodes -> Seq(Ids)]
    BY <2>2 DEF Lessened
  <2>4. Lessened(told, wq', run[r].id, r[2])
    BY <2>1, <2>3, LessenedOf
  <2>. QED  BY <2>2, <2>4
<1>. QED  BY <1>2, <1>3, <1>4, <1>5, <1>7, <1>8

LEMMA TellReceiverTypes ==
  ASSUME TypeInd, NEW r \in DOMAIN run, TellReceiver(r)
  PROVE  TypeInd'
<1>1. PICK id \in Ids : /\ MarkCompleted(id)
                        /\ \E t \in Range(assigned) : id = task[t].id
  BY TellOf DEF Range
<1>2. QueueTypes /\ MapTypes /\ Known(id)
  BY <1>1 DEF TypeInd, Types, Known
<1>3. /\ queue' \in [Nodes -> Seq(Tasks)] /\ completed' \in Seq(Tasks)
      /\ DOMAIN taskMap' = DOMAIN taskMap \cup {id} /\ taskMap'[id] = NoTask
      /\ \A x \in DOMAIN taskMap : x # id => taskMap'[x] = taskMap[x]
      /\ \A t \in Tasks : Current(t)' => Current(t)
  BY <1>1, <1>2, MarkOf
<1>4. QueueTypes'
  BY <1>2, <1>3 DEF TellReceiver, QueueTypes
<1>5. MapTypes'
  BY <1>2, <1>3 DEF TellReceiver, MapTypes
<1>6. LeaderTypes' /\ JobTypes' /\ PlaceInv'
  BY DEF TellReceiver, TypeInd, Types, LeaderTypes, JobTypes, PlaceInv
<1>7. PICK told : \E a, b, c, d : Lessened(wq, told, a, b) /\ Lessened(told, wq', c, d)
  BY TellOf
<1>8. wq' \in [Nodes -> Seq(Ids)] /\ \A n \in Nodes : Range(wq'[n]) \subseteq Range(wq[n])
  BY <1>7 DEF Lessened
<1>9. WorkerTypes'
  BY <1>8 DEF TellReceiver, TypeInd, Types, WorkerTypes
<1>10. RunTypes' /\ TellInv' /\ \A q \in DOMAIN run' : q \in DOMAIN run /\ run'[q].id = run[q].id
  BY TellOf
<1>11. BudgetTypes'
  <2>1. UNCHANGED <<crashes, joins>>
    BY DEF TellReceiver
  <2>. QED  BY <2>1, TellOf, FaultOrNot DEF TypeInd, Types
<1>12. NoNewId
  <2>1. UNCHANGED <<assigned, task>>
    BY DEF TellReceiver
  <2>. QED  BY <1>2, <1>3, <1>8, <1>10, <2>1 DEF NoNewId, Known
<1>13. OrderInv' /\ IdInv'
  BY <1>12, NoneGivenSame DEF TellReceiver, TypeInd
<1>. QED  BY <1>4, <1>5, <1>6, <1>9, <1>10, <1>11, <1>13 DEF TypeInd, Types

LEMMA PanicsTypes ==
  ASSUME TypeInd, Panics
  PROVE  TypeInd'
<1>1. [NewJob EXCEPT !.pc = "gone"] \in JobRec /\ [NewJob EXCEPT !.pc = "gone"].pc = "gone"
  <2>1. NoParts \in PartsType /\ 1 \in 1 .. 2 * K + 1 /\ "gone" \in JobPcs
    BY Sizes DEF NoParts, PartsType, Places, JobPcs
  <2>. QED  BY <2>1 DEF NewJob, JobRec
<1>2. JobTypes' /\ \A j \in Jobs : job'[j].pc = "gone"
  BY <1>1 DEF Panics, JobTypes
<1>3. DOMAIN run' = {}
  BY DEF Panics, EmptyMap
<1>4. LeaderTypes'
  BY DEF Panics, TypeInd, Types, LeaderTypes, FailRec, FailPcs
<1>5. QueueTypes' /\ MapTypes' /\ WorkerTypes'
  BY DEF Panics, lists, TypeInd, Types, QueueTypes, MapTypes, WorkerTypes
<1>6. BudgetTypes'
  BY DEF Panics, budget, TypeInd, Types, BudgetTypes, Troubles
<1>7. RunTypes' /\ TellInv' /\ PlaceInv'
  BY <1>2, <1>3 DEF RunTypes, TellInv, PlaceInv
<1>8. NoNewId
  BY <1>3 DEF NoNewId, Known, Current, Panics, lists
<1>9. JobsOn
  BY <1>2 DEF JobsOn, Early
<1>. QED  BY <1>2, <1>4, <1>5, <1>6, <1>7, <1>8, <1>9, NoneGiven DEF TypeInd, Types

LEMMA CrashTypes ==
  ASSUME TypeInd, NEW n \in Nodes, Crash(n)
  PROVE  TypeInd'
<1>1. PICK R : run' = Over(R)
  BY DEF Crash
<1>2. RunTypes' /\ \A q \in DOMAIN run' : q \in DOMAIN run /\ run'[q] = run[q]
  BY <1>1, OverOf DEF TypeInd, Types
<1>3. wq' = [wq EXCEPT ![n] = <<>>] /\ <<>> \in Seq(Ids) /\ NoParts \in PartsType
  BY DEF Crash, NoParts, PartsType, Places
<1>4. WorkerTypes'
  BY <1>3 DEF Crash, TypeInd, Types, WorkerTypes
<1>5. \A m \in Nodes : \A x \in Range(wq'[m]) : Known(x)
  <2>1. Range(<<>>) = {}
    BY DEF Range
  <2>2. \A m \in Nodes : wq'[m] = wq[m] \/ Range(wq'[m]) = {}
    BY <1>3, <2>1 DEF TypeInd, Types, WorkerTypes
  <2>. QED  BY <2>2 DEF Known
<1>6. \A q \in DOMAIN run' : Known(run'[q].id)
  BY <1>2 DEF Known
<1>7. BudgetTypes'
  <2>1. crashes' \in 0 .. MaxCrashes /\ mishaps' \in 0 .. MaxMishaps
    BY Constants DEF Crash, Mishap, TypeInd, Types, BudgetTypes
  <2>. QED  BY <2>1 DEF Crash, TypeInd, Types, BudgetTypes
<1>8. TellInv'
  BY <1>2 DEF TypeInd, TellInv
<1>. QED  BY <1>2, <1>4, <1>5, <1>6, <1>7, <1>8, WorkerStep DEF Crash

LEMMA FailSignalTypes ==
  ASSUME TypeInd, NEW n \in Nodes, FailSignal(n)
  PROVE  TypeInd'
<1>1. LeaderTypes'
  BY DEF FailSignal, TypeInd, Types, LeaderTypes, FailRec, FailPcs
<1>2. QueueTypes'
  BY DEF FailSignal, TypeInd, Types, QueueTypes
<1>3. MapTypes' /\ JobTypes' /\ WorkerTypes' /\ RunTypes' /\ TellInv' /\ PlaceInv'
  BY DEF FailSignal, workerVars, TypeInd, Types, MapTypes, JobTypes, WorkerTypes, RunTypes, TellInv, PlaceInv
<1>4. BudgetTypes'
  <2>1. UNCHANGED <<crashes, joins>> /\ (Wrong("doubted") \/ NoFault)
    BY DEF FailSignal
  <2>. QED  BY <2>1, FaultTypes DEF TypeInd, Types, Troubles
<1>5. NoNewId
  BY DEF NoNewId, Known, Current, FailSignal, workerVars
<1>6. OrderInv' /\ IdInv'
  BY <1>5, NoneGivenSame DEF FailSignal, TypeInd
<1>. QED  BY <1>1, <1>2, <1>3, <1>4, <1>6 DEF TypeInd, Types

LEMMA HandleNothingTypes ==
  ASSUME TypeInd, HandleNothing
  PROVE  TypeInd'
<1>1. LeaderTypes'
  BY DEF HandleNothing, TypeInd, Types, LeaderTypes, FailRec, FailPcs
<1>2. QueueTypes' /\ MapTypes' /\ JobTypes' /\ PlaceInv'
  BY DEF HandleNothing, lists, TypeInd, Types, QueueTypes, MapTypes, JobTypes, PlaceInv
<1>3. WorkerTypes' /\ RunTypes' /\ TellInv' /\ BudgetTypes'
  BY DEF HandleNothing, workerVars, budget, TypeInd, Types, WorkerTypes, RunTypes, TellInv, BudgetTypes
<1>4. NoNewId
  BY DEF NoNewId, Known, Current, HandleNothing, workerVars, lists
<1>5. OrderInv' /\ IdInv'
  BY <1>4, NoneGivenSame DEF HandleNothing, TypeInd
<1>. QED  BY <1>1, <1>2, <1>3, <1>5 DEF TypeInd, Types


\* A task of a failed worker goes to w, or to no one.
Moved(t, w) ==
  /\ isAlive[w] /\ queue' = [queue EXCEPT ![w] = Append(@, t)] /\ task'[t].at = w
  /\ Sends({<<t, w>>}) /\ trouble' = trouble \cup Spoilt(t, w) /\ UNCHANGED waiting
Stranded(t) ==
  /\ task'[t].at = NoNode /\ waiting' = Append(waiting, t)
  /\ trouble' = trouble \cup {"crowded"} /\ UNCHANGED <<queue, run>>

LEMMA HandleOf ==
  ASSUME TypeInd, NEW t \in Tasks, Handle(t), job[t[1]].i = 2 * K + 1
  PROVE  /\ Slept /\ task[t].at = fail.n /\ Current(t) /\ fail' = [fail EXCEPT !.pc = "wait"]
         /\ task' \in [Tasks -> TaskRec] /\ task'[t].id = task[t].id
         /\ \A u \in Tasks : u # t => task'[u] = task[u]
         /\ JobTypes'
         /\ \A j \in Jobs : job'[j].pc = job[j].pc /\ job'[j].i = job[j].i /\ job'[j].ok = job[j].ok
         /\ updates' \subseteq Tasks \X Nodes
         /\ (\E w \in Nodes : Moved(t, w)) \/ Stranded(t)
         /\ UNCHANGED <<isAlive, taskMap, assigned, completed, jobTasks, conns,
                        up, wq, wparts, toLeader, budget>>
<1>1. Slept /\ task[t].at = fail.n /\ Current(t) /\ fail' = [fail EXCEPT !.pc = "wait"]
  BY DEF Handle, MoveTask, Current
<1>2. task \in [Tasks -> TaskRec] /\ task[t] \in TaskRec /\ JobTypes
  BY DEF TypeInd, Types, MapTypes
<1>3. ASSUME NEW at \in Places, task' = [task EXCEPT ![t].at = at]
      PROVE  /\ task' \in [Tasks -> TaskRec] /\ task'[t].id = task[t].id /\ task'[t].at = at
             /\ \A u \in Tasks : u # t => task'[u] = task[u]
  <2>. DEFINE new == [task[t] EXCEPT !.at = at]
  <2>1. new \in TaskRec /\ new.id = task[t].id /\ new.at = at
    BY <1>2 DEF TaskRec
  <2>2. task' = [task EXCEPT ![t] = new]
    BY <1>3
  <2>. HIDE DEF new
  <2>. QED  BY <1>2, <2>1, <2>2
<1>4. CASE \E w \in Candidates({}) : Reschedule(t, w)
  <2>1. PICK w \in Candidates({}) : Reschedule(t, w)
    BY <1>4
  <2>2. w \in Nodes /\ isAlive[w]
    BY CandidatesOf
  <2>3. Moved(t, w) /\ task' = [task EXCEPT ![t].at = w]
    BY <1>2, <1>3, <2>1, <2>2, Constants DEF Reschedule, Moved
  <2>. DEFINE q == [queue EXCEPT ![w] = Append(@, t)]
              told == IF t[2] \in Stage2 /\ fail.n \in job[t[1]].receivers
                        THEN UNION {Range(q[s]) : s \in job[t[1]].senders} ELSE {}
  <2>4. /\ \E parts \in NewParts(t[1], fail.n, w, told) : job' = [job EXCEPT ![t[1]].out = parts]
        /\ updates' = updates \cup {u \in told \X conns : task[u[1]].id \in Range(wq[u[2]])}
    BY <2>1 DEF Reschedule
  <2>5. t[1] \in Jobs /\ job[t[1]] \in JobRec /\ job[t[1]].senders \subseteq Nodes /\ job[t[1]].out \in PartsType
    BY <1>2, Constants DEF JobTypes, JobRec
  <2>6. told \subseteq Tasks
    <3>1. queue \in [Nodes -> Seq(Tasks)] /\ Append(queue[w], t) \in Seq(Tasks)
      BY <2>2 DEF TypeInd, Types, QueueTypes
    <3>2. q \in [Nodes -> Seq(Tasks)]
      BY <3>1
    <3>3. \A s \in job[t[1]].senders : Range(q[s]) \subseteq Tasks
      BY <2>5, <3>2, RangeOf
    <3>. HIDE DEF q
    <3>. QED  BY <3>3
  <2>. HIDE DEF told, q
  <2>7. updates' \subseteq Tasks \X Nodes
    BY <2>4, <2>6 DEF TypeInd, Types, LeaderTypes
  <2>8. PICK parts \in PartsType : job' = [job EXCEPT ![t[1]].out = parts]
    <3>1. \A p \in NewParts(t[1], fail.n, w, told) : p \in PartsType
      BY <2>2, <2>5, Constants DEF NewParts, PartsType
    <3>. QED  BY <2>4, <3>1
  <2>. DEFINE new == [job[t[1]] EXCEPT !.out = parts]
  <2>9. new \in JobRec /\ new.pc = job[t[1]].pc /\ new.i = job[t[1]].i /\ new.ok = job[t[1]].ok
    BY <2>5 DEF JobRec
  <2>10. job' = [job EXCEPT ![t[1]] = new]
    BY <2>8
  <2>. HIDE DEF new
  <2>11. /\ JobTypes'
         /\ \A j \in Jobs : job'[j].pc = job[j].pc /\ job'[j].i = job[j].i /\ job'[j].ok = job[j].ok
    BY <1>2, <2>5, <2>9, <2>10 DEF JobTypes
  <2>. QED  BY <1>1, <1>3, <2>2, <2>3, <2>7, <2>11, Constants DEF Handle, MoveTask
<1>5. CASE ~ \E w \in Candidates({}) : Reschedule(t, w)
  <2>1. /\ waiting' = Append(waiting, t) /\ task' = [task EXCEPT ![t].at = NoNode]
        /\ trouble' = trouble \cup {"crowded"} /\ UNCHANGED <<queue, job, updates, run>>
    BY <1>5 DEF Handle, MoveTask
  <2>2. NoNode \in Places
    BY DEF Places
  <2>3. Stranded(t)
    BY <1>3, <2>1, <2>2 DEF Stranded
  <2>. QED  BY <1>1, <1>2, <1>3, <2>1, <2>2, <2>3 DEF Handle, MoveTask, JobTypes, TypeInd, Types, LeaderTypes
<1>. QED  BY <1>4, <1>5

LEMMA HandleTypes ==
  ASSUME TypeInd, NEW t \in Tasks, Handle(t), job[t[1]].i = 2 * K + 1
  PROVE  TypeInd'
<1>1. /\ Current(t) /\ fail' = [fail EXCEPT !.pc = "wait"]
      /\ task' \in [Tasks -> TaskRec] /\ task'[t].id = task[t].id
      /\ \A u \in Tasks : u # t => task'[u] = task[u]
      /\ JobTypes'
      /\ updates' \subseteq Tasks \X Nodes
      /\ UNCHANGED <<isAlive, taskMap, assigned, completed, jobTasks, conns,
                     up, wq, wparts, toLeader, budget>>
  BY HandleOf
<1>2. \A u \in Tasks : task'[u].id = task[u].id
  BY <1>1
<1>3. MapTypes' /\ LeaderTypes' /\ WorkerTypes'
  BY <1>1 DEF TypeInd, Types, MapTypes, LeaderTypes, WorkerTypes, FailRec, FailPcs
<1>4. QueueTypes /\ RunTypes /\ MapTypes
  BY DEF TypeInd, Types
<1>5. /\ QueueTypes' /\ RunTypes' /\ TellInv'
      /\ \A r \in DOMAIN run' : run'[r].id = task[t].id \/ (r \in DOMAIN run /\ run'[r] = run[r])
  <2>1. CASE \E w \in Nodes : Moved(t, w)
    <3>1. PICK w \in Nodes : Moved(t, w)
      BY <2>1
    <3>2. /\ RunTypes' /\ DOMAIN run' = {<<t, w>>} \cup DOMAIN run
          /\ \A r \in {<<t, w>>} : run'[r].pc = "sending" /\ run'[r].id = task[r[1]].id
          /\ \A r \in DOMAIN run \ {<<t, w>>} : run'[r] = run[r]
      <4>1. {<<t, w>>} \in SUBSET (Tasks \X Nodes) /\ Sends({<<t, w>>})
        BY <3>1 DEF Moved
      <4>. QED  BY <1>4, <4>1, SendsOf
    <3>3. run'[<<t, w>>].pc = "sending" /\ run'[<<t, w>>].id = task[t].id
      BY <3>2
    <3>4. QueueTypes'
      <4>1. Append(queue[w], t) \in Seq(Tasks)
        BY <1>4 DEF QueueTypes
      <4>. QED  BY <1>1, <1>4, <3>1, <4>1 DEF Moved, QueueTypes
    <3>5. TellInv'
      BY <3>2, <3>3 DEF TypeInd, TellInv
    <3>. QED  BY <3>2, <3>3, <3>4, <3>5
  <2>2. CASE Stranded(t)
    <3>1. Append(waiting, t) \in Seq(Tasks)
      BY <1>4 DEF QueueTypes
    <3>2. QueueTypes'
      BY <1>1, <1>4, <2>2, <3>1 DEF Stranded, QueueTypes
    <3>. QED  BY <1>4, <2>2, <3>2 DEF Stranded, RunTypes, TypeInd, TellInv
  <2>. QED  BY <2>1, <2>2, HandleOf
<1>6. BudgetTypes'
  <2>1. \A w \in Nodes : Spoilt(t, w) \subseteq Troubles
    BY SpoiltOf
  <2>2. trouble' \subseteq Troubles
    BY <2>1, HandleOf DEF Moved, Stranded, Troubles, TypeInd, Types, BudgetTypes
  <2>. QED  BY <1>1, <2>2 DEF budget, TypeInd, Types, BudgetTypes
<1>7. PlaceInv'
  <2>1. \A j \in Jobs : job'[j].pc # "assign"
    BY HandleOf DEF Slept
  <2>. QED  BY <2>1 DEF PlaceInv
<1>8. NoNewId
  <2>1. Known(task[t].id)
    BY <1>1 DEF Known
  <2>2. Range(assigned) \subseteq Tasks
    BY <1>4, RangeOf DEF QueueTypes
  <2>3. \A u \in Tasks : Current(u)' = Current(u)
    BY <1>1 DEF Current
  <2>4. \A r \in DOMAIN run' : Known(run'[r].id)
    BY <1>5, <2>1 DEF Known
  <2>. QED  BY <1>1, <1>2, <2>2, <2>3, <2>4 DEF NoNewId, Known
<1>9. JobsOn
  BY HandleOf DEF JobsOn, Early
<1>. QED  BY <1>1, <1>3, <1>5, <1>6, <1>7, <1>8, <1>9, NoneGiven DEF TypeInd, Types

LEMMA JoinTypes ==
  ASSUME TypeInd, NEW n \in Nodes, Join(n)
  PROVE  TypeInd'
<1>1. QueueTypes' /\ MapTypes' /\ JobTypes' /\ PlaceInv'
  BY DEF Join, lists, TypeInd, Types, QueueTypes, MapTypes, JobTypes, PlaceInv
<1>2. LeaderTypes' /\ WorkerTypes'
  BY DEF Join, TypeInd, Types, LeaderTypes, WorkerTypes
<1>3. RunTypes' /\ TellInv'
  BY DEF Join, TypeInd, Types, RunTypes, TellInv
<1>4. BudgetTypes'
  <2>1. joins' \in 0 .. MaxJoins /\ mishaps' \in 0 .. MaxMishaps
    BY Constants DEF Join, Mishap, TypeInd, Types, BudgetTypes
  <2>2. trouble' \subseteq Troubles
    BY DEF Join, TypeInd, Types, BudgetTypes, Troubles
  <2>. QED  BY <2>1, <2>2 DEF Join, TypeInd, Types, BudgetTypes
<1>5. NoNewId
  BY DEF NoNewId, Known, Current, Join, lists
<1>6. OrderInv' /\ IdInv'
  BY <1>5, NoneGivenSame DEF Join, TypeInd
<1>. QED  BY <1>1, <1>2, <1>3, <1>4, <1>6 DEF TypeInd, Types

LEMMA ConnectTypes ==
  ASSUME TypeInd, Connect
  PROVE  TypeInd'
<1>1. QueueTypes' /\ MapTypes' /\ JobTypes' /\ PlaceInv'
  BY DEF Connect, lists, TypeInd, Types, QueueTypes, MapTypes, JobTypes, PlaceInv
<1>2. LeaderTypes' /\ WorkerTypes'
  BY DEF Connect, TypeInd, Types, LeaderTypes, WorkerTypes
<1>3. RunTypes' /\ TellInv' /\ BudgetTypes'
  BY DEF Connect, budget, TypeInd, Types, RunTypes, TellInv, BudgetTypes
<1>4. NoNewId
  BY DEF NoNewId, Known, Current, Connect, lists
<1>5. OrderInv' /\ IdInv'
  BY <1>4, NoneGivenSame DEF Connect, TypeInd
<1>. QED  BY <1>1, <1>2, <1>3, <1>5 DEF TypeInd, Types

LEMMA TypeStep == TypeInd /\ [Next]_vars => TypeInd'
<1>. SUFFICES ASSUME TypeInd, [Next]_vars PROVE TypeInd'
  OBVIOUS
<1>1. ASSUME NEW j \in Jobs, Creator(j) PROVE TypeInd'
  BY <1>1, CreateJobTypes, AssignTypes, SendAllTypes, MonitorTickTypes DEF Creator
<1>2. ASSUME NEW r \in DOMAIN run, Deliver(r[1], r[2]) \/ SendFails(r[1], r[2]) \/ Report(r[1], r[2])
      PROVE  TypeInd'
  <2>1. <<r[1], r[2]>> \in DOMAIN run
    BY DEF TypeInd, Types, RunTypes
  <2>. QED  BY <1>2, <2>1, DeliverTypes, SendFailsTypes, ReportTypes
<1>3. ASSUME NEW r \in DOMAIN run, Notified(r) \/ Checked(r) \/ TellReceiver(r) \/ TellPanics(r)
      PROVE  TypeInd'
  BY <1>3, NotifiedTypes, CheckedTypes, TellReceiverTypes, PanicsTypes DEF TellPanics
<1>4. ASSUME NEW u \in updates, UpdateTask(u[1], u[2]) PROVE TypeInd'
  <2>1. <<u[1], u[2]>> \in updates
    BY DEF TypeInd, Types, LeaderTypes
  <2>. QED  BY <1>4, <2>1, UpdateTaskTypes
<1>5. ASSUME NEW n \in Nodes, FailSignal(n) \/ Crash(n) \/ Join(n) PROVE TypeInd'
  BY <1>5, FailSignalTypes, CrashTypes, JoinTypes
<1>6. ASSUME NEW t \in Tasks, Handle(t) PROVE TypeInd'
  BY <1>6, HandleTypes, PanicsTypes DEF Handle
<1>7. CASE HandleNothing \/ Connect \/ \E j \in Jobs : Submit(j)
  BY <1>7, HandleNothingTypes, ConnectTypes, SubmitTypes
<1>8. CASE UNCHANGED vars
  <2>1. UNCHANGED <<leaderVars, up, wq, wparts, toLeader, run, budget, trouble>>
    BY <1>8 DEF vars, workerVars
  <2>2. RunTypes' /\ TellInv'
    BY <2>1 DEF TypeInd, Types, RunTypes, TellInv
  <2>3. BudgetTypes'
    BY <2>1 DEF budget, TypeInd, Types, BudgetTypes
  <2>4. \A q \in DOMAIN run' : Known(run'[q].id)
    BY <2>1 DEF Known
  <2>. QED  BY <2>1, <2>2, <2>3, <2>4, RunStep
<1>. QED  BY <1>1, <1>2, <1>3, <1>4, <1>5, <1>6, <1>7, <1>8 DEF Next, Progress, Operator, Environment

LEMMA Typing == Spec => []TypeInd
BY InitTypes, TypeStep, PTL DEF Spec

\* The variables of the leader and of the workers keep their types, for any number of
\* jobs (leader.go:32-44, models.go:62-67, worker.go:29-42): above all the ids given
\* stay within two for each task, although the map they are counted by is emptied when
\* a job is created and is added to by reports of unknown ids (utils-leader.go:249-316).
THEOREM TypeCorrect == Spec => []TypeOK
<1>1. TypeInd => TypeOK
  BY TypesAre DEF TypeInd
<1>. QED  BY <1>1, Typing, PTL
=============================================================================
