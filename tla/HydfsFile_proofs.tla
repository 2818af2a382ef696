-------------------------- MODULE HydfsFile_proofs --------------------------
(***************************************************************************)
(* Proofs about one file of HyDFS: the ring and the ranges that restore a  *)
(* file when one peer is gone; the types; and, while no node has failed,   *)
(* what is kept of the file, in which order, what reads return and merges  *)
(* repair, and that the primary implements AppendOnlyFile.                 *)
(***************************************************************************)
EXTENDS HydfsFile, TLAPS, SequenceTheorems, FiniteSetTheorems, WellFoundedInduction

-----------------------------------------------------------------------------
(***************************************************************************)
(* The ring.                                                               *)
(***************************************************************************)
\* A set of naturals has a least element: what induction is made of here.
LEMMA Least ==
  ASSUME NEW T, T \subseteq Nat, T # {}
  PROVE  \E x \in T : \A y \in T : x <= y
<1>. DEFINE R == {ss \in Nat \X Nat : ss[1] < ss[2]}
<1>1. IsWellFoundedOn(R, Nat)
  BY NatLessThanWellFounded DEF OpToRel
<1>2. \A x, y \in Nat : <<y, x>> \in R <=> y < x
  OBVIOUS
<1>. HIDE DEF R
<1>3. PICK x \in T : \A y \in T : <<y, x>> \notin R
  BY <1>1, WFMin
<1>4. ASSUME NEW y \in T PROVE x <= y
  <2>1. x \in Nat /\ y \in Nat
    OBVIOUS
  <2>2. ~ (y < x)
    BY <1>2, <1>3, <2>1
  <2>. QED  BY <2>1, <2>2
<1>. QED  BY <1>4

LEMMA MinOf ==
  ASSUME NEW T, T \subseteq Nat, T # {}
  PROVE  Min(T) \in T /\ \A y \in T : Min(T) <= y
BY Least DEF Min

\* The next peer around the ring is one of the members, and none is nearer.
LEMMA SuccOf ==
  ASSUME NEW members, members \subseteq Nat, members # {}, NEW h \in Nat
  PROVE  /\ Succ(h, members) \in members
         /\ \A p \in members : p > h => h < Succ(h, members) /\ Succ(h, members) <= p
         /\ (\A p \in members : p <= h) => \A p \in members : Succ(h, members) <= p
<1>. DEFINE above == {p \in members : p > h}
<1>1. CASE above = {}
  <2>1. Succ(h, members) = Min(members)
    BY <1>1 DEF Succ
  <2>. QED  BY <1>1, <2>1, MinOf
<1>2. CASE above # {}
  <2>1. Succ(h, members) = Min(above)
    BY <1>2 DEF Succ
  <2>2. Min(above) \in above /\ \A y \in above : Min(above) <= y
    BY <1>2, MinOf
  <2>3. \A p \in members : p > h <=> p \in above
    OBVIOUS
  <2>. HIDE DEF above
  <2>4. above \subseteq members /\ \A p \in above : p > h
    BY DEF above
  <2>5. \A p \in members : p \in Nat
    OBVIOUS
  <2>6. Min(above) \in members /\ Min(above) > h
    BY <2>2, <2>4
  <2>7. ~ \A p \in members : p <= h
    <3>1. SUFFICES ASSUME \A p \in members : p <= h PROVE FALSE
      OBVIOUS
    <3>2. Min(above) <= h /\ Min(above) \in Nat
      BY <2>5, <2>6, <3>1
    <3>. QED  BY <2>6, <3>2
  <2>. QED  BY <2>1, <2>2, <2>3, <2>5, <2>6, <2>7
<1>. QED  BY <1>1, <1>2

\* The nodes a file is routed to.
LEMMA RoutingType ==
  ASSUME NEW members, members \subseteq Nat, members # {}, NEW h \in Nat
  PROVE  /\ FileRouting(h, members) \in Seq(members) /\ Len(FileRouting(h, members)) = 3
         /\ FileRouting(h, members)[1] \in members
         /\ Tail(FileRouting(h, members)) \in Seq(members) /\ Len(Tail(FileRouting(h, members))) = 2
         /\ \A k \in 1 .. 2 : /\ Tail(FileRouting(h, members))[k] = FileRouting(h, members)[k + 1]
                              /\ Tail(FileRouting(h, members))[k] \in members
<1>. DEFINE a == Succ(h, members)
            b == Succ(a, members)
            c == Succ(b, members)
<1>1. a \in members /\ b \in members /\ c \in members
  BY SuccOf
<1>2. FileRouting(h, members) = <<a, b, c>>
  BY DEF FileRouting
<1>. HIDE DEF a, b, c
<1>. QED  BY <1>1, <1>2

\* In a ring of three or more the replicas are not at the primary and not at one node.
LEMMA RoutingDistinct ==
  ASSUME NEW members, members \subseteq Nat, IsFiniteSet(members), Cardinality(members) >= 3,
         NEW h \in Nat
  PROVE  /\ \A k \in 1 .. 2 : Tail(FileRouting(h, members))[k] # FileRouting(h, members)[1]
         /\ Tail(FileRouting(h, members))[1] # Tail(FileRouting(h, members))[2]
<1>. DEFINE a == Succ(h, members)
            b == Succ(a, members)
            c == Succ(b, members)
<1>0. members # {}
  BY FS_EmptySet
<1>1. a \in members /\ b \in members /\ c \in members
  BY <1>0, SuccOf
<1>2. PICK d \in members : d # a /\ d # b
  <2>1. SUFFICES ASSUME members \subseteq {a, b} PROVE FALSE
    OBVIOUS
  <2>2. IsFiniteSet({a, b}) /\ Cardinality({a, b}) <= 2
    <3>1. IsFiniteSet({a}) /\ Cardinality({a}) = 1
      BY FS_Singleton
    <3>2. {a, b} = {a} \cup {b}
      OBVIOUS
    <3>3. /\ IsFiniteSet({a} \cup {b})
          /\ Cardinality({a} \cup {b}) = IF b \in {a} THEN Cardinality({a}) ELSE Cardinality({a}) + 1
      BY <3>1, FS_AddElement
    <3>. QED  BY <3>1, <3>2, <3>3
  <2>3. Cardinality(members) <= Cardinality({a, b})
    BY <2>1, <2>2, FS_Subset
  <2>4. Cardinality(members) \in Nat /\ Cardinality({a, b}) \in Nat
    BY <2>2, FS_CardinalityType
  <2>. QED  BY <2>2, <2>3, <2>4
<1>3. /\ \A p \in members : p > a => a < b /\ b <= p
      /\ (\A p \in members : p <= a) => \A p \in members : b <= p
  BY <1>0, <1>1, SuccOf
<1>4. /\ \A p \in members : p > b => b < c /\ c <= p
      /\ (\A p \in members : p <= b) => \A p \in members : c <= p
  BY <1>0, <1>1, SuccOf
<1>5. FileRouting(h, members) = <<a, b, c>>
  BY DEF FileRouting
<1>. HIDE DEF a, b, c
<1>6. a \in Nat /\ b \in Nat /\ c \in Nat /\ d \in Nat
  BY <1>1
<1>7. b # a
  BY <1>1, <1>2, <1>3, <1>6
<1>8. c # a
  BY <1>1, <1>2, <1>3, <1>4, <1>6
<1>9. c # b
  BY <1>1, <1>2, <1>4, <1>6
<1>. QED  BY <1>5, <1>7, <1>8, <1>9

-----------------------------------------------------------------------------
(***************************************************************************)
(* Merging a log into a file.  FoldLeft is a recursive function on the     *)
(* subsets of the positions of the log, chosen among those that satisfy    *)
(* its equation: there is one, by induction on the length of the log.      *)
(***************************************************************************)
Merges(g, f, u, m) ==
  g = [s \in SUBSET (1 .. m) |-> IF s = {} THEN f ELSE Apply(g[s \ {Max(s)}], u[Max(s)])]

LEMMA MaxOf ==
  ASSUME NEW m \in Nat, NEW s, s \subseteq 1 .. m, m \in s
  PROVE  Max(s) = m
<1>1. m \in s /\ \A y \in s : m >= y
  OBVIOUS
<1>2. Max(s) \in s /\ \A y \in s : Max(s) >= y
  BY <1>1 DEF Max
<1>3. Max(s) >= m /\ m >= Max(s)
  BY <1>1, <1>2
<1>4. Max(s) \in 1 .. m
  BY <1>2
<1>. QED  BY <1>3, <1>4

LEMMA MergesExists ==
  ASSUME NEW f, NEW u, NEW n \in Nat
  PROVE  \E g : Merges(g, f, u, n)
<1>. DEFINE T == {m \in Nat : ~ \E g : Merges(g, f, u, m)}
<1>1. SUFFICES ASSUME T # {} PROVE FALSE
  OBVIOUS
<1>2. PICK m \in T : \A k \in T : m <= k
  BY <1>1, Least
<1>3. CASE m = 0
  <2>. DEFINE g == [s \in SUBSET (1 .. 0) |-> f]
  <2>1. \A s \in SUBSET (1 .. 0) : s = {}
    OBVIOUS
  <2>2. g = [s \in SUBSET (1 .. 0) |-> IF s = {} THEN f ELSE Apply(g[s \ {Max(s)}], u[Max(s)])]
    BY <2>1
  <2>3. Merges(g, f, u, 0)
    BY <2>2 DEF Merges
  <2>. QED  BY <1>2, <1>3, <2>3
<1>4. CASE m # 0
  <2>1. m \in Nat /\ m - 1 \in Nat /\ m - 1 \notin T
    BY <1>2, <1>4
  <2>2. PICK g : Merges(g, f, u, m - 1)
    BY <2>1
  <2>. DEFINE S == SUBSET (1 .. m)
              R == SUBSET (1 .. m - 1)
              h == [s \in S |-> IF m \in s THEN Apply(g[s \ {m}], u[m]) ELSE g[s]]
  <2>3. \A s \in S : m \notin s => s \in R
    BY <2>1
  <2>4. \A s \in R : s \in S /\ m \notin s
    BY <2>1
  <2>5. \A s \in R : g[s] = IF s = {} THEN f ELSE Apply(g[s \ {Max(s)}], u[Max(s)])
    BY <2>2 DEF Merges
  <2>6. ASSUME NEW s \in S
        PROVE  h[s] = IF s = {} THEN f ELSE Apply(h[s \ {Max(s)}], u[Max(s)])
    <3>1. CASE m \in s
      <4>1. Max(s) = m
        BY <2>1, <3>1, MaxOf
      <4>2. s \ {m} \in S /\ m \notin s \ {m}
        OBVIOUS
      <4>3. h[s \ {m}] = g[s \ {m}]
        BY <4>2
      <4>. QED  BY <3>1, <4>1, <4>3
    <3>2. CASE m \notin s
      <4>. DEFINE r == s \ {Max(s)}
      <4>1. r \in S /\ m \notin r
        BY <3>2
      <4>. HIDE DEF r
      <4>2. h[s] = g[s] /\ h[r] = g[r]
        BY <3>2, <4>1
      <4>. QED  BY <2>3, <2>5, <3>2, <4>2 DEF r
    <3>. QED  BY <3>1, <3>2
  <2>7. h = [s \in S |-> h[s]]
    OBVIOUS
  <2>. HIDE DEF h
  <2>8. h = [s \in S |-> IF s = {} THEN f ELSE Apply(h[s \ {Max(s)}], u[Max(s)])]
    BY <2>6, <2>7, Zenon
  <2>9. Merges(h, f, u, m)
    BY <2>8 DEF Merges
  <2>. QED  BY <1>2, <2>9
<1>. QED  BY <1>3, <1>4

\* What FoldLeft returns: the last of a series that begins with the file and takes
\* one entry after the other.
LEMMA FoldIs ==
  ASSUME NEW f, NEW X, NEW u \in Seq(X), NEW h, h[0] = f,
         \A k \in 1 .. Len(u) : h[k] = Apply(h[k - 1], u[k])
  PROVE  FoldLeft(Apply, f, u) = h[Len(u)]
<1>. DEFINE n == Len(u)
            g == CHOOSE x : Merges(x, f, u, n)
            T == {k \in Nat : k <= n /\ g[1 .. k] # h[k]}
<1>1. n \in Nat /\ DOMAIN u = 1 .. n
  BY LenProperties
<1>2. FoldLeft(Apply, f, u) = g[1 .. n]
  BY <1>1 DEF FoldLeft, MapThenFoldSet, Merges
<1>3. Merges(g, f, u, n)
  BY <1>1, MergesExists
<1>. HIDE DEF g, n
<1>4. \A s \in SUBSET (1 .. n) :
        g[s] = IF s = {} THEN f ELSE Apply(g[s \ {Max(s)}], u[Max(s)])
  BY <1>3 DEF Merges
<1>5. SUFFICES ASSUME T # {} PROVE FALSE
  BY <1>1, <1>2 DEF n
<1>6. PICK k \in T : \A j \in T : k <= j
  BY <1>5, Least
<1>7. CASE k = 0
  <2>1. 1 .. 0 = {} /\ 1 .. 0 \in SUBSET (1 .. n)
    OBVIOUS
  <2>. QED  BY <1>4, <1>6, <1>7, <2>1
<1>8. CASE k # 0
  <2>1. k \in 1 .. n /\ k - 1 \in Nat /\ k - 1 \notin T
    BY <1>1, <1>6, <1>8
  <2>2. g[1 .. k - 1] = h[k - 1]
    BY <1>1, <2>1
  <2>3. 1 .. k \in SUBSET (1 .. n) /\ k \in 1 .. k
    BY <1>1, <2>1
  <2>7. (1 .. k) \ {k} = 1 .. k - 1
    BY <2>1
  <2>4. Max(1 .. k) = k
    BY <2>1, MaxOf
  <2>5. g[1 .. k] = Apply(h[k - 1], u[k])
    BY <1>4, <2>2, <2>3, <2>4, <2>7
  <2>6. h[k] = Apply(h[k - 1], u[k])
    BY <2>1 DEF n
  <2>. QED  BY <1>6, <2>5, <2>6
<1>. QED  BY <1>7, <1>8

-----------------------------------------------------------------------------
(***************************************************************************)
(* The types, in three parts.  They need that some member is left, or else *)
(* nobody is the primary, and that a request calls two replicas.           *)
(***************************************************************************)
Callers == {"none", "timer", "read", "merge"}
FlushRec == [i : Nat, by : Callers]
NodeType ==
  /\ live \subseteq Nodes /\ view \subseteq Nodes
  /\ file \in [Nodes -> Seq(Reqs)] /\ empty \subseteq Nodes
  /\ log \in [Nodes -> Seq(EntryRec)]
  /\ mapped \in [Nodes -> BOOLEAN] /\ isRead \in [Nodes -> BOOLEAN]
  /\ flush \in [Nodes -> FlushRec]
  /\ faults \in 0 .. MaxFaults
  /\ errs \subseteq FaultKinds /\ missed \in BOOLEAN
ReqSteps == {"new", "sent", "refused", "mapped", "call", "wait", "acked", "failed"}
RpcSteps == {"none", "sent", "mapped", "logged", "lost"}
ReqRec == [st : ReqSteps, at : Nodes, to : Seq(Nodes), k : 1 .. 3]
RpcRec == [st : RpcSteps, to : Nodes]
CallType == req \in [Reqs -> ReqRec] /\ rpc \in [Reqs \X Slots -> RpcRec]
MergeSteps == {"none", "sent", "lock", "flush", "write", "removed", "opened", "unlinked", "merged", "failed"}
MergeRec == [st : MergeSteps, data : Seq(Reqs), n : 0 .. MaxMerges, calm : BOOLEAN]
ReadRec == [st : {"idle", "lock", "flush", "open"}, at : Nodes, want : SUBSET Reqs,
            got : Seq(Reqs), n : 0 .. MaxReads, first : BOOLEAN]
RepairSteps == {"idle", "sent", "mapped"}
RepairRec == [todo : SUBSET Nodes, st : RepairSteps, to : Nodes, data : Seq(Reqs)]
TaskType ==
  /\ read \in ReadRec
  /\ merge \in [Nodes -> MergeRec]
  /\ failed \in [Nodes -> SUBSET Nodes]
  /\ repair \in [Nodes -> RepairRec]

\* A node that runs is in the membership list, and one always runs.
LiveInv == live \subseteq view /\ Cardinality(Nodes \ live) <= MaxCrashes
\* A request calls one replica after the other.
TurnInv == \A q \in Reqs : Len(req[q].to) = 2 /\ (req[q].st = "wait" => req[q].k <= 2)

\* A merge of a log is within it: nothing is appended meanwhile.
FlushInv == \A n \in Nodes : flush[n] # Idle => flush[n].i \in 1 .. Len(log[n]) + 1

TypeInv == NodeType /\ CallType /\ TaskType /\ LiveInv /\ TurnInv /\ FlushInv

LEMMA TypeParts == TypeOK <=> NodeType /\ CallType /\ TaskType
BY Zenon DEF TypeOK, NodeType, CallType, TaskType, ReqRec, RpcRec, ReqSteps, RpcSteps,
             Callers, FlushRec, MergeSteps, MergeRec, ReadRec, RepairRec, RepairSteps

LEMMA FaultType ==
  ASSUME NodeType, NEW kind, Fault(kind) \/ NoFault
  PROVE  faults' \in 0 .. MaxFaults /\ errs' \subseteq FaultKinds
<1>1. MaxFaults \in Nat
  BY HydfsAssumption DEF HydfsAssumption
<1>. QED  BY <1>1 DEF NodeType, Fault, NoFault

LEMMA MissType ==
  ASSUME NodeType, NEW c \in BOOLEAN, Miss(c)
  PROVE  missed' \in BOOLEAN
BY DEF NodeType, Miss

\* The steps of MergeFile that make the copy anew: which variables they leave alone, and
\* what they make of the copy and of the call.
LEMMA OverwriteForm ==
  ASSUME TypeInv, NEW n \in Nodes, Overwrite(n)
  PROVE  /\ UNCHANGED <<live, view, log, mapped, isRead, flush, req, rpc, read, failures, missed>>
         /\ n \in live /\ (Fault("merge") \/ NoFault)
         /\ merge[n].st \in {"write", "removed", "opened", "unlinked"}
         /\ empty' \subseteq empty \cup {n}
         /\ \E st \in {"removed", "opened", "merged", "failed"} :
              merge' = [merge EXCEPT ![n].st = st]
         /\ \E f \in Seq(Reqs) : file' = [file EXCEPT ![n] = f]
<1>t. file \in [Nodes -> Seq(Reqs)] /\ merge \in [Nodes -> MergeRec]
  BY DEF TypeInv, NodeType, TaskType
<1>g. \A st : MergeGoesOn(n, st) =>
        /\ Fault("merge") \/ NoFault
        /\ merge' = [merge EXCEPT ![n].st = st] \/ merge' = [merge EXCEPT ![n].st = "failed"]
  BY DEF MergeGoesOn
<1>s. file' = file => \E f \in Seq(Reqs) : file' = [file EXCEPT ![n] = f]
  <2>1. file[n] \in Seq(Reqs) /\ [file EXCEPT ![n] = file[n]] = file
    BY <1>t
  <2>. QED  BY <2>1
<1>1. CASE MergeRemove(n)
  <2>1. MergeGoesOn(n, "removed") /\ (file' = file \/ file' = [file EXCEPT ![n] = <<>>])
    <3>1. CASE MergeFails(n)
      BY <1>1, <3>1 DEF MergeRemove
    <3>2. CASE ~ MergeFails(n)
      BY <1>1, <3>2 DEF MergeRemove
    <3>. QED  BY <3>1, <3>2
  <2>2. \E f \in Seq(Reqs) : file' = [file EXCEPT ![n] = f]
    <3>1. <<>> \in Seq(Reqs)
      OBVIOUS
    <3>. QED  BY <1>s, <2>1, <3>1
  <2>. QED  BY <1>1, <1>g, <2>1, <2>2 DEF MergeRemove
<1>2. CASE MergeOpen(n)
  <2>1. MergeGoesOn(n, "opened") /\ (file' = file \/ file' = [file EXCEPT ![n] = <<>>])
    <3>1. CASE MergeFails(n)
      BY <1>2, <3>1 DEF MergeOpen
    <3>2. CASE ~ MergeFails(n)
      BY <1>2, <3>2 DEF MergeOpen
    <3>. QED  BY <3>1, <3>2
  <2>2. \E f \in Seq(Reqs) : file' = [file EXCEPT ![n] = f]
    <3>1. <<>> \in Seq(Reqs)
      OBVIOUS
    <3>. QED  BY <1>s, <2>1, <3>1
  <2>. QED  BY <1>2, <1>g, <2>1, <2>2 DEF MergeOpen
<1>3. CASE MergeWrite(n)
  <2>. DEFINE d == merge[n].data
              t == SubSeq(file[n], Len(d) + 1, Len(file[n]))
  <2>1. d \in Seq(Reqs) /\ file[n] \in Seq(Reqs)
    BY <1>t DEF MergeRec
  <2>2. t \in Seq(Reqs)
    <3>1. Len(d) + 1 \in Int /\ Len(file[n]) \in Int /\ Len(d) \in Nat
      BY <2>1, LenProperties
    <3>2. \A i \in Len(d) + 1 .. Len(file[n]) : file[n][i] \in Reqs
      BY <2>1, <3>1, ElementOfSeq
    <3>. HIDE DEF d
    <3>. QED  BY <3>1, <3>2, SubSeqProperties
  <2>. HIDE DEF t
  <2>3. d \o t \in Seq(Reqs)
    BY <2>1, <2>2, ConcatProperties
  <2>4. MergeGoesOn(n, "merged") /\ (file' = file \/ file' = [file EXCEPT ![n] = d \o t])
    BY <1>3 DEF MergeWrite, t
  <2>. HIDE DEF d
  <2>5. \E f \in Seq(Reqs) : file' = [file EXCEPT ![n] = f]
    BY <1>s, <2>3, <2>4
  <2>. QED  BY <1>3, <1>g, <2>4, <2>5 DEF MergeWrite
<1>. QED  BY <1>1, <1>2, <1>3 DEF Overwrite

\* Where a file is routed to while there are members.
LEMMA Routed ==
  ASSUME NodeType, LiveInv
  PROVE  /\ view # {} /\ Primary \in Nodes /\ Routing \in Seq(Nodes)
         /\ Replicas \in Seq(Nodes) /\ Len(Replicas) = 2
         /\ \A k \in 1 .. 2 : Replicas[k] \in Nodes
<1>1. live # {}
  <2>1. SUFFICES ASSUME live = {} PROVE FALSE
    OBVIOUS
  <2>2. Nodes \ live = Nodes
    BY <2>1
  <2>3. Cardinality(Nodes) \in Nat /\ MaxCrashes < Cardinality(Nodes) /\ MaxCrashes \in Nat
    BY HydfsAssumption, FS_CardinalityType DEF HydfsAssumption
  <2>. QED  BY <2>2, <2>3 DEF LiveInv
<1>2. view # {} /\ view \subseteq Nat /\ view \subseteq Nodes /\ FileHash \in Nat
  BY <1>1, HydfsAssumption DEF HydfsAssumption, LiveInv, NodeType
<1>. DEFINE F == FileRouting(FileHash, view)
<1>3. /\ F \in Seq(view) /\ F[1] \in view
      /\ Tail(F) \in Seq(view) /\ Len(Tail(F)) = 2
      /\ \A k \in 1 .. 2 : Tail(F)[k] \in view
  BY <1>2, RoutingType
<1>4. Routing = F /\ Primary = F[1] /\ Replicas = Tail(F)
  BY DEF Routing, Primary, Replicas
<1>. HIDE DEF F
<1>5. F \in Seq(Nodes) /\ Tail(F) \in Seq(Nodes)
  BY <1>2, <1>3, SeqMonotonic
<1>. QED  BY <1>2, <1>3, <1>4, <1>5

\* WriteLog leaves the types as they are.
LEMMA LogType ==
  ASSUME NodeType, NEW n \in Nodes, NEW e \in EntryRec, WriteLog(n, e)
  PROVE  log' \in [Nodes -> Seq(EntryRec)] /\ faults' \in 0 .. MaxFaults /\ errs' \subseteq FaultKinds
<1>1. faults' \in 0 .. MaxFaults /\ errs' \subseteq FaultKinds
  BY FaultType DEF WriteLog
<1>2. log' = [log EXCEPT ![n] = Append(@, e)] \/ UNCHANGED log
  BY DEF WriteLog, Append1
<1>3. log \in [Nodes -> Seq(EntryRec)] /\ Append(log[n], e) \in Seq(EntryRec)
  BY AppendProperties DEF NodeType
<1>. QED  BY <1>1, <1>2, <1>3

LEMMA LogWithin ==
  ASSUME NodeType, FlushInv, NEW n \in Nodes, NEW e, WriteLog(n, e), flush' = flush
  PROVE  FlushInv'
BY DEF NodeType, FlushInv, WriteLog, LogFree, Append1

LEMMA EntryTypes ==
  /\ \A q \in Reqs : Entry(q) \in EntryRec
  /\ \A d \in Seq(Reqs) : Replica(d) \in EntryRec
<1>1. \A q \in Reqs : <<q>> \in Seq(Reqs)
  OBVIOUS
<1>. QED  BY <1>1 DEF Entry, Replica, EntryRec

-----------------------------------------------------------------------------
\* The types are there at the beginning.
LEMMA InitTypes == Init => TypeInv
<1>. SUFFICES ASSUME Init PROVE TypeInv
  OBVIOUS
<1>. USE DEF Init
<1>0. LiveInv
  <2>. DEFINE down == Nodes \ live
  <2>1. live \subseteq view /\ down = {}
    OBVIOUS
  <2>2. MaxCrashes \in Nat
    BY HydfsAssumption DEF HydfsAssumption
  <2>. HIDE DEF down
  <2>3. Cardinality(down) = 0
    BY <2>1, FS_EmptySet, Zenon
  <2>. QED  BY <2>1, <2>2, <2>3 DEF LiveInv, down
<1>1. NodeType
  <2>1. Before \in Seq(Reqs) /\ 0 \in 0 .. MaxFaults
    BY HydfsAssumption DEF HydfsAssumption
  <2>2. file \in [Nodes -> Seq(Reqs)]
    BY <2>1
  <2>3. log \in [Nodes -> Seq(EntryRec)]
    OBVIOUS
  <2>4. mapped \in [Nodes -> BOOLEAN] /\ isRead \in [Nodes -> BOOLEAN]
    OBVIOUS
  <2>5. flush \in [Nodes -> FlushRec]
    BY DEF Idle, FlushRec, Callers
  <2>. QED  BY <2>1, <2>2, <2>3, <2>4, <2>5 DEF NodeType
<1>2. /\ Primary \in Nodes /\ Replicas \in Seq(Nodes) /\ Len(Replicas) = 2
      /\ \A k \in 1 .. 2 : Replicas[k] \in Nodes
  BY <1>0, <1>1, Routed
<1>3. CallType
  <2>1. req \in [Reqs -> ReqRec]
    BY <1>2 DEF ReqRec, ReqSteps
  <2>2. rpc \in [Reqs \X Slots -> RpcRec]
    BY <1>2 DEF Slots, RpcRec, RpcSteps
  <2>. QED  BY <2>1, <2>2 DEF CallType
<1>4. TaskType
  <2>1. 0 \in 0 .. MaxReads /\ 0 \in 0 .. MaxMerges /\ <<>> \in Seq(Reqs)
    BY HydfsAssumption DEF HydfsAssumption
  <2>. QED  BY <1>2, <2>1 DEF TaskType, MergeRec, ReadRec, RepairRec, MergeSteps, RepairSteps
<1>5. TurnInv
  BY <1>2 DEF TurnInv
<1>6. FlushInv
  BY DEF FlushInv
<1>. QED  BY <1>0, <1>1, <1>3, <1>4, <1>5, <1>6 DEF TypeInv

-----------------------------------------------------------------------------
(***************************************************************************)
(* Each action keeps the types.                                            *)
(***************************************************************************)
LEMMA Steps ==
  /\ "sent" \in ReqSteps /\ "refused" \in ReqSteps /\ "mapped" \in ReqSteps /\ "call" \in ReqSteps
  /\ "wait" \in ReqSteps /\ "acked" \in ReqSteps /\ "failed" \in ReqSteps
  /\ "sent" \in RpcSteps /\ "mapped" \in RpcSteps /\ "logged" \in RpcSteps /\ "lost" \in RpcSteps
  /\ "lock" \in MergeSteps /\ "flush" \in MergeSteps /\ "write" \in MergeSteps /\ "sent" \in MergeSteps
  /\ "merged" \in MergeSteps /\ "none" \in MergeSteps
  /\ "idle" \in RepairSteps /\ "sent" \in RepairSteps /\ "mapped" \in RepairSteps
  /\ "timer" \in Callers /\ "read" \in Callers /\ "merge" \in Callers /\ "none" \in Callers
BY DEF ReqSteps, RpcSteps, MergeSteps, RepairSteps, Callers

LEMMA WriteTypes ==
  ASSUME TypeInv, NEW q \in Reqs, Write(q)
  PROVE  TypeInv'
<1>. USE Steps DEF TypeInv
<1>0. LiveInv' /\ TaskType' /\ FlushInv'
  <2>1. LiveInv' /\ TaskType'
    BY DEF Write, Send, Check, Log, Call, Return, Acknowledge, LiveInv, TaskType, failures
  <2>2. UNCHANGED <<log, flush>> \/ Log(q)
    BY DEF Write, Send, Check, Call, Return, Acknowledge, disk
  <2>3. req[q].at \in Nodes
    BY DEF CallType, ReqRec
  <2>4. FlushInv'
    BY <2>2, <2>3, LogWithin DEF Log, FlushInv
  <2>. QED  BY <2>1, <2>4
<1>1. CASE Send(q)
  <2>1. NodeType' /\ UNCHANGED rpc
    BY <1>1 DEF Send, NodeType, disk
  <2>2. Primary \in Nodes
    BY Routed
  <2>3. CallType'
    BY <1>1, <2>1, <2>2 DEF Send, CallType, ReqRec
  <2>4. TurnInv'
    BY <1>1 DEF Send, CallType, TurnInv, ReqRec
  <2>. QED  BY <1>0, <2>1, <2>3, <2>4
<1>2. CASE Check(q)
  <2>1. NodeType' /\ UNCHANGED rpc
    BY <1>2 DEF Check, NodeType, CallType
  <2>2. CallType'
    BY <1>2, <2>1 DEF Check, CallType, ReqRec
  <2>3. TurnInv'
    BY <1>2 DEF Check, CallType, TurnInv, ReqRec
  <2>. QED  BY <1>0, <2>1, <2>2, <2>3
<1>3. CASE Log(q)
  <2>1. req[q].at \in Nodes /\ Entry(q) \in EntryRec
    BY EntryTypes DEF CallType, ReqRec, RpcRec
  <2>2. NodeType'
    BY <1>3, <2>1, LogType DEF Log, NodeType
  <2>3. Replicas \in Seq(Nodes) /\ Len(Replicas) = 2
    BY Routed
  <2>4. CallType'
    BY <1>3, <2>3 DEF Log, CallType, ReqRec
  <2>5. TurnInv'
    BY <1>3, <2>3 DEF Log, CallType, TurnInv, ReqRec
  <2>. QED  BY <1>0, <2>2, <2>4, <2>5
<1>4. CASE Call(q)
  <2>1. NodeType'
    BY <1>4 DEF Call, NodeType, disk
  <2>2. req[q].k \in Slots /\ req[q].to[req[q].k] \in Nodes
    BY <1>4 DEF Call, CallType, TurnInv, ReqRec, Slots
  <2>3. rpc' \in [Reqs \X Slots -> RpcRec]
    BY <1>4, <2>2 DEF Call, CallType, RpcRec
  <2>4. CallType'
    BY <1>4, <2>3 DEF Call, CallType, ReqRec
  <2>5. TurnInv'
    BY <1>4, <2>2 DEF Call, CallType, TurnInv, ReqRec, Slots
  <2>. QED  BY <1>0, <2>1, <2>4, <2>5
<1>5. CASE Return(q)
  <2>1. NodeType' /\ UNCHANGED rpc
    BY <1>5, FaultType DEF Return, NodeType, disk
  <2>2. req[q].k + 1 \in 1 .. 3
    <3>1. req[q].k \in 1 .. 3
      BY DEF CallType, ReqRec
    <3>2. req[q].k <= 2
      BY <1>5 DEF Return, TurnInv
    <3>. QED  BY <3>1, <3>2
  <2>3. CallType'
    BY <1>5, <2>1, <2>2 DEF Return, CallType, ReqRec
  <2>4. TurnInv'
    BY <1>5 DEF Return, CallType, TurnInv, ReqRec
  <2>. QED  BY <1>0, <2>1, <2>3, <2>4
<1>6. CASE Acknowledge(q)
  <2>1. NodeType' /\ UNCHANGED rpc
    BY <1>6 DEF Acknowledge, NodeType, disk
  <2>2. CallType'
    BY <1>6, <2>1 DEF Acknowledge, CallType, ReqRec
  <2>3. TurnInv'
    BY <1>6 DEF Acknowledge, CallType, TurnInv, ReqRec
  <2>. QED  BY <1>0, <2>1, <2>2, <2>3
<1>. QED  BY <1>1, <1>2, <1>3, <1>4, <1>5, <1>6 DEF Write

LEMMA ReplicateTypes ==
  ASSUME TypeInv, NEW c \in Reqs \X Slots, Replicate(c)
  PROVE  TypeInv'
<1>. USE Steps DEF TypeInv
<1>0. LiveInv' /\ TaskType' /\ TurnInv' /\ FlushInv'
  <2>1. LiveInv' /\ TaskType' /\ TurnInv'
    BY DEF Replicate, RpcMap, RpcLog, RpcLost, LiveInv, TaskType, TurnInv, failures
  <2>2. UNCHANGED <<log, flush>> \/ RpcLog(c)
    BY DEF Replicate, RpcMap, RpcLost, disk
  <2>3. rpc[c].to \in Nodes
    BY DEF CallType, RpcRec
  <2>4. FlushInv'
    BY <2>2, <2>3, LogWithin DEF RpcLog, FlushInv
  <2>. QED  BY <2>1, <2>4
<1>1. CallType'
  BY DEF Replicate, RpcMap, RpcLog, RpcLost, CallType, RpcRec
<1>2. rpc[c].to \in Nodes /\ Entry(c[1]) \in EntryRec
  BY EntryTypes DEF CallType, ReqRec, RpcRec
<1>3. CASE RpcMap(c)
  BY <1>0, <1>1, <1>2, <1>3 DEF RpcMap, NodeType
<1>4. CASE RpcLog(c)
  <2>1. NodeType'
    BY <1>2, <1>4, LogType DEF RpcLog, NodeType
  <2>. QED  BY <1>0, <1>1, <2>1
<1>5. CASE RpcLost(c)
  <2>1. NodeType'
    BY <1>5, FaultType DEF RpcLost, NodeType, disk
  <2>. QED  BY <1>0, <1>1, <2>1
<1>. QED  BY <1>3, <1>4, <1>5 DEF Replicate

LEMMA FlushTypes ==
  ASSUME TypeInv, NEW n \in Nodes, Flush(n)
  PROVE  TypeInv'
<1>. USE DEF TypeInv
<1>. USE Steps
<1>0. LiveInv' /\ CallType' /\ TurnInv'
  BY DEF Flush, FlushStart, FlushStep, FlushError, FlushEnd, LiveInv, CallType, TurnInv
<1>1. failed' = failed /\ repair' = repair
  BY DEF Flush, FlushStart, FlushStep, FlushError, FlushEnd, failures
<1>2. (UNCHANGED <<read, merge>> \/ Resume(n)) => TaskType'
  <2>1. Resume(n) => read' \in ReadRec
    BY DEF Resume, TaskType, ReadRec, MergeRec
  <2>2. Resume(n) => merge' \in [Nodes -> MergeRec]
    <3>1. [merge EXCEPT ![n].st = "write"] \in [Nodes -> MergeRec]
      BY DEF TaskType, MergeRec
    <3>. QED  BY <3>1 DEF Resume, TaskType
  <2>. QED  BY <1>1, <2>1, <2>2 DEF TaskType
<1>3. Resume(n) => flush' \in [Nodes -> FlushRec]
  BY DEF Resume, NodeType, Idle, FlushRec
<1>4. CASE FlushStart(n)
  <2>1. NodeType'
    BY <1>4 DEF FlushStart, NodeType, disk, FlushRec
  <2>2. FlushInv'
    BY <1>4 DEF FlushStart, NodeType, FlushInv, disk, FlushRec
  <2>. QED  BY <1>0, <1>2, <1>4, <2>1, <2>2 DEF FlushStart
<1>5. CASE FlushStep(n)
  <2>1. log[n][flush[n].i] \in EntryRec
    <3>1. flush[n].i \in 1 .. Len(log[n])
      BY <1>5 DEF FlushStep, NodeType, FlushInv, FlushRec
    <3>. QED  BY <3>1, ElementOfSeq DEF NodeType
  <2>2. Apply(file[n], log[n][flush[n].i]) \in Seq(Reqs)
    <3>1. file[n] \in Seq(Reqs) /\ log[n][flush[n].i].data \in Seq(Reqs)
      BY <2>1 DEF NodeType, EntryRec
    <3>. QED  BY <3>1, ConcatProperties DEF Apply
  <2>3. faults' \in 0 .. MaxFaults /\ errs' \subseteq FaultKinds
    BY <1>5, FaultType DEF FlushStep
  <2>4. flush' \in [Nodes -> FlushRec]
    <3>1. flush[n].i + 1 \in Nat
      BY DEF NodeType, FlushRec
    <3>2. [flush EXCEPT ![n].i = @ + 1] \in [Nodes -> FlushRec]
      BY <3>1 DEF NodeType, FlushRec
    <3>. QED  BY <1>5, <3>2 DEF FlushStep
  <2>5. file' \in [Nodes -> Seq(Reqs)] /\ empty' \subseteq Nodes
    BY <1>5, <2>2 DEF FlushStep, NodeType
  <2>6. NodeType'
    BY <1>5, <2>3, <2>4, <2>5 DEF FlushStep, NodeType
  <2>7. FlushInv'
    BY <1>5 DEF FlushStep, NodeType, FlushInv, FlushRec
  <2>. QED  BY <1>0, <1>2, <1>5, <2>6, <2>7 DEF FlushStep
<1>6. CASE FlushError(n)
  <2>1. faults' \in 0 .. MaxFaults /\ errs' \subseteq FaultKinds
    BY <1>6, FaultType DEF FlushError
  <2>2. NodeType'
    BY <1>3, <1>6, <2>1 DEF FlushError, NodeType, disk
  <2>3. FlushInv'
    BY <1>6 DEF FlushError, FlushInv, Resume, NodeType, disk
  <2>. QED  BY <1>0, <1>2, <1>6, <2>2, <2>3 DEF FlushError
<1>7. CASE FlushEnd(n)
  <2>1. faults' \in 0 .. MaxFaults /\ errs' \subseteq FaultKinds
    BY <1>7, FaultType DEF FlushEnd
  <2>2. log' \in [Nodes -> Seq(EntryRec)]
    <3>1. <<>> \in Seq(EntryRec)
      OBVIOUS
    <3>2. log' = [log EXCEPT ![n] = <<>>] \/ UNCHANGED log
      BY <1>7 DEF FlushEnd, ClearLog
    <3>. QED  BY <3>1, <3>2 DEF NodeType
  <2>3. NodeType'
    BY <1>3, <1>7, <2>1, <2>2 DEF FlushEnd, NodeType
  <2>4. FlushInv'
    BY <1>7 DEF FlushEnd, FlushInv, Resume, ClearLog, NodeType
  <2>. QED  BY <1>0, <1>2, <1>7, <2>3, <2>4 DEF FlushEnd
<1>. QED  BY <1>4, <1>5, <1>6, <1>7 DEF Flush

LEMMA ReadTypes ==
  ASSUME TypeInv, Read
  PROVE  TypeInv'
<1>. USE DEF TypeInv
<1>0. LiveInv' /\ CallType' /\ TurnInv' /\ UNCHANGED <<merge, failures>>
  BY DEF Read, ReadStart, ReadLock, ReadOpen, LiveInv, CallType, TurnInv
<1>. USE Steps
<1>1. NodeType' /\ FlushInv'
  <2>1. CASE ReadStart \/ ReadOpen
    BY <2>1 DEF ReadStart, ReadOpen, NodeType, FlushInv, disk
  <2>2. CASE ReadLock
    <3>1. read.at \in Nodes
      BY DEF TaskType, ReadRec
    <3>2. NodeType'
      BY <2>2, <3>1 DEF ReadLock, NodeType, FlushRec, disk
    <3>3. FlushInv'
      BY <2>2, <3>1 DEF ReadLock, NodeType, FlushInv, FlushRec, disk
    <3>. QED  BY <3>2, <3>3
  <2>. QED  BY <2>1, <2>2 DEF Read
<1>2. read' \in ReadRec
  <2>1. CASE ReadStart
    <3>1. Primary \in Nodes /\ NeedsMerge(Primary) \in BOOLEAN /\ Acked \subseteq Reqs
      BY Routed DEF NeedsMerge, Acked
    <3>2. read.n + 1 \in 0 .. MaxReads
      BY <2>1, HydfsAssumption DEF ReadStart, TaskType, ReadRec, HydfsAssumption
    <3>. DEFINE s == IF NeedsMerge(Primary) THEN "lock" ELSE "open"
                m == NeedsMerge(Primary)
                k == read.n + 1
    <3>3. s \in {"lock", "open"}
      OBVIOUS
    <3>4. read' = [read EXCEPT !.st = s, !.at = Primary, !.want = Acked, !.n = k, !.first = m]
      BY <2>1 DEF ReadStart
    <3>. HIDE DEF s, m, k
    <3>. QED  BY <3>1, <3>2, <3>3, <3>4 DEF TaskType, ReadRec, m, k
  <2>2. CASE ReadLock
    BY <2>2 DEF ReadLock, TaskType, ReadRec
  <2>3. CASE ReadOpen
    BY <2>3 DEF ReadOpen, TaskType, ReadRec, NodeType
  <2>. QED  BY <2>1, <2>2, <2>3 DEF Read
<1>. QED  BY <1>0, <1>1, <1>2 DEF TaskType, failures

LEMMA MergeTypes ==
  ASSUME TypeInv, NEW n \in Nodes, Merge(n)
  PROVE  TypeInv'
<1>. USE DEF TypeInv
<1>0. LiveInv' /\ CallType' /\ TurnInv' /\ UNCHANGED <<read, failures>>
  BY OverwriteForm DEF Merge, MergeSend, MergeArrive, MergeLock, LiveInv, CallType, TurnInv
<1>. USE Steps
<1>1. NodeType' /\ FlushInv'
  <2>1. CASE MergeSend(n) \/ MergeArrive(n)
    <3>1. missed' \in BOOLEAN
      <4>1. (file[Primary] = <<>>) \in BOOLEAN
        OBVIOUS
      <4>. QED  BY <2>1, <4>1, MissType DEF MergeSend, MergeArrive, NodeType
    <3>. QED  BY <2>1, <3>1 DEF MergeSend, MergeArrive, NodeType, FlushInv, disk
  <2>2. CASE MergeLock(n)
    <3>1. NodeType'
      BY <2>2 DEF MergeLock, NodeType, FlushRec, disk
    <3>2. FlushInv'
      BY <2>2 DEF MergeLock, NodeType, FlushInv, FlushRec, disk
    <3>. QED  BY <3>1, <3>2
  <2>3. CASE Overwrite(n)
    <3>1. /\ UNCHANGED <<live, view, log, mapped, isRead, flush, missed>>
          /\ Fault("merge") \/ NoFault
          /\ empty' \subseteq empty \cup {n}
          /\ \E f \in Seq(Reqs) : file' = [file EXCEPT ![n] = f]
      BY <2>3, OverwriteForm
    <3>2. faults' \in 0 .. MaxFaults /\ errs' \subseteq FaultKinds
      BY <3>1, FaultType
    <3>3. NodeType'
      BY <3>1, <3>2 DEF NodeType
    <3>4. FlushInv'
      BY <3>1 DEF FlushInv
    <3>. QED  BY <3>3, <3>4
  <2>. QED  BY <2>1, <2>2, <2>3 DEF Merge
<1>2. merge' \in [Nodes -> MergeRec]
  <2>1. CASE MergeSend(n)
    <3>. DEFINE r == [st |-> "sent", data |-> file[Primary], n |-> merge[n].n + 1,
                      calm |-> Settled /\ \A q \in Reqs : req[q].st # "new"]
    <3>1. file[Primary] \in Seq(Reqs)
      BY Routed DEF NodeType
    <3>2. merge[n].n + 1 \in 0 .. MaxMerges
      <4>1. merge[n].n < MaxMerges
        BY <2>1 DEF MergeSend
      <4>2. merge[n].n \in 0 .. MaxMerges
        BY DEF TaskType, MergeRec
      <4>3. MaxMerges \in Nat
        BY HydfsAssumption
      <4>4. merge[n].n \in Nat /\ merge[n].n <= MaxMerges
        BY <4>2, <4>3
      <4>. QED  BY <4>1, <4>3, <4>4
    <3>3. r \in MergeRec
      BY <3>1, <3>2 DEF MergeRec
    <3>4. merge' = [merge EXCEPT ![n] = r]
      BY <2>1 DEF MergeSend
    <3>. HIDE DEF r
    <3>. QED  BY <3>3, <3>4 DEF TaskType
  <2>2. CASE MergeArrive(n)
    <3>1. PICK s \in MergeSteps : merge' = [merge EXCEPT ![n].st = s]
      BY <2>2 DEF MergeArrive, MergeSteps
    <3>. QED  BY <3>1 DEF TaskType, MergeRec
  <2>3. CASE MergeLock(n) \/ Overwrite(n)
    <3>1. PICK s \in MergeSteps : merge' = [merge EXCEPT ![n].st = s]
      BY <2>3, OverwriteForm DEF MergeLock, MergeSteps
    <3>. QED  BY <3>1 DEF TaskType, MergeRec
  <2>. QED  BY <2>1, <2>2, <2>3 DEF Merge
<1>. QED  BY <1>0, <1>1, <1>2 DEF TaskType, failures

LEMMA RepairForm ==
  ASSUME TaskType, NEW s \in Nodes, NEW st \in RepairSteps, NEW todo \in SUBSET Nodes
  PROVE  /\ [repair EXCEPT ![s].st = st] \in [Nodes -> RepairRec]
         /\ [repair EXCEPT ![s].todo = todo] \in [Nodes -> RepairRec]
         /\ [repair[s] EXCEPT !.st = st] \in RepairRec
         /\ [repair[s] EXCEPT !.todo = todo, !.st = st] \in RepairRec
<1>1. repair \in [Nodes -> RepairRec] /\ repair[s] \in RepairRec
  BY DEF TaskType
<1>2. [repair[s] EXCEPT !.st = st] \in RepairRec
  BY <1>1 DEF RepairRec
<1>3. [repair[s] EXCEPT !.todo = todo] \in RepairRec
  BY <1>1 DEF RepairRec
<1>4. [repair[s] EXCEPT !.todo = todo, !.st = st] \in RepairRec
  BY <1>1 DEF RepairRec
<1>. QED  BY <1>1, <1>2, <1>3, <1>4

\* Who is sent the file is a member.
LEMMA ReceiversType ==
  ASSUME NEW s, NEW hash, NEW members, NEW gone
  PROVE  Receivers(s, hash, members, gone) \subseteq members
BY DEF Receivers

LEMMA FailureTypes ==
  ASSUME TypeInv, NEW n \in Nodes, Crash(n) \/ Detect(n)
  PROVE  TypeInv'
<1>. USE Steps DEF TypeInv
<1>1. CASE Crash(n)
  <2>1. NodeType'
    BY <1>1 DEF Crash, NodeType, Idle, FlushRec, disk
  <2>2. LiveInv'
    <3>. DEFINE D == Nodes \ live
    <3>1. Nodes \ live' = D \cup {n} /\ n \notin D
      BY <1>1 DEF Crash
    <3>2. IsFiniteSet(D)
      BY HydfsAssumption, FS_Subset DEF HydfsAssumption
    <3>3. Cardinality(D) \in Nat /\ Cardinality(D) < MaxCrashes /\ MaxCrashes \in Nat
      BY <1>1, <3>2, FS_CardinalityType, HydfsAssumption DEF Crash, HydfsAssumption
    <3>. HIDE DEF D
    <3>4. Cardinality(D \cup {n}) = Cardinality(D) + 1
      BY <3>1, <3>2, FS_AddElement
    <3>5. Cardinality(Nodes \ live') <= MaxCrashes
      BY <3>1, <3>3, <3>4
    <3>6. live' \subseteq view'
      BY <1>1 DEF Crash, LiveInv
    <3>. QED  BY <3>5, <3>6 DEF LiveInv
  <2>3. CallType'
    <3>1. \A q \in Reqs : [req[q] EXCEPT !.st = "failed"] \in ReqRec
      BY DEF CallType, ReqRec
    <3>2. \A c \in Reqs \X Slots : [rpc[c] EXCEPT !.st = "lost"] \in RpcRec
      BY DEF CallType, RpcRec
    <3>. QED  BY <1>1, <3>1, <3>2 DEF Crash, CallType
  <2>4. TurnInv'
    <3>1. \A q \in Reqs : /\ [req[q] EXCEPT !.st = "failed"].to = req[q].to
                          /\ [req[q] EXCEPT !.st = "failed"].st = "failed"
      BY DEF CallType, ReqRec
    <3>2. \A q \in Reqs : req'[q] = req[q] \/ req'[q] = [req[q] EXCEPT !.st = "failed"]
      BY <1>1 DEF Crash
    <3>. QED  BY <3>1, <3>2 DEF TurnInv
  <2>5. TaskType'
    <3>1. [read EXCEPT !.st = "idle"] \in ReadRec
      BY DEF TaskType, ReadRec
    <3>2. merge' \in [Nodes -> MergeRec]
      BY <1>1 DEF Crash, TaskType, MergeRec
    <3>3. ASSUME NEW s \in Nodes
          PROVE  /\ [repair[s] EXCEPT !.todo = {}, !.st = IF @ = "mapped" THEN @ ELSE "idle"] \in RepairRec
                 /\ [repair[s] EXCEPT !.st = "idle"] \in RepairRec
      <4>. DEFINE st == IF repair[s].st = "mapped" THEN repair[s].st ELSE "idle"
      <4>1. st \in RepairSteps
        BY DEF RepairSteps
      <4>2. [repair[s] EXCEPT !.todo = {}, !.st = IF @ = "mapped" THEN @ ELSE "idle"] =
              [repair[s] EXCEPT !.todo = {}, !.st = st]
        OBVIOUS
      <4>. HIDE DEF st
      <4>. QED  BY <4>1, <4>2, RepairForm
    <3>4. repair' \in [Nodes -> RepairRec]
      BY <1>1, <3>3 DEF Crash, TaskType
    <3>. QED  BY <1>1, <3>1, <3>2, <3>4 DEF Crash, TaskType
  <2>6. FlushInv'
    BY <1>1 DEF Crash, FlushInv, NodeType, disk
  <2>. QED  BY <2>1, <2>2, <2>3, <2>4, <2>5, <2>6
<1>2. CASE Detect(n)
  <2>1. NodeType' /\ FlushInv' /\ LiveInv'
    BY <1>2 DEF Detect, NodeType, FlushInv, LiveInv, disk
  <2>2. CallType' /\ TurnInv'
    BY <1>2 DEF Detect, CallType, TurnInv
  <2>3. TaskType'
    BY <1>2 DEF Detect, TaskType
  <2>. QED  BY <2>1, <2>2, <2>3
<1>. QED  BY <1>1, <1>2

LEMMA RepairTypes ==
  ASSUME TypeInv, NEW s \in Nodes, Repair(s)
  PROVE  TypeInv'
<1>. USE Steps DEF TypeInv
<1>0. LiveInv' /\ CallType' /\ TurnInv' /\ UNCHANGED read
  BY DEF Repair, RepairBegin, RepairSend, RepairArrive, RepairLog, LiveInv, CallType, TurnInv
<1>1. repair[s] \in RepairRec /\ repair[s].to \in Nodes /\ repair[s].data \in Seq(Reqs)
  BY DEF TaskType, RepairRec
<1>2. CASE RepairBegin(s)
  <2>1. NodeType' /\ FlushInv'
    <3>1. missed' \in BOOLEAN
      <4>1. (~OnDisk(s) /\ Overwriting(s)) \in BOOLEAN
        OBVIOUS
      <4>. QED  BY <1>2, <4>1, MissType DEF RepairBegin
    <3>. QED  BY <1>2, <3>1 DEF RepairBegin, NodeType, FlushInv, disk
  <2>. DEFINE todo == IF OnDisk(s) THEN Receivers(s, FileHash, view, failed[s]) ELSE {}
  <2>2. todo \subseteq Nodes
    BY ReceiversType DEF NodeType
  <2>3. repair' = [repair EXCEPT ![s].todo = todo]
    BY <1>2 DEF RepairBegin
  <2>4. failed' \in [Nodes -> SUBSET Nodes]
    BY <1>2 DEF RepairBegin, TaskType
  <2>. HIDE DEF todo
  <2>5. repair' \in [Nodes -> RepairRec]
    BY <2>2, <2>3, RepairForm
  <2>. QED  BY <1>0, <1>2, <2>1, <2>4, <2>5 DEF RepairBegin, TaskType
<1>3. CASE RepairSend(s)
  <2>1. NodeType' /\ FlushInv'
    <3>1. missed' \in BOOLEAN
      <4>1. (file[s] = <<>> /\ Overwriting(s)) \in BOOLEAN
        OBVIOUS
      <4>. QED  BY <1>3, <4>1, MissType DEF RepairSend
    <3>. QED  BY <1>3, <3>1 DEF RepairSend, NodeType, FlushInv, disk
  <2>2. PICK to \in repair[s].todo :
          repair' = [repair EXCEPT ![s] =
            [todo |-> repair[s].todo \ {to}, to |-> to, data |-> file[s],
             st |-> IF ~Csv /\ file[s] # <<>> /\ to \in live THEN "sent" ELSE "idle"]]
    BY <1>3 DEF RepairSend
  <2>3. /\ to \in Nodes /\ repair[s].todo \ {to} \subseteq Nodes /\ file[s] \in Seq(Reqs)
        /\ (IF ~Csv /\ file[s] # <<>> /\ to \in live THEN "sent" ELSE "idle") \in RepairSteps
    BY <1>1 DEF RepairRec, NodeType
  <2>. DEFINE st == IF ~Csv /\ file[s] # <<>> /\ to \in live THEN "sent" ELSE "idle"
              todo == repair[s].todo \ {to}
  <2>5. st \in RepairSteps /\ todo \in SUBSET Nodes
    BY <2>3
  <2>6. repair' = [repair EXCEPT ![s] = [todo |-> todo, to |-> to, data |-> file[s], st |-> st]]
    BY <2>2
  <2>. HIDE DEF st, todo
  <2>7. [todo |-> todo, to |-> to, data |-> file[s], st |-> st] \in RepairRec
    BY <2>3, <2>5 DEF RepairRec
  <2>4. repair' \in [Nodes -> RepairRec]
    BY <2>6, <2>7 DEF TaskType
  <2>. QED  BY <1>0, <1>3, <2>1, <2>4 DEF RepairSend, TaskType
<1>4. CASE RepairArrive(s)
  <2>1. NodeType' /\ FlushInv'
    <3>1. <<>> \in Seq(Reqs)
      OBVIOUS
    <3>. QED  BY <1>1, <1>4, <3>1 DEF RepairArrive, NodeType, FlushInv
  <2>2. repair' \in [Nodes -> RepairRec]
    BY <1>4, RepairForm DEF RepairArrive
  <2>3. merge' \in [Nodes -> MergeRec]
    <3>1. PICK st \in MergeSteps : merge' = [merge EXCEPT ![repair[s].to].st = st]
      <4>1. merge[repair[s].to].st \in MergeSteps
        BY <1>1 DEF TaskType, MergeRec
      <4>2. (IF merge[repair[s].to].st = "opened" THEN "unlinked" ELSE merge[repair[s].to].st) \in MergeSteps
        BY <4>1 DEF MergeSteps
      <4>. QED  BY <1>4, <4>2 DEF RepairArrive
    <3>. QED  BY <1>1, <3>1 DEF TaskType, MergeRec
  <2>. QED  BY <1>0, <1>4, <2>1, <2>2, <2>3 DEF RepairArrive, TaskType
<1>5. CASE RepairLog(s)
  <2>1. Replica(repair[s].data) \in EntryRec
    BY <1>1, EntryTypes
  <2>2. NodeType'
    BY <1>1, <1>5, <2>1, LogType DEF RepairLog, NodeType
  <2>3. FlushInv'
    BY <1>1, <1>5, LogWithin DEF RepairLog
  <2>4. repair' \in [Nodes -> RepairRec]
    BY <1>5, RepairForm DEF RepairLog
  <2>. QED  BY <1>0, <1>5, <2>2, <2>3, <2>4 DEF RepairLog, TaskType
<1>. QED  BY <1>2, <1>3, <1>4, <1>5 DEF Repair

\* The types and what keeps them are invariants.
LEMMA Types == Spec => []TypeInv
<1>1. ASSUME TypeInv, [Next]_vars PROVE TypeInv'
  <2>1. CASE UNCHANGED vars
    BY <1>1, <2>1 DEF TypeInv, NodeType, CallType, TaskType, LiveInv, TurnInv, FlushInv, vars, disk, failures
  <2>2. ASSUME NEW q \in Reqs, Write(q) PROVE TypeInv'
    BY <1>1, <2>2, WriteTypes
  <2>3. ASSUME NEW c \in Reqs \X Slots, Replicate(c) PROVE TypeInv'
    BY <1>1, <2>3, ReplicateTypes
  <2>4. ASSUME NEW n \in Nodes, Flush(n) PROVE TypeInv'
    BY <1>1, <2>4, FlushTypes
  <2>5. ASSUME NEW n \in Nodes, Merge(n) PROVE TypeInv'
    BY <1>1, <2>5, MergeTypes
  <2>6. ASSUME NEW n \in Nodes, Crash(n) \/ Detect(n) PROVE TypeInv'
    BY <1>1, <2>6, FailureTypes
  <2>7. ASSUME NEW n \in Nodes, Repair(n) PROVE TypeInv'
    BY <1>1, <2>7, RepairTypes
  <2>8. Read => TypeInv'
    BY <1>1, ReadTypes
  <2>. QED  BY <1>1, <2>1, <2>2, <2>3, <2>4, <2>5, <2>6, <2>7, <2>8 DEF Next
<1>. QED  BY <1>1, InitTypes, PTL DEF Spec

\* Type correctness of a file's copies, logs, requests, calls, reads, merges and
\* repairs (models/*.go, aol.go:15-20), whatever fails, as long as a node is left.
THEOREM TypeCorrect == Spec => []TypeOK
<1>1. TypeInv => TypeOK
  BY TypeParts DEF TypeInv
<1>. QED  BY <1>1, Types, PTL


-----------------------------------------------------------------------------
(***************************************************************************)
(* Who is to send a file to whom when one node is gone.                    *)
(***************************************************************************)
\* A finite set of naturals has a greatest element: the one with the fewest above it.
LEMMA Greatest ==
  ASSUME NEW T, T \subseteq Nat, IsFiniteSet(T), T # {}
  PROVE  \E x \in T : \A y \in T : x >= y
<1>. DEFINE above(y) == {x \in T : x > y}
            counts == {Cardinality(above(y)) : y \in T}
<1>1. \A y \in T : IsFiniteSet(above(y)) /\ Cardinality(above(y)) \in Nat
  <2>1. ASSUME NEW y \in T PROVE IsFiniteSet(above(y)) /\ Cardinality(above(y)) \in Nat
    <3>1. above(y) \in SUBSET T
      OBVIOUS
    <3>. HIDE DEF above
    <3>. QED  BY <3>1, FS_Subset, FS_CardinalityType
  <2>. QED  BY <2>1
<1>2. counts \subseteq Nat /\ counts # {}
  BY <1>1
<1>3. PICK k \in counts : \A j \in counts : k <= j
  BY <1>2, Least
<1>4. PICK x \in T : k = Cardinality(above(x))
  OBVIOUS
<1>5. ASSUME NEW y \in T, ~ (x >= y) PROVE FALSE
  <2>1. above(y) \in SUBSET above(x) /\ y \in above(x) /\ y \notin above(y)
    <3>1. x \in Nat /\ y \in Nat /\ y > x /\ ~ (y > y)
      BY <1>5
    <3>2. \A z \in T : z > y => z > x
      <4>1. \A z \in T : z \in Nat
        OBVIOUS
      <4>. QED  BY <3>1, <4>1
    <3>. QED  BY <3>1, <3>2
  <2>2. Cardinality(above(y)) \in counts
    OBVIOUS
  <2>. HIDE DEF above, counts
  <2>3. Cardinality(above(y)) <= Cardinality(above(x)) /\ Cardinality(above(y)) # Cardinality(above(x))
    BY <1>1, <2>1, FS_Subset
  <2>4. Cardinality(above(y)) \in Nat /\ Cardinality(above(x)) \in Nat
    BY <1>1
  <2>. QED  BY <1>3, <1>4, <2>2, <2>3, <2>4
<1>. QED  BY <1>5

LEMMA GreatestOf ==
  ASSUME NEW T, T \subseteq Nat, IsFiniteSet(T), T # {}
  PROVE  Max(T) \in T /\ \A y \in T : Max(T) >= y
BY Greatest DEF Max

LEMMA PredOf ==
  ASSUME NEW U, U \subseteq Nat, IsFiniteSet(U), U # {}, NEW h \in Nat
  PROVE  /\ Pred(h, U) \in U
         /\ \A p \in U : p < h => Pred(h, U) < h /\ p <= Pred(h, U)
         /\ (\A p \in U : p >= h) => \A p \in U : p <= Pred(h, U)
<1>. DEFINE below == {p \in U : p < h}
<1>1. CASE below = {}
  <2>1. Pred(h, U) = Max(U)
    BY <1>1 DEF Pred
  <2>2. \A p \in U : ~ (p < h)
    BY <1>1
  <2>3. Max(U) \in U /\ \A y \in U : Max(U) >= y
    BY GreatestOf
  <2>. QED  BY <2>1, <2>2, <2>3
<1>2. CASE below # {}
  <2>1. Pred(h, U) = Max(below)
    BY <1>2 DEF Pred
  <2>2. below \in SUBSET U
    OBVIOUS
  <2>3. below # {} /\ below \subseteq U /\ \A p \in U : p < h <=> p \in below
    BY <1>2
  <2>. HIDE DEF below
  <2>4. IsFiniteSet(below) /\ below \subseteq Nat
    BY <2>2, FS_Subset
  <2>5. Max(below) \in below /\ \A y \in below : Max(below) >= y
    BY <2>3, <2>4, GreatestOf
  <2>6. PICK p \in U : p < h
    BY <2>3
  <2>7. ~ \A r \in U : r >= h
    BY <2>6
  <2>. QED  BY <2>1, <2>3, <2>5, <2>7
<1>. QED  BY <1>1, <1>2

\* Before the peer that comes next is the one it comes next to.
LEMMA PredOfSucc ==
  ASSUME NEW U, U \subseteq Nat, IsFiniteSet(U), NEW x \in U
  PROVE  Pred(Succ(x, U), U) = x
<1>. DEFINE s == Succ(x, U)
            r == Pred(s, U)
<1>1. /\ s \in U
      /\ \A p \in U : p > x => x < s /\ s <= p
      /\ (\A p \in U : p <= x) => \A p \in U : s <= p
  BY SuccOf
<1>2. s \in Nat /\ x \in Nat
  BY <1>1
<1>. HIDE DEF s
<1>3. /\ r \in U
      /\ \A p \in U : p < s => r < s /\ p <= r
      /\ (\A p \in U : p >= s) => \A p \in U : p <= r
  BY <1>2, PredOf
<1>. HIDE DEF r
<1>4. r \in Nat
  BY <1>3
<1>5. CASE \A p \in U : p <= x
  <2>1. \A p \in U : p >= s
    BY <1>1, <1>2, <1>5
  <2>2. x <= r /\ r <= x
    BY <1>3, <1>5, <2>1
  <2>. QED  BY <1>2, <1>4, <2>2 DEF r, s
<1>6. CASE ~ \A p \in U : p <= x
  <2>1. PICK p \in U : ~ (p <= x)
    BY <1>6
  <2>2. x < s
    BY <1>1, <1>2, <2>1
  <2>3. r < s /\ x <= r
    BY <1>3, <2>2
  <2>4. ~ (r > x)
    BY <1>1, <1>2, <1>3, <1>4, <2>3
  <2>. QED  BY <1>2, <1>4, <2>3, <2>4 DEF r, s
<1>. QED  BY <1>5, <1>6

\* A hash that is no peer's is in the range that ends at the peer next to it.
LEMMA InOwnRange ==
  ASSUME NEW U, U \subseteq Nat, IsFiniteSet(U), U # {}, NEW h \in Nat, h \notin U
  PROVE  InRange(h, Pred(Succ(h, U), U), Succ(h, U))
<1>. DEFINE s == Succ(h, U)
            r == Pred(s, U)
<1>1. /\ s \in U
      /\ \A p \in U : p > h => h < s /\ s <= p
      /\ (\A p \in U : p <= h) => \A p \in U : s <= p
  BY SuccOf
<1>. HIDE DEF s
<1>2. s \in Nat
  BY <1>1
<1>3. /\ r \in U
      /\ \A p \in U : p < s => r < s /\ p <= r
      /\ (\A p \in U : p >= s) => \A p \in U : p <= r
  BY <1>2, PredOf
<1>. HIDE DEF r
<1>4. r \in Nat /\ r # h /\ s # h
  BY <1>1, <1>3
<1>5. CASE \A p \in U : p <= h
  <2>1. \A p \in U : p >= s
    BY <1>1, <1>2, <1>5
  <2>2. s <= h /\ r <= h /\ s <= r
    BY <1>1, <1>3, <1>5, <2>1
  <2>3. h > s /\ h > r
    BY <1>2, <1>4, <2>2
  <2>. QED  BY <2>3 DEF InRange, s, r
<1>6. CASE ~ \A p \in U : p <= h
  <2>1. PICK p \in U : ~ (p <= h)
    BY <1>6
  <2>2. h < s
    BY <1>1, <2>1
  <2>3. CASE r < s
    <3>1. r <= h
      <4>1. ~ (r > h)
        BY <1>1, <1>2, <1>3, <1>4, <2>3
      <4>. QED  BY <1>4, <4>1
    <3>. QED  BY <1>2, <1>4, <2>2, <3>1 DEF InRange, s, r
  <2>4. CASE ~ (r < s)
    <3>1. h <= r /\ h < s
      BY <1>2, <1>4, <2>2, <2>4
    <3>. QED  BY <3>1 DEF InRange, s, r
  <2>. QED  BY <2>3, <2>4
<1>. QED  BY <1>5, <1>6


\* When a peer is gone the one after it is the next to whoever it was the next to.
LEMMA SuccUnique ==
  ASSUME NEW S, S \subseteq Nat, S # {}, NEW h \in Nat, NEW t \in S,
         \A p \in S : p > h => h < t /\ t <= p,
         (\A p \in S : p <= h) => \A p \in S : t <= p
  PROVE  Succ(h, S) = t
<1>. DEFINE s == Succ(h, S)
<1>1. /\ s \in S
      /\ \A p \in S : p > h => h < s /\ s <= p
      /\ (\A p \in S : p <= h) => \A p \in S : s <= p
  BY SuccOf
<1>. HIDE DEF s
<1>2. s \in Nat /\ t \in Nat
  BY <1>1
<1>3. CASE \A p \in S : p <= h
  <2>1. s <= t /\ t <= s
    BY <1>1, <1>3
  <2>. QED  BY <1>2, <2>1 DEF s
<1>4. CASE ~ \A p \in S : p <= h
  <2>1. PICK p \in S : p > h
    BY <1>4
  <2>2. t > h /\ s > h
    BY <1>1, <1>2, <2>1
  <2>3. s <= t /\ t <= s
    BY <1>1, <2>2
  <2>. QED  BY <1>2, <2>3 DEF s
<1>. QED  BY <1>3, <1>4

LEMMA SuccWithout ==
  ASSUME NEW U, U \subseteq Nat, NEW f \in U, U \ {f} # {}, NEW h \in Nat
  PROVE  /\ Succ(f, U) \in U \ {f}
         /\ Succ(h, U \ {f}) = IF Succ(h, U) = f THEN Succ(f, U) ELSE Succ(h, U)
<1>. DEFINE s == Succ(h, U)
            t == Succ(f, U)
            M == U \ {f}
<1>0. f \in Nat /\ U # {}
  OBVIOUS
<1>1. /\ s \in U
      /\ \A p \in U : p > h => h < s /\ s <= p
      /\ (\A p \in U : p <= h) => \A p \in U : s <= p
  BY SuccOf
<1>2. /\ t \in U
      /\ \A p \in U : p > f => f < t /\ t <= p
      /\ (\A p \in U : p <= f) => \A p \in U : t <= p
  BY <1>0, SuccOf
<1>3. M \subseteq U /\ M \subseteq Nat /\ M # {} /\ f \notin M /\ \A p \in U : p = f \/ p \in M
  OBVIOUS
<1>. HIDE DEF s, t, M
<1>4. s \in Nat /\ t \in Nat
  BY <1>1, <1>2
<1>5. t # f
  <2>1. PICK p \in M : TRUE
    BY <1>3
  <2>2. p \in U /\ p \in Nat /\ p # f
    BY <1>3, <2>1
  <2>3. CASE \A r \in U : r <= f
    <3>1. t <= p /\ p <= f
      BY <1>2, <2>2, <2>3
    <3>. QED  BY <1>0, <1>4, <2>2, <3>1
  <2>4. CASE ~ \A r \in U : r <= f
    <3>1. PICK r \in U : r > f
      BY <1>0, <2>4
    <3>. QED  BY <1>0, <1>2, <1>4, <3>1
  <2>. QED  BY <2>3, <2>4
<1>6. t \in M
  BY <1>2, <1>3, <1>5
<1>7. CASE s # f
  <2>1. s \in M
    BY <1>1, <1>3, <1>7
  <2>2. \A p \in M : p > h => h < s /\ s <= p
    BY <1>1, <1>3
  <2>3. (\A p \in M : p <= h) => \A p \in M : s <= p
    <3>1. SUFFICES ASSUME \A p \in M : p <= h PROVE \A p \in M : s <= p
      OBVIOUS
    <3>2. s <= h
      BY <2>1, <3>1
    <3>3. \A p \in U : p <= h
      <4>1. SUFFICES ASSUME NEW p \in U, ~ (p <= h) PROVE FALSE
        OBVIOUS
      <4>2. p > h
        BY <4>1
      <4>3. h < s
        BY <1>1, <4>2
      <4>. QED  BY <1>4, <3>2, <4>3
    <3>. QED  BY <1>1, <1>3, <3>3
  <2>4. Succ(h, M) = s
    BY <1>3, <2>1, <2>2, <2>3, SuccUnique
  <2>. QED  BY <1>6, <1>7, <2>4 DEF s, t, M
<1>8. CASE s = f
  <2>1. \A p \in M : p > h => h < t /\ t <= p
    <3>1. SUFFICES ASSUME NEW p \in M, p > h PROVE h < t /\ t <= p
      OBVIOUS
    <3>2. h < f /\ f <= p
      BY <1>1, <1>3, <1>8, <3>1
    <3>3. p \in Nat /\ p # f
      BY <1>3
    <3>4. f < t /\ t <= p
      BY <1>0, <1>2, <1>3, <3>2, <3>3
    <3>. QED  BY <1>0, <1>4, <3>2, <3>4
  <2>2. (\A p \in M : p <= h) => \A p \in M : t <= p
    <3>1. SUFFICES ASSUME \A p \in M : p <= h, NEW p \in M PROVE t <= p
      OBVIOUS
    <3>2. p \in Nat /\ p \in U /\ p # f
      BY <1>3
    <3>3. CASE f <= h
      <4>1. \A r \in U : r <= h
        BY <1>3, <3>1, <3>3
      <4>2. f <= p
        BY <1>1, <1>8, <3>2, <4>1
      <4>3. p > f
        BY <1>0, <3>2, <4>2
      <4>. QED  BY <1>2, <3>2, <4>3
    <3>4. CASE ~ (f <= h)
      <4>1. \A r \in U : r <= f
        <5>1. SUFFICES ASSUME NEW r \in U PROVE r <= f
          OBVIOUS
        <5>2. r = f \/ r <= h
          BY <1>3, <3>1
        <5>3. r \in Nat
          OBVIOUS
        <5>. QED  BY <1>0, <3>4, <5>2, <5>3
      <4>. QED  BY <1>2, <3>2, <4>1
    <3>. QED  BY <3>3, <3>4
  <2>3. Succ(h, M) = t
    BY <1>3, <1>6, <2>1, <2>2, SuccUnique
  <2>. QED  BY <1>6, <1>8, <2>3 DEF s, t, M
<1>. QED  BY <1>7, <1>8

\* Peer f of the ring U is gone: the nodes that a file with hash h is routed to then had
\* it, or are sent it by one that had.
RepairedWithout(f, U, h) ==
  LET before == Range(FileRouting(h, U))
      sent == UNION {Receivers(n, h, U \ {f}, {f}) : n \in before \ {f}}
  IN Range(FileRouting(h, U \ {f})) \subseteq before \cup sent

\* Whatever the ring, wherever the file's hash lies between its peers and whichever peer
\* is gone: the nodes the file is routed to then had it, or one that had it is to send it
\* to them.
THEOREM RingRepaired ==
  ASSUME NEW U, U \subseteq Nat, IsFiniteSet(U), Cardinality(U) >= 3,
         NEW f \in U, NEW h \in Nat, h \notin U
  PROVE  RepairedWithout(f, U, h)
<1>. DEFINE M == U \ {f}
            a == Succ(h, U)
            b == Succ(a, U)
            c == Succ(b, U)
            d == Succ(c, U)
            before == Range(FileRouting(h, U))
            sent == UNION {Receivers(n, h, M, {f}) : n \in before \ {f}}
<1>1. U # {} /\ M # {}
  <2>1. U # {}
    OBVIOUS
  <2>2. IsFiniteSet(M) /\ Cardinality(M) = Cardinality(U) - 1 /\ Cardinality(U) \in Nat
    BY FS_RemoveElement, FS_CardinalityType
  <2>. HIDE DEF M
  <2>3. Cardinality(M) # 0
    BY <2>2
  <2>. QED  BY <2>1, <2>3, FS_EmptySet
<1>2. a \in U /\ b \in U /\ c \in U /\ d \in U
  BY <1>1, SuccOf
<1>3. FileRouting(h, U) = <<a, b, c>>
  BY DEF FileRouting
<1>4. a # b /\ a # c /\ b # c
  <2>1. /\ \A k \in 1 .. 2 : Tail(FileRouting(h, U))[k] # FileRouting(h, U)[1]
        /\ Tail(FileRouting(h, U))[1] # Tail(FileRouting(h, U))[2]
    BY RoutingDistinct
  <2>. HIDE DEF a, b, c
  <2>2. Tail(<<a, b, c>>)[1] = b /\ Tail(<<a, b, c>>)[2] = c /\ <<a, b, c>>[1] = a
    OBVIOUS
  <2>3. 1 \in 1 .. 2 /\ 2 \in 1 .. 2
    OBVIOUS
  <2>. QED  BY <1>3, <2>1, <2>2, <2>3
<1>5. \A x, y, z : Range(<<x, y, z>>) = {x, y, z}
  <2>1. SUFFICES ASSUME NEW x, NEW y, NEW z PROVE Range(<<x, y, z>>) = {x, y, z}
    OBVIOUS
  <2>2. DOMAIN <<x, y, z>> = 1 .. 3 /\ \A i \in 1 .. 3 : i = 1 \/ i = 2 \/ i = 3
    OBVIOUS
  <2>3. <<x, y, z>>[1] = x /\ <<x, y, z>>[2] = y /\ <<x, y, z>>[3] = z /\ 1 \in 1 .. 3 /\ 2 \in 1 .. 3 /\ 3 \in 1 .. 3
    OBVIOUS
  <2>. QED  BY <2>2, <2>3 DEF Range
<1>6. before = {a, b, c}
  BY <1>3, <1>5
<1>7. /\ Succ(f, U) \in M
      /\ \A x \in Nat : Succ(x, M) = IF Succ(x, U) = f THEN Succ(f, U) ELSE Succ(x, U)
  BY <1>1, SuccWithout
<1>8. FileRouting(h, M) = <<Succ(h, M), Succ(Succ(h, M), M), Succ(Succ(Succ(h, M), M), M)>>
  BY DEF FileRouting
<1>9. \A x \in U : Pred(Succ(x, U), U) = x
  BY PredOfSucc
<1>10. InRange(h, Pred(a, U), a)
  BY <1>1, InOwnRange
\* What a transfer range of the gone peer means for the file.
<1>11. ASSUME NEW x \in TransferRanges(M, f), x.sender \in {a, b, c} \ {f}, x.from = Pred(a, U), x.to = a,
              x.receiver \in M
       PROVE  x.receiver \in sent
  <2>1. x \in UNION {TransferRanges(M, g) : g \in {f}}
    OBVIOUS
  <2>2. InRange(h, x.from, x.to)
    BY <1>10, <1>11
  <2>. HIDE DEF M, a, b, c, before
  <2>3. x.receiver \in Receivers(x.sender, h, M, {f})
    BY <1>11, <2>1, <2>2 DEF Receivers
  <2>. QED  BY <1>6, <1>11, <2>3
<1>12. M \cup {f} = U
  OBVIOUS
<1>. DEFINE p1 == Pred(f, U)
            p2 == Pred(p1, U)
            p3 == Pred(p2, U)
            n1 == Succ(f, U)
            n2 == Succ(n1, U)
            n3 == Succ(n2, U)
<1>13. TransferRanges(M, f) =
         {[from |-> p3, to |-> p2, sender |-> p1, receiver |-> n1],
          [from |-> p2, to |-> p1, sender |-> p1, receiver |-> n2],
          [from |-> p1, to |-> f,  sender |-> n1, receiver |-> n3]}
  <2>1. PrecedingPeers(M, f) = <<p1, p2, p3>>
    BY <1>12, Zenon DEF PrecedingPeers
  <2>2. SucceedingPeers(M, f) = <<n1, n2, n3>>
    BY <1>12, Zenon DEF SucceedingPeers, FileRouting
  <2>. HIDE DEF p1, p2, p3, n1, n2, n3, M
  <2>. QED  BY <2>1, <2>2 DEF TransferRanges
<1>. SUFFICES Range(FileRouting(h, M)) \subseteq before \cup sent
  BY Zenon DEF RepairedWithout
<1>14. a \in Nat /\ b \in Nat /\ c \in Nat /\ d \in Nat /\ \A x \in U : x \in M \/ x = f
  BY <1>2
<1>15. b = Succ(a, U) /\ c = Succ(b, U) /\ d = Succ(c, U) /\ a = Succ(h, U)
  OBVIOUS
<1>16. p1 = Pred(f, U) /\ p2 = Pred(p1, U) /\ p3 = Pred(p2, U) /\ n1 = Succ(f, U) /\ n2 = Succ(n1, U)
       /\ n3 = Succ(n2, U)
  OBVIOUS
<1>17. Pred(b, U) = a /\ Pred(c, U) = b
  BY <1>2, <1>9
<1>. HIDE DEF M, a, b, c, d, p1, p2, p3, n1, n2, n3, before, sent
<1>18. CASE f \notin {a, b, c}
  <2>1. Succ(h, M) = a /\ Succ(a, M) = b /\ Succ(b, M) = c
    BY <1>7, <1>14, <1>15, <1>18
  <2>. QED  BY <1>5, <1>6, <1>8, <2>1
<1>19. CASE f = a
  <2>1. Succ(h, M) = b /\ Succ(b, M) = c
    BY <1>4, <1>7, <1>14, <1>15, <1>19
  <2>2. Succ(c, M) = IF d = f THEN b ELSE d
    BY <1>7, <1>14, <1>15, <1>19
  <2>3. n1 = b /\ n3 = d /\ p1 = Pred(a, U)
    BY <1>15, <1>16, <1>19
  <2>4. d # f => d \in sent
    <3>. DEFINE x == [from |-> p1, to |-> f,  sender |-> n1, receiver |-> n3]
    <3>1. x \in TransferRanges(M, f)
      BY <1>13
    <3>2. x.from = p1 /\ x.to = f /\ x.sender = n1 /\ x.receiver = n3
      OBVIOUS
    <3>. HIDE DEF x
    <3>. QED  BY <1>2, <1>4, <1>11, <1>14, <1>19, <2>3, <3>1, <3>2
  <2>. QED  BY <1>5, <1>6, <1>8, <2>1, <2>2, <2>4
<1>20. CASE f = b
  <2>1. Succ(h, M) = a /\ Succ(a, M) = c
    BY <1>4, <1>7, <1>14, <1>15, <1>20
  <2>2. Succ(c, M) = IF d = f THEN c ELSE d
    BY <1>7, <1>14, <1>15, <1>20
  <2>3. p1 = a /\ p2 = Pred(a, U) /\ n2 = d
    BY <1>15, <1>16, <1>17, <1>20
  <2>4. d # f => d \in sent
    <3>. DEFINE x == [from |-> p2, to |-> p1, sender |-> p1, receiver |-> n2]
    <3>1. x \in TransferRanges(M, f)
      BY <1>13
    <3>2. x.from = p2 /\ x.to = p1 /\ x.sender = p1 /\ x.receiver = n2
      OBVIOUS
    <3>. HIDE DEF x
    <3>. QED  BY <1>2, <1>4, <1>11, <1>14, <1>20, <2>3, <3>1, <3>2
  <2>. QED  BY <1>5, <1>6, <1>8, <2>1, <2>2, <2>4
<1>21. CASE f = c
  <2>1. Succ(h, M) = a /\ Succ(a, M) = b /\ Succ(b, M) = d
    BY <1>4, <1>7, <1>14, <1>15, <1>21
  <2>2. p1 = b /\ p2 = a /\ p3 = Pred(a, U) /\ n1 = d
    BY <1>15, <1>16, <1>17, <1>21
  <2>3. d \in sent
    <3>. DEFINE x == [from |-> p3, to |-> p2, sender |-> p1, receiver |-> n1]
    <3>1. x \in TransferRanges(M, f)
      BY <1>13
    <3>2. x.from = p3 /\ x.to = p2 /\ x.sender = p1 /\ x.receiver = n1
      OBVIOUS
    <3>3. d \in M
      BY <1>7, <1>16, <2>2
    <3>. HIDE DEF x
    <3>. QED  BY <1>4, <1>11, <1>21, <2>2, <3>1, <3>2, <3>3
  <2>. QED  BY <1>5, <1>6, <1>8, <2>1, <2>3
<1>. QED  BY <1>18, <1>19, <1>20, <1>21


\* What a node has collected are nodes that have left the membership list.
GoneInv == \A s \in Nodes : failed[s] \cap view = {}

LEMMA GoneAreOut == Spec => [](TypeInv /\ GoneInv)
<1>1. Init => GoneInv
  BY DEF Init, GoneInv
<1>2. ASSUME TypeInv, GoneInv, [Next]_vars PROVE GoneInv'
  <2>0. failed \in [Nodes -> SUBSET Nodes]
    BY <1>2 DEF TypeInv, TaskType
  <2>1. CASE UNCHANGED <<failed, view>>
    BY <1>2, <2>1 DEF GoneInv
  <2>2. ASSUME NEW n \in Nodes, Detect(n) PROVE GoneInv'
    BY <1>2, <2>0, <2>2 DEF Detect, GoneInv
  <2>3. ASSUME NEW n \in Nodes, RepairBegin(n) PROVE GoneInv'
    BY <1>2, <2>0, <2>3 DEF RepairBegin, GoneInv
  <2>4. ASSUME NEW q \in Reqs, Write(q) PROVE UNCHANGED <<failed, view>>
    BY <2>4 DEF Write, Send, Check, Log, Call, Return, Acknowledge, failures
  <2>5. ASSUME NEW c \in Reqs \X Slots, Replicate(c) PROVE UNCHANGED <<failed, view>>
    BY <2>5 DEF Replicate, RpcMap, RpcLog, RpcLost, failures
  <2>6. ASSUME NEW n \in Nodes, Flush(n) PROVE UNCHANGED <<failed, view>>
    BY <2>6 DEF Flush, FlushStart, FlushStep, FlushError, FlushEnd, failures
  <2>7. ASSUME NEW n \in Nodes, Merge(n) PROVE UNCHANGED <<failed, view>>
    BY <2>7 DEF Merge, MergeSend, MergeArrive, MergeLock, Overwrite, MergeRemove, MergeOpen, MergeWrite, failures
  <2>8. Read => UNCHANGED <<failed, view>>
    BY DEF Read, ReadStart, ReadLock, ReadOpen, failures
  <2>9. ASSUME NEW n \in Nodes, Crash(n) PROVE UNCHANGED <<failed, view>>
    BY <2>9 DEF Crash
  <2>10. ASSUME NEW n \in Nodes, RepairSend(n) \/ RepairArrive(n) \/ RepairLog(n)
         PROVE  UNCHANGED <<failed, view>>
    BY <2>10 DEF RepairSend, RepairArrive, RepairLog
  <2>11. UNCHANGED vars => UNCHANGED <<failed, view>>
    BY DEF vars, failures
  <2>. QED  BY <1>2, <2>1, <2>2, <2>3, <2>4, <2>5, <2>6, <2>7, <2>8, <2>9, <2>10, <2>11
            DEF Next, Repair
<1>. QED  BY <1>1, <1>2, Types, PTL DEF Spec

\* With one failure a hash between any two peers, if there is one, finds its three
\* nodes repaired, in every state a node that noted the failure may begin to repair in.
THEOREM OneFailureRepaired ==
  ASSUME MaxCrashes <= 1, 0 \notin Nodes, \A p \in Nodes : p + 1 \notin Nodes
  PROVE  Spec => []RepairPlaces
<1>1. ASSUME TypeInv, GoneInv PROVE RepairPlaces
  <2>. DEFINE gone == UNION {failed[s] : s \in live}
              before(h) == Range(FileRouting(h, view \cup gone))
              sent(h) == UNION {Receivers(n, h, view, gone) : n \in before(h) \ gone}
  <2>1. SUFFICES ASSUME gone # {}, NEW h \in {0} \cup {p + 1 : p \in Nodes}
                 PROVE  Range(FileRouting(h, view)) \subseteq before(h) \cup sent(h)
    BY Zenon DEF RepairPlaces
  <2>2. /\ failed \in [Nodes -> SUBSET Nodes] /\ view \subseteq Nodes /\ live \subseteq view
        /\ Cardinality(Nodes \ live) <= MaxCrashes
    BY <1>1 DEF TypeInv, TaskType, NodeType, LiveInv
  <2>3. PICK f \in gone : TRUE
    BY <2>1
  <2>4. gone \subseteq Nodes \ view
    BY <1>1, <2>2 DEF GoneInv
  <2>5. /\ Nodes \subseteq Nat /\ IsFiniteSet(Nodes) /\ Cardinality(Nodes) >= 3
        /\ MaxCrashes \in Nat
    BY HydfsAssumption DEF HydfsAssumption
  <2>6. Nodes \ live = {f}
    <3>. DEFINE D == Nodes \ live
    <3>1. f \in D /\ {f} \in SUBSET D
      BY <2>2, <2>3, <2>4
    <3>2. IsFiniteSet(D)
      BY <2>5, FS_Subset
    <3>3. D \subseteq Nodes /\ Cardinality(D) <= MaxCrashes
      BY <2>2
    <3>. HIDE DEF D
    <3>4. Cardinality(D) \in Nat /\ Cardinality({f}) = 1
      BY <3>2, FS_CardinalityType, FS_Singleton
    <3>5. Cardinality({f}) = Cardinality(D) => {f} = D
      BY <3>1, <3>2, FS_Subset
    <3>6. Cardinality({f}) <= Cardinality(D)
      BY <3>1, <3>2, FS_Subset
    <3>7. D = {f}
      BY <2>5, <3>3, <3>4, <3>5, <3>6
    <3>. QED  BY <3>7 DEF D
  <2>7. gone = {f} /\ view = Nodes \ {f} /\ view \cup gone = Nodes /\ f \in Nodes
    <3>1. f \in Nodes /\ f \notin live
      BY <2>6
    <3>2. gone \subseteq {f} /\ f \in gone
      BY <2>2, <2>3, <2>4, <2>6
    <3>3. \A n \in Nodes : n # f => n \in live
      BY <2>6
    <3>4. f \notin view
      BY <2>3, <2>4
    <3>. HIDE DEF gone
    <3>. QED  BY <2>2, <3>1, <3>2, <3>3, <3>4
  <2>8. h \in Nat /\ h \notin Nodes
    <3>1. \A p \in Nodes : p + 1 \in Nat
      BY <2>5
    <3>. QED  BY <2>1, <3>1
  <2>. HIDE DEF gone
  <2>. DEFINE bef == Range(FileRouting(h, Nodes))
              snt == UNION {Receivers(n, h, Nodes \ {f}, {f}) : n \in bef \ {f}}
  <2>9. Range(FileRouting(h, Nodes \ {f})) \subseteq bef \cup snt
    <3>1. RepairedWithout(f, Nodes, h)
      BY <2>5, <2>7, <2>8, RingRepaired
    <3>. QED  BY <3>1, Zenon DEF RepairedWithout
  <2>10. before(h) = bef
    BY <2>7
  <2>. HIDE DEF before, bef
  <2>11. sent(h) = snt
    BY <2>7, <2>10
  <2>. HIDE DEF sent, snt
  <2>. QED  BY <2>7, <2>9, <2>10, <2>11
<1>. QED  BY <1>1, GoneAreOut, PTL

-----------------------------------------------------------------------------
(***************************************************************************)
(* While no node fails the file is at three nodes, its owner and two       *)
(* backups, and every request, call, read and merge is at these.           *)
(***************************************************************************)
NoCrash == live' = Nodes

\* No merge has been asked for.
NoMerge == \A n \in Nodes : merge[n].n = 0

Backups == Tail(FileRouting(FileHash, Nodes))

CalmInv ==
  /\ live = Nodes /\ view = Nodes
  /\ \A n \in Nodes : failed[n] = {} /\ repair[n].todo = {} /\ repair[n].st = "idle"

PlaceInv ==
  /\ \A q \in Reqs : req[q].at = Owner /\ req[q].to = Backups
  /\ \A c \in Reqs \X Slots : rpc[c].to = Backups[c[2]]
  /\ read.at = Owner
  /\ \A n \in Nodes : merge[n].st # "none" => merge[n].n # 0 /\ n \in {Backups[1], Backups[2]}

\* A read or merge that waits for a log to be merged is the caller of that merge.
CallerInv ==
  \A n \in Nodes :
    /\ flush[n].by = "merge" => merge[n].st = "flush"
    /\ flush[n].by = "read" => n = Owner /\ read.st = "flush"

\* Each entry of a log is a write.
EntryInv ==
  \A n \in Nodes : \A i \in 1 .. Len(log[n]) : \E q \in Reqs : log[n][i] = Entry(q)

\* A replica is called when it is its turn, once, and without errors has logged the
\* write before it is the next one's.
CallInv ==
  /\ \A q \in Reqs, k \in Slots : rpc[<<q, k>>].st # "none" =>
       k < req[q].k \/ (k = req[q].k /\ req[q].st = "wait")
  /\ \A q \in Reqs : req[q].st = "acked" => req[q].k = 3
  /\ \A c \in Reqs \X Slots : rpc[c].st = "lost" => errs # {}
  /\ \A q \in Reqs, k \in Slots : errs = {} /\ k < req[q].k => rpc[<<q, k>>].st = "logged"

QuietInv == TypeInv /\ CalmInv /\ PlaceInv /\ CallerInv /\ EntryInv /\ CallInv

LEMMA Home ==
  /\ Owner \in Nodes /\ Backups[1] \in Nodes /\ Backups[2] \in Nodes
  /\ Len(Backups) = 2 /\ Backups \in Seq(Nodes)
  /\ Backups[1] # Owner /\ Backups[2] # Owner /\ Backups[1] # Backups[2]
<1>1. /\ Nodes \subseteq Nat /\ IsFiniteSet(Nodes) /\ Cardinality(Nodes) >= 3 /\ FileHash \in Nat
  BY HydfsAssumption DEF HydfsAssumption
<1>2. Nodes # {}
  BY <1>1, FS_EmptySet
<1>. DEFINE F == FileRouting(FileHash, Nodes)
<1>3. /\ F[1] \in Nodes /\ Tail(F) \in Seq(Nodes) /\ Len(Tail(F)) = 2
      /\ \A k \in 1 .. 2 : Tail(F)[k] \in Nodes
  BY <1>1, <1>2, RoutingType
<1>4. /\ \A k \in 1 .. 2 : Tail(F)[k] # F[1]
      /\ Tail(F)[1] # Tail(F)[2]
  BY <1>1, RoutingDistinct
<1>5. Owner = F[1] /\ Backups = Tail(F)
  BY DEF Owner, Backups
<1>. HIDE DEF F
<1>6. 1 \in 1 .. 2 /\ 2 \in 1 .. 2
  OBVIOUS
<1>7. Backups[1] \in Nodes /\ Backups[2] \in Nodes /\ Backups[1] # Owner /\ Backups[2] # Owner
  BY <1>3, <1>4, <1>5, <1>6
<1>. QED  BY <1>3, <1>4, <1>5, <1>7

LEMMA Places ==
  ASSUME CalmInv
  PROVE  Primary = Owner /\ Replicas = Backups
BY DEF CalmInv, Primary, Replicas, Routing, Owner, Backups

\* With no crash nothing is ever repaired.
LEMMA CalmStep ==
  ASSUME NoCrash, TypeInv, CalmInv, [Next]_vars
  PROVE  /\ CalmInv'
         /\ \A n \in Nodes : ~ Crash(n) /\ ~ Detect(n) /\ ~ Repair(n)
<1>1. \A n \in Nodes : ~ Crash(n)
  BY DEF Crash, NoCrash
<1>2. \A n \in Nodes : ~ Detect(n)
  BY DEF Detect, CalmInv
<1>3. \A n \in Nodes : ~ Repair(n)
  BY DEF Repair, RepairBegin, RepairSend, RepairArrive, RepairLog, CalmInv
<1>4. UNCHANGED <<live, view, failed, repair>>
  <2>1. \A q \in Reqs : Write(q) => UNCHANGED <<live, view, failed, repair>>
    BY DEF Write, Send, Check, Log, Call, Return, Acknowledge, failures
  <2>2. \A c \in Reqs \X Slots : Replicate(c) => UNCHANGED <<live, view, failed, repair>>
    BY DEF Replicate, RpcMap, RpcLog, RpcLost, failures
  <2>3. \A n \in Nodes : Flush(n) => UNCHANGED <<live, view, failed, repair>>
    BY DEF Flush, FlushStart, FlushStep, FlushError, FlushEnd, failures
  <2>4. \A n \in Nodes : Merge(n) => UNCHANGED <<live, view, failed, repair>>
    BY DEF Merge, MergeSend, MergeArrive, MergeLock, Overwrite, MergeRemove, MergeOpen, MergeWrite, failures
  <2>5. Read => UNCHANGED <<live, view, failed, repair>>
    BY DEF Read, ReadStart, ReadLock, ReadOpen, failures
  <2>6. UNCHANGED vars => UNCHANGED <<live, view, failed, repair>>
    BY DEF vars, failures
  <2>. QED  BY <1>1, <1>2, <1>3, <2>1, <2>2, <2>3, <2>4, <2>5, <2>6 DEF Next
<1>. QED  BY <1>1, <1>2, <1>3, <1>4 DEF CalmInv

\* What a step does, once failures are out of the way.
LEMMA CalmActions ==
  ASSUME NoCrash, TypeInv, CalmInv, [Next]_vars
  PROVE  \/ \E q \in Reqs : Write(q)
         \/ \E c \in Reqs \X Slots : Replicate(c)
         \/ \E n \in Nodes : Flush(n) \/ Merge(n)
         \/ Read
         \/ UNCHANGED vars
BY CalmStep DEF Next

LEMMA TypeStep == ASSUME TypeInv, [Next]_vars PROVE TypeInv'
<1>1. CASE UNCHANGED vars
  BY <1>1 DEF TypeInv, NodeType, CallType, TaskType, LiveInv, TurnInv, FlushInv, vars, disk, failures
<1>. QED
  BY <1>1, WriteTypes, ReplicateTypes, FlushTypes, MergeTypes, FailureTypes, RepairTypes, ReadTypes DEF Next

LEMMA PlaceStep ==
  ASSUME NoCrash, QuietInv, [Next]_vars
  PROVE  PlaceInv'
<1>. USE DEF QuietInv
<1>0. Primary = Owner /\ Replicas = Backups
  BY Places
<1>t. /\ req \in [Reqs -> ReqRec] /\ rpc \in [Reqs \X Slots -> RpcRec]
      /\ read \in ReadRec /\ merge \in [Nodes -> MergeRec]
  BY DEF TypeInv, CallType, TaskType
<1>1. ASSUME NEW q \in Reqs, Write(q) PROVE PlaceInv'
  <2>1. UNCHANGED <<read, merge>>
    BY <1>1 DEF Write, Send, Check, Log, Call, Return, Acknowledge
  <2>2. \A p \in Reqs : req'[p].at = Owner /\ req'[p].to = Backups
    <3>1. CASE Send(q)
      BY <1>0, <3>1, <1>t DEF Send, PlaceInv, ReqRec
    <3>2. CASE Log(q)
      BY <1>0, <3>2, <1>t DEF Log, PlaceInv, ReqRec
    <3>3. CASE Return(q)
      BY <3>3, <1>t DEF Return, PlaceInv, ReqRec
    <3>4. CASE Check(q)
      BY <3>4, <1>t DEF Check, PlaceInv, ReqRec
    <3>5. CASE Call(q)
      BY <3>5, <1>t DEF Call, PlaceInv, ReqRec
    <3>6. CASE Acknowledge(q)
      BY <3>6, <1>t DEF Acknowledge, PlaceInv, ReqRec
    <3>. QED  BY <1>1, <3>1, <3>2, <3>3, <3>4, <3>5, <3>6 DEF Write
  <2>3. \A c \in Reqs \X Slots : rpc'[c].to = Backups[c[2]]
    <3>1. CASE Call(q)
      <4>1. req[q].to = Backups /\ req[q].k \in Slots
        BY <3>1, Home, <1>t DEF Call, PlaceInv, Slots, ReqRec
      <4>2. rpc' = [rpc EXCEPT ![<<q, req[q].k>>] =
                      [st |-> IF req[q].to[req[q].k] \in live THEN "sent" ELSE "lost",
                       to |-> req[q].to[req[q].k]]]
        BY <3>1 DEF Call
      <4>. QED  BY <4>1, <4>2, <1>t DEF PlaceInv
    <3>2. CASE UNCHANGED rpc
      BY <3>2 DEF PlaceInv
    <3>. QED  BY <1>1, <3>1, <3>2 DEF Write, Send, Check, Log, Return, Acknowledge
  <2>. QED  BY <2>1, <2>2, <2>3 DEF PlaceInv
<1>2. ASSUME NEW c \in Reqs \X Slots, Replicate(c) PROVE PlaceInv'
  <2>1. UNCHANGED <<read, merge, req>>
    BY <1>2 DEF Replicate, RpcMap, RpcLog, RpcLost
  <2>2. \A d \in Reqs \X Slots : rpc'[d].to = rpc[d].to
    BY <1>2, <1>t DEF Replicate, RpcMap, RpcLog, RpcLost, RpcRec
  <2>. QED  BY <2>1, <2>2 DEF PlaceInv
<1>3. ASSUME NEW n \in Nodes, Flush(n) PROVE PlaceInv'
  <2>1. UNCHANGED <<rpc, req>>
    BY <1>3 DEF Flush, FlushStart, FlushStep, FlushError, FlushEnd
  <2>2. UNCHANGED <<read, merge>> \/ Resume(n)
    BY <1>3 DEF Flush, FlushStart, FlushStep, FlushError, FlushEnd
  <2>3. read'.at = read.at
    BY <1>t, <2>2 DEF Resume, ReadRec
  <2>4. \A m \in Nodes : merge'[m].n = merge[m].n /\ (merge'[m].st # "none" => merge[m].st # "none")
    <3>1. CASE UNCHANGED merge
      BY <3>1
    <3>2. CASE flush[n].by = "merge" /\ merge' = [merge EXCEPT ![n].st = "write"]
      <4>1. merge[n].st # "none"
        BY <3>2 DEF CallerInv
      <4>. QED  BY <1>t, <3>2, <4>1 DEF MergeRec
    <3>. QED  BY <2>2, <3>1, <3>2 DEF Resume
  <2>. QED  BY <2>1, <2>3, <2>4 DEF PlaceInv
<1>4. ASSUME NEW n \in Nodes, Merge(n) PROVE PlaceInv'
  <2>1. UNCHANGED <<rpc, req, read>>
    BY <1>4, OverwriteForm DEF Merge, MergeSend, MergeArrive, MergeLock
  <2>2. CASE MergeSend(n)
    <3>1. merge'[n].n # 0
      <4>1. merge[n].n \in Nat
        BY <1>t DEF MergeRec
      <4>2. merge'[n].n = merge[n].n + 1
        BY <1>t, <2>2 DEF MergeSend
      <4>. QED  BY <4>1, <4>2
    <3>2. n \in {Backups[1], Backups[2]}
      <4>1. n \in Range(Backups)
        BY <1>0, <2>2 DEF MergeSend
      <4>2. DOMAIN Backups = 1 .. 2
        BY Home, LenProperties
      <4>. QED  BY <4>1, <4>2 DEF Range
    <3>3. \A m \in Nodes : m # n => merge'[m] = merge[m]
      BY <1>t, <2>2 DEF MergeSend
    <3>. QED  BY <2>1, <3>1, <3>2, <3>3 DEF PlaceInv
  <2>3. CASE MergeArrive(n) \/ MergeLock(n)
    <3>1. \A m \in Nodes : m # n => merge'[m] = merge[m]
      BY <1>t, <2>3 DEF MergeArrive, MergeLock
    <3>2. merge[n].st # "none" /\ merge'[n].n = merge[n].n
      BY <1>t, <2>3 DEF MergeArrive, MergeLock, MergeRec
    <3>. QED  BY <2>1, <3>1, <3>2 DEF PlaceInv
  <2>4. CASE Overwrite(n)
    <3>1. merge[n].st # "none"
      BY <2>4, OverwriteForm
    <3>2. PICK st : merge' = [merge EXCEPT ![n].st = st]
      BY <2>4, OverwriteForm
    <3>3. \A m \in Nodes : merge'[m].n = merge[m].n /\ (m # n => merge'[m] = merge[m])
      BY <1>t, <3>2 DEF MergeRec
    <3>. QED  BY <2>1, <3>1, <3>3 DEF PlaceInv
  <2>. QED  BY <1>4, <2>2, <2>3, <2>4 DEF Merge
<1>5. ASSUME Read PROVE PlaceInv'
  <2>1. UNCHANGED <<rpc, req, merge>>
    BY <1>5 DEF Read, ReadStart, ReadLock, ReadOpen
  <2>2. read'.at = Owner
    <3>1. CASE ReadStart
      <4>. DEFINE s == IF NeedsMerge(Primary) THEN "lock" ELSE "open"
                  m == NeedsMerge(Primary)
                  k == read.n + 1
      <4>1. read' = [read EXCEPT !.st = s, !.at = Owner, !.want = Acked, !.n = k, !.first = m]
        BY <1>0, <3>1 DEF ReadStart
      <4>. HIDE DEF s, m, k
      <4>. QED  BY <1>t, <4>1 DEF ReadRec
    <3>2. CASE ReadLock \/ ReadOpen
      BY <1>t, <3>2 DEF ReadLock, ReadOpen, ReadRec, PlaceInv
    <3>. QED  BY <1>5, <3>1, <3>2 DEF Read
  <2>. QED  BY <2>1, <2>2 DEF PlaceInv
<1>6. ASSUME UNCHANGED vars PROVE PlaceInv'
  BY <1>6 DEF PlaceInv, vars
<1>. QED  BY <1>1, <1>2, <1>3, <1>4, <1>5, <1>6, CalmActions

LEMMA CallerStep ==
  ASSUME NoCrash, QuietInv, [Next]_vars
  PROVE  CallerInv'
<1>. USE DEF QuietInv
<1>t. /\ read \in ReadRec /\ merge \in [Nodes -> MergeRec] /\ flush \in [Nodes -> FlushRec]
  BY DEF TypeInv, NodeType, TaskType
<1>1. ASSUME UNCHANGED <<flush, read, merge>> PROVE CallerInv'
  BY <1>1 DEF CallerInv
<1>2. ASSUME NEW q \in Reqs, Write(q) PROVE CallerInv'
  BY <1>1, <1>2 DEF Write, Send, Check, Log, Call, Return, Acknowledge
<1>3. ASSUME NEW c \in Reqs \X Slots, Replicate(c) PROVE CallerInv'
  BY <1>1, <1>3 DEF Replicate, RpcMap, RpcLog, RpcLost
<1>4. ASSUME NEW n \in Nodes, Flush(n) PROVE CallerInv'
  <2>1. CASE FlushStart(n)
    BY <2>1, <1>t DEF FlushStart, CallerInv
  <2>2. CASE FlushStep(n)
    <3>1. \A m \in Nodes : flush'[m].by = flush[m].by
      BY <1>t, <2>2 DEF FlushStep, FlushRec
    <3>. QED  BY <2>2, <3>1 DEF FlushStep, CallerInv
  <2>3. CASE Resume(n)
    <3>1. flush'[n].by = "none" /\ \A m \in Nodes \ {n} : flush'[m] = flush[m] /\ merge'[m] = merge[m]
      BY <1>t, <2>3 DEF Resume, Idle
    <3>2. ASSUME NEW m \in Nodes \ {n}, flush[m].by = "read" PROVE read' = read
      <4>1. m = Owner /\ n # Owner
        BY <3>2 DEF CallerInv
      <4>2. flush[n].by # "read"
        BY <4>1 DEF CallerInv
      <4>. QED  BY <2>3, <4>2 DEF Resume
    <3>. QED  BY <3>1, <3>2 DEF CallerInv
  <2>. QED  BY <1>4, <2>1, <2>2, <2>3 DEF Flush, FlushError, FlushEnd
<1>5. ASSUME NEW n \in Nodes, Merge(n) PROVE CallerInv'
  <2>1. CASE MergeLock(n)
    BY <1>t, <2>1 DEF MergeLock, CallerInv, MergeRec
  <2>2. CASE MergeSend(n) \/ MergeArrive(n) \/ Overwrite(n)
    <3>1. merge[n].st # "flush" /\ UNCHANGED <<flush, read>>
      BY <2>2, OverwriteForm DEF MergeSend, MergeArrive, Merged
    <3>2. \A m \in Nodes \ {n} : merge'[m] = merge[m]
      <4>1. CASE Overwrite(n)
        <5>1. PICK st : merge' = [merge EXCEPT ![n].st = st]
          BY <4>1, OverwriteForm
        <5>. QED  BY <1>t, <5>1
      <4>. QED  BY <1>t, <2>2, <4>1 DEF MergeSend, MergeArrive
    <3>. QED  BY <3>1, <3>2 DEF CallerInv
  <2>. QED  BY <1>5, <2>1, <2>2 DEF Merge
<1>6. ASSUME Read PROVE CallerInv'
  <2>1. CASE ReadLock
    BY <1>t, <2>1 DEF ReadLock, CallerInv, PlaceInv, ReadRec
  <2>2. CASE ReadStart \/ ReadOpen
    BY <2>2 DEF ReadStart, ReadOpen, CallerInv
  <2>. QED  BY <1>6, <2>1, <2>2 DEF Read
<1>. QED  BY <1>1, <1>2, <1>3, <1>4, <1>5, <1>6, CalmActions DEF vars

LEMMA EntryStep ==
  ASSUME NoCrash, QuietInv, [Next]_vars
  PROVE  EntryInv'
<1>. USE DEF QuietInv
<1>t. log \in [Nodes -> Seq(EntryRec)]
  BY DEF TypeInv, NodeType
<1>1. ASSUME NEW n \in Nodes, NEW q \in Reqs, WriteLog(n, Entry(q)) PROVE EntryInv'
  <2>1. log' = [log EXCEPT ![n] = Append(@, Entry(q))] \/ UNCHANGED log
    BY <1>1 DEF WriteLog, Append1
  <2>2. log[n] \in Seq(EntryRec) /\ Entry(q) \in EntryRec
    BY <1>t, EntryTypes
  <2>3. /\ Len(Append(log[n], Entry(q))) = Len(log[n]) + 1
        /\ \A i \in 1 .. Len(log[n]) : Append(log[n], Entry(q))[i] = log[n][i]
        /\ Append(log[n], Entry(q))[Len(log[n]) + 1] = Entry(q)
    BY <2>2, AppendProperties
  <2>4. Len(log[n]) \in Nat
    BY <2>2, LenProperties
  <2>5. \A i \in 1 .. Len(log[n]) + 1 : i \in 1 .. Len(log[n]) \/ i = Len(log[n]) + 1
    BY <2>4
  <2>6. \A i \in 1 .. Len(Append(log[n], Entry(q))) : \E p \in Reqs : Append(log[n], Entry(q))[i] = Entry(p)
    BY <2>3, <2>5 DEF EntryInv
  <2>7. CASE log' = [log EXCEPT ![n] = Append(@, Entry(q))]
    <3>1. log'[n] = Append(log[n], Entry(q)) /\ \A m \in Nodes \ {n} : log'[m] = log[m]
      BY <1>t, <2>7
    <3>2. \A i \in 1 .. Len(log'[n]) : \E p \in Reqs : log'[n][i] = Entry(p)
      BY <2>6, <3>1
    <3>3. \A m \in Nodes \ {n} : \A i \in 1 .. Len(log'[m]) : \E p \in Reqs : log'[m][i] = Entry(p)
      BY <3>1 DEF EntryInv
    <3>. QED  BY <3>2, <3>3 DEF EntryInv, Entry
  <2>. QED  BY <2>1, <2>7 DEF EntryInv
<1>2. ASSUME UNCHANGED log PROVE EntryInv'
  BY <1>2 DEF EntryInv
<1>3. ASSUME NEW q \in Reqs, Write(q) PROVE EntryInv'
  <2>1. CASE Log(q)
    <3>1. req[q].at \in Nodes
      BY DEF TypeInv, CallType, ReqRec
    <3>. QED  BY <1>1, <2>1, <3>1 DEF Log
  <2>. QED  BY <1>2, <1>3, <2>1 DEF Write, Send, Check, Call, Return, Acknowledge, disk
<1>4. ASSUME NEW c \in Reqs \X Slots, Replicate(c) PROVE EntryInv'
  <2>1. CASE RpcLog(c)
    <3>1. rpc[c].to \in Nodes /\ c[1] \in Reqs
      BY DEF TypeInv, CallType, RpcRec
    <3>. QED  BY <1>1, <2>1, <3>1 DEF RpcLog
  <2>. QED  BY <1>2, <1>4, <2>1 DEF Replicate, RpcMap, RpcLost, disk
<1>5. ASSUME NEW n \in Nodes, Flush(n) PROVE EntryInv'
  <2>1. UNCHANGED log \/ log' = [log EXCEPT ![n] = <<>>]
    BY <1>5 DEF Flush, FlushStart, FlushStep, FlushError, FlushEnd, ClearLog, disk
  <2>2. 1 .. Len(<<>>) = {}
    OBVIOUS
  <2>. QED  BY <1>2, <1>t, <2>1, <2>2 DEF EntryInv
<1>6. ASSUME NEW n \in Nodes, Merge(n) PROVE EntryInv'
  BY <1>2, <1>6 DEF Merge, MergeSend, MergeArrive, MergeLock, Overwrite, MergeRemove, MergeOpen, MergeWrite, disk
<1>7. ASSUME Read PROVE EntryInv'
  BY <1>2, <1>7 DEF Read, ReadStart, ReadLock, ReadOpen, disk
<1>. QED  BY <1>2, <1>3, <1>4, <1>5, <1>6, <1>7, CalmActions DEF vars, disk

\* Errors are not forgotten.
LEMMA ErrsGrow ==
  ASSUME NoCrash, TypeInv, CalmInv, [Next]_vars
  PROVE  errs \subseteq errs'
<1>1. \A kind : Fault(kind) \/ NoFault => errs \subseteq errs'
  BY DEF Fault, NoFault
<1>2. ASSUME NEW q \in Reqs, Write(q) PROVE errs \subseteq errs'
  BY <1>1, <1>2 DEF Write, Send, Check, Log, Call, Return, Acknowledge, WriteLog
<1>3. ASSUME NEW c \in Reqs \X Slots, Replicate(c) PROVE errs \subseteq errs'
  BY <1>1, <1>3 DEF Replicate, RpcMap, RpcLog, RpcLost, WriteLog
<1>4. ASSUME NEW n \in Nodes, Flush(n) PROVE errs \subseteq errs'
  BY <1>1, <1>4 DEF Flush, FlushStart, FlushStep, FlushError, FlushEnd
<1>5. ASSUME NEW n \in Nodes, Merge(n) PROVE errs \subseteq errs'
  BY <1>1, <1>5, OverwriteForm DEF Merge, MergeSend, MergeArrive, MergeLock
<1>6. ASSUME Read PROVE errs \subseteq errs'
  BY <1>6 DEF Read, ReadStart, ReadLock, ReadOpen
<1>. QED  BY <1>2, <1>3, <1>4, <1>5, <1>6, CalmActions DEF vars

LEMMA CallStep ==
  ASSUME NoCrash, QuietInv, [Next]_vars
  PROVE  CallInv'
<1>. USE DEF QuietInv
<1>t. /\ req \in [Reqs -> ReqRec] /\ rpc \in [Reqs \X Slots -> RpcRec]
      /\ \A q \in Reqs : req[q].k \in 1 .. 3 /\ req[q].to = Backups
  BY DEF TypeInv, CallType, PlaceInv, ReqRec
<1>e. errs \subseteq errs'
  BY ErrsGrow
<1>1. ASSUME UNCHANGED <<req, rpc>> PROVE CallInv'
  BY <1>1, <1>e DEF CallInv
<1>2. ASSUME NEW q \in Reqs, Write(q) PROVE CallInv'
  <2>1. CASE Send(q)
    <3>1. /\ UNCHANGED <<rpc, errs>> /\ req[q].st = "new" /\ req'[q].st \in {"sent", "failed"} /\ req'[q].k = req[q].k
          /\ \A p \in Reqs \ {q} : req'[p] = req[p]
      BY <1>t, <2>1 DEF Send, ReqRec
    <3>. QED  BY <3>1 DEF CallInv
  <2>2. CASE Check(q) \/ Log(q)
    <3>1. /\ UNCHANGED rpc /\ req[q].st \in {"sent", "mapped"}
          /\ req'[q].st \in {"refused", "mapped", "call"} /\ req'[q].k = req[q].k
          /\ \A p \in Reqs \ {q} : req'[p] = req[p]
      BY <1>t, <2>2 DEF Check, Log, ReqRec
    <3>. QED  BY <1>e, <3>1 DEF CallInv
  <2>3. CASE Call(q)
    <3>. DEFINE k == req[q].k
    <3>1. k \in Slots /\ Backups[k] \in live
      BY <1>t, <2>3, Home DEF Call, CalmInv, Slots
    <3>2. rpc' = [rpc EXCEPT ![<<q, k>>] = [st |-> "sent", to |-> Backups[k]]]
      <4>1. req[q].to = Backups
        BY <1>t
      <4>2. rpc' = [rpc EXCEPT ![<<q, k>>] =
                      [st |-> IF req[q].to[k] \in live THEN "sent" ELSE "lost", to |-> req[q].to[k]]]
        BY <2>3 DEF Call
      <4>. QED  BY <3>1, <4>1, <4>2
    <3>3. UNCHANGED errs /\ req[q].st = "call" /\ req'[q].st = "wait" /\ req'[q].k = k
          /\ \A p \in Reqs \ {q} : req'[p] = req[p]
      BY <1>t, <2>3 DEF Call, ReqRec
    <3>. HIDE DEF k
    <3>4. <<q, k>> \in Reqs \X Slots /\ rpc'[<<q, k>>].st = "sent" /\ \A c \in Reqs \X Slots : c # <<q, k>> => rpc'[c] = rpc[c]
      BY <1>t, <3>1, <3>2
    <3>5. k \in 1 .. 3 /\ k = req[q].k
      BY <1>t DEF k
    <3>6. \A p \in Reqs, j \in Slots : rpc'[<<p, j>>].st # "none" =>
            j < req'[p].k \/ (j = req'[p].k /\ req'[p].st = "wait")
      <4>1. ASSUME NEW j \in Slots, j # k, rpc[<<q, j>>].st # "none" PROVE j < k
        BY <3>3, <3>5, <4>1 DEF CallInv
      <4>2. \A j \in Slots : rpc'[<<q, j>>].st # "none" => j < k \/ j = k
        BY <3>4, <4>1
      <4>3. \A p \in Reqs \ {q}, j \in Slots : rpc'[<<p, j>>] = rpc[<<p, j>>]
        BY <3>4
      <4>. QED  BY <3>3, <4>2, <4>3 DEF CallInv
    <3>7. \A p \in Reqs : req'[p].st = "acked" => req'[p].k = 3
      BY <3>3 DEF CallInv
    <3>8. \A c \in Reqs \X Slots : rpc'[c].st = "lost" => errs' # {}
      BY <3>3, <3>4 DEF CallInv
    <3>9. \A p \in Reqs, j \in Slots : errs' = {} /\ j < req'[p].k => rpc'[<<p, j>>].st = "logged"
      <4>1. \A j \in Slots : j < k => rpc'[<<q, j>>] = rpc[<<q, j>>]
        <5>1. \A j \in Slots : j < k => j # k
          BY <3>1 DEF Slots
        <5>. QED  BY <3>4, <5>1
      <4>2. \A p \in Reqs \ {q}, j \in Slots : rpc'[<<p, j>>] = rpc[<<p, j>>]
        BY <3>4
      <4>. QED  BY <3>3, <3>5, <4>1, <4>2 DEF CallInv
    <3>. QED  BY <3>6, <3>7, <3>8, <3>9 DEF CallInv
  <2>4. CASE Return(q)
    <3>. DEFINE k == req[q].k
    <3>1. k \in 1 .. 2
      BY <1>t, <2>4 DEF Return, TypeInv, TurnInv
    <3>2. UNCHANGED rpc /\ req[q].st = "wait" /\ req'[q].st = "call" /\ req'[q].k = k + 1
          /\ \A p \in Reqs \ {q} : req'[p] = req[p]
      <4>1. UNCHANGED rpc /\ req[q].st = "wait" /\ req' = [req EXCEPT ![q].st = "call", ![q].k = @ + 1]
        BY <2>4 DEF Return
      <4>. HIDE DEF k
      <4>2. req' = [req EXCEPT ![q] = [@ EXCEPT !.st = "call", !.k = @ + 1]]
        BY <1>t, <4>1 DEF ReqRec
      <4>. QED  BY <1>t, <4>1, <4>2 DEF ReqRec, k
    <3>3. errs' = {} => rpc[<<q, k>>].st = "logged"
      <4>1. rpc[<<q, k>>].st \in {"logged", "lost"} \/ errs' # {}
        BY <2>4 DEF Return, Fault
      <4>2. rpc[<<q, k>>].st = "lost" => errs # {}
        BY <3>1 DEF CallInv, Slots
      <4>. QED  BY <1>e, <4>1, <4>2
    <3>. HIDE DEF k
    <3>5. k = req[q].k
      BY DEF k
    <3>6. \A p \in Reqs, j \in Slots : rpc'[<<p, j>>].st # "none" =>
            j < req'[p].k \/ (j = req'[p].k /\ req'[p].st = "wait")
      <4>1. \A j \in Slots : rpc[<<q, j>>].st # "none" => j < k + 1
        <5>1. ASSUME NEW j \in Slots, rpc[<<q, j>>].st # "none" PROVE j < k \/ j = k
          BY <3>5, <5>1 DEF CallInv
        <5>2. \A j \in Slots : j < k \/ j = k => j < k + 1
          BY <3>1 DEF Slots
        <5>. QED  BY <5>1, <5>2
      <4>. QED  BY <3>2, <4>1 DEF CallInv
    <3>7. \A p \in Reqs : req'[p].st = "acked" => req'[p].k = 3
      BY <3>2 DEF CallInv
    <3>8. \A c \in Reqs \X Slots : rpc'[c].st = "lost" => errs' # {}
      BY <1>e, <3>2 DEF CallInv
    <3>9. \A p \in Reqs, j \in Slots : errs' = {} /\ j < req'[p].k => rpc'[<<p, j>>].st = "logged"
      <4>1. ASSUME NEW j \in Slots, errs' = {}, j < k + 1 PROVE rpc[<<q, j>>].st = "logged"
        <5>1. j = k \/ j < k
          BY <3>1, <4>1 DEF Slots
        <5>. QED  BY <1>e, <3>3, <3>5, <4>1, <5>1 DEF CallInv
      <4>2. ASSUME NEW p \in Reqs \ {q}, NEW j \in Slots, errs' = {}, j < req'[p].k
            PROVE  rpc'[<<p, j>>].st = "logged"
        BY <1>e, <3>2, <4>2 DEF CallInv
      <4>3. ASSUME NEW j \in Slots, errs' = {}, j < req'[q].k PROVE rpc'[<<q, j>>].st = "logged"
        BY <3>2, <4>1, <4>3
      <4>. QED  BY <4>2, <4>3
    <3>. QED  BY <3>6, <3>7, <3>8, <3>9 DEF CallInv
  <2>5. CASE Acknowledge(q)
    <3>1. /\ UNCHANGED <<rpc, errs>> /\ req[q].st = "call" /\ req'[q].st = "acked" /\ req'[q].k = req[q].k
          /\ \A p \in Reqs \ {q} : req'[p] = req[p]
      BY <1>t, <2>5 DEF Acknowledge, ReqRec
    <3>2. req[q].k = 3
      <4>1. req[q].k > 2 /\ req[q].k \in 1 .. 3
        <5>1. req[q].k > Len(req[q].to)
          BY <2>5 DEF Acknowledge
        <5>. QED  BY <1>t, <5>1, Home
      <4>. QED  BY <4>1
    <3>. QED  BY <3>1, <3>2 DEF CallInv
  <2>. QED  BY <1>2, <2>1, <2>2, <2>3, <2>4, <2>5 DEF Write
<1>3. ASSUME NEW c \in Reqs \X Slots, Replicate(c) PROVE CallInv'
  <2>1. UNCHANGED req /\ rpc[c].st \in {"sent", "mapped"} /\ rpc'[c].st \in {"mapped", "logged", "lost"}
        /\ \A d \in Reqs \X Slots : d # c => rpc'[d] = rpc[d]
    BY <1>t, <1>3 DEF Replicate, RpcMap, RpcLog, RpcLost, RpcRec
  <2>2. rpc'[c].st = "lost" => errs' # {}
    BY <1>t, <1>3 DEF Replicate, RpcMap, RpcLog, RpcLost, RpcRec, Fault
  <2>3. PICK q \in Reqs, k \in Slots : c = <<q, k>>
    OBVIOUS
  <2>4. \A p \in Reqs, j \in Slots : rpc'[<<p, j>>].st # "none" =>
          j < req'[p].k \/ (j = req'[p].k /\ req'[p].st = "wait")
    BY <2>1, <2>3 DEF CallInv
  <2>5. \A p \in Reqs : req'[p].st = "acked" => req'[p].k = 3
    BY <2>1 DEF CallInv
  <2>6. \A d \in Reqs \X Slots : rpc'[d].st = "lost" => errs' # {}
    BY <1>e, <2>1, <2>2 DEF CallInv
  <2>7. \A p \in Reqs, j \in Slots : errs' = {} /\ j < req'[p].k => rpc'[<<p, j>>].st = "logged"
    BY <1>e, <2>1, <2>3 DEF CallInv
  <2>. QED  BY <2>4, <2>5, <2>6, <2>7 DEF CallInv
<1>4. ASSUME NEW n \in Nodes, Flush(n) PROVE CallInv'
  BY <1>1, <1>4 DEF Flush, FlushStart, FlushStep, FlushError, FlushEnd
<1>5. ASSUME NEW n \in Nodes, Merge(n) PROVE CallInv'
  BY <1>1, <1>5 DEF Merge, MergeSend, MergeArrive, MergeLock, Overwrite, MergeRemove, MergeOpen, MergeWrite
<1>6. ASSUME Read PROVE CallInv'
  BY <1>1, <1>6 DEF Read, ReadStart, ReadLock, ReadOpen
<1>. QED  BY <1>1, <1>2, <1>3, <1>4, <1>5, <1>6, CalmActions DEF vars

LEMMA QuietInit == Init => QuietInv
<1>. SUFFICES ASSUME Init PROVE QuietInv
  OBVIOUS
<1>1. TypeInv
  BY InitTypes
<1>2. CalmInv
  BY DEF Init, CalmInv
<1>3. Primary = Owner /\ Replicas = Backups
  BY <1>2, Places
<1>4. PlaceInv
  BY <1>3 DEF Init, PlaceInv
<1>5. CallerInv
  BY DEF Init, CallerInv, Idle
<1>6. EntryInv
  <2>1. \A n \in Nodes : 1 .. Len(log[n]) = {}
    BY DEF Init
  <2>. QED  BY <2>1 DEF EntryInv
<1>7. CallInv
  BY DEF Init, CallInv, Slots
<1>. QED  BY <1>1, <1>2, <1>4, <1>5, <1>6, <1>7 DEF QuietInv

LEMMA QuietStep ==
  ASSUME NoCrash, QuietInv, [Next]_vars
  PROVE  QuietInv'
BY TypeStep, CalmStep, PlaceStep, CallerStep, EntryStep, CallStep DEF QuietInv


-----------------------------------------------------------------------------
(***************************************************************************)
(* What a copy will hold: the file, then the writes still in the log.      *)
(***************************************************************************)
Writes(l) == [i \in 1 .. Len(l) |-> l[i].data[1]]
OfWrites(l) == l \in Seq(EntryRec) /\ \A i \in 1 .. Len(l) : \E q \in Reqs : l[i] = Entry(q)

LEMMA Associative == \A f, u, t \in Seq(Reqs) : f \o (u \o t) = (f \o u) \o t
<1>1. ASSUME NEW f \in Seq(Reqs), NEW u \in Seq(Reqs), NEW t \in Seq(Reqs)
      PROVE  (f \o u) \o t = f \o (u \o t)
  BY ConcatAssociative
<1>. QED  BY <1>1

LEMMA WritesType ==
  ASSUME NEW l, OfWrites(l)
  PROVE  /\ Writes(l) \in Seq(Reqs) /\ Len(Writes(l)) = Len(l) /\ Len(l) \in Nat
         /\ \A i \in 1 .. Len(l) : l[i].kind = "append" /\ l[i].data = <<Writes(l)[i]>>
<1>1. Len(l) \in Nat
  BY LenProperties DEF OfWrites
<1>2. ASSUME NEW i \in 1 .. Len(l)
      PROVE  l[i].data[1] \in Reqs /\ l[i].kind = "append" /\ l[i].data = <<l[i].data[1]>>
  <2>1. PICK q \in Reqs : l[i] = Entry(q)
    BY DEF OfWrites
  <2>. QED  BY <2>1 DEF Entry
<1>3. Writes(l) \in [1 .. Len(l) -> Reqs]
  BY <1>2 DEF Writes
<1>4. Writes(l) \in Seq(Reqs)
  BY <1>1, <1>3, SeqDef
<1>5. Len(Writes(l)) = Len(l)
  BY <1>1, <1>3, <1>4, LenProperties
<1>. QED  BY <1>1, <1>2, <1>4, <1>5 DEF Writes

\* Merging a log, whole or from its k-th entry on, appends its writes to the file.
LEMMA MergedLog ==
  ASSUME NEW f \in Seq(Reqs), NEW l, OfWrites(l)
  PROVE  FoldLeft(Apply, f, l) = f \o Writes(l)
<1>. DEFINE w == Writes(l)
            n == Len(l)
            h == [k \in 0 .. n |-> f \o SubSeq(w, 1, k)]
<1>1. /\ w \in Seq(Reqs) /\ Len(w) = n /\ n \in Nat
      /\ \A i \in 1 .. n : l[i].kind = "append" /\ l[i].data = <<w[i]>>
  BY WritesType
<1>2. l \in Seq(EntryRec)
  BY DEF OfWrites
<1>. HIDE DEF w
<1>3. h[0] = f
  <2>1. SubSeq(w, 1, 0) = <<>>
    BY SubSeqEmpty
  <2>. QED  BY <1>1, <2>1, ConcatEmptySeq
<1>4. ASSUME NEW k \in 1 .. n PROVE h[k] = Apply(h[k - 1], l[k])
  <2>1. SubSeq(w, 1, k) = SubSeq(w, 1, k - 1) \o <<w[k]>>
    <3>1. 1 \in 1 .. Len(w) /\ k \in 1 .. Len(w)
      BY <1>1
    <3>. QED  BY <1>1, <3>1, SubSeqRecursiveSecond
  <2>2. SubSeq(w, 1, k - 1) \in Seq(Reqs)
    <3>1. \A i \in 1 .. k - 1 : w[i] \in Reqs
      BY <1>1, ElementOfSeq
    <3>. QED  BY <1>1, <3>1, SubSeqProperties
  <2>3. <<w[k]>> \in Seq(Reqs)
    <3>1. w[k] \in Reqs
      BY <1>1, ElementOfSeq
    <3>. QED  BY <3>1
  <2>4. f \o (SubSeq(w, 1, k - 1) \o <<w[k]>>) = (f \o SubSeq(w, 1, k - 1)) \o <<w[k]>>
    BY <2>2, <2>3, ConcatAssociative
  <2>5. h[k] = h[k - 1] \o <<w[k]>>
    <3>1. k \in 0 .. n /\ k - 1 \in 0 .. n
      BY <1>1
    <3>2. h[k] = f \o SubSeq(w, 1, k) /\ h[k - 1] = f \o SubSeq(w, 1, k - 1)
      BY <3>1
    <3>. QED  BY <2>1, <2>4, <3>2
  <2>6. l[k].kind = "append" /\ l[k].data = <<w[k]>>
    BY <1>1
  <2>. HIDE DEF h
  <2>. QED  BY <2>5, <2>6 DEF Apply
<1>. HIDE DEF h
<1>5. FoldLeft(Apply, f, l) = h[n]
  BY <1>2, <1>3, <1>4, FoldIs
<1>6. h[n] = f \o w
  <2>1. SubSeq(w, 1, n) = w
    BY <1>1, SubSeqFull
  <2>2. n \in 0 .. n
    BY <1>1
  <2>3. h[n] = f \o SubSeq(w, 1, n)
    BY <2>2 DEF h
  <2>. QED  BY <2>1, <2>3
<1>. QED  BY <1>5, <1>6 DEF w

LEMMA MergedFrom ==
  ASSUME NEW f \in Seq(Reqs), NEW l, OfWrites(l), NEW k \in 1 .. Len(l) + 1
  PROVE  /\ FoldLeft(Apply, f, SubSeq(l, k, Len(l))) = f \o SubSeq(Writes(l), k, Len(l))
         /\ SubSeq(Writes(l), k, Len(l)) \in Seq(Reqs)
<1>. DEFINE u == SubSeq(l, k, Len(l))
            v == SubSeq(Writes(l), k, Len(l))
<1>1. /\ Writes(l) \in Seq(Reqs) /\ Len(Writes(l)) = Len(l) /\ Len(l) \in Nat
  BY WritesType
<1>2. \A i \in k .. Len(l) : l[i] \in EntryRec /\ Writes(l)[i] \in Reqs
  BY <1>1, ElementOfSeq DEF OfWrites
<1>3. /\ u \in Seq(EntryRec) /\ Len(u) = Len(l) - k + 1
      /\ \A i \in 1 .. Len(l) - k + 1 : u[i] = l[k + i - 1]
  BY <1>1, <1>2, SubSeqProperties
<1>4. /\ v \in Seq(Reqs) /\ Len(v) = Len(l) - k + 1
      /\ \A i \in 1 .. Len(l) - k + 1 : v[i] = Writes(l)[k + i - 1]
  BY <1>1, <1>2, SubSeqProperties
<1>. HIDE DEF u, v
<1>5. \A i \in 1 .. Len(u) : k + i - 1 \in 1 .. Len(l)
  BY <1>1, <1>3
<1>6. OfWrites(u)
  BY <1>1, <1>3, <1>5 DEF OfWrites
<1>7. Writes(u) = v
  <2>1. \A i \in 1 .. Len(u) : Writes(u)[i] = v[i]
    BY <1>1, <1>3, <1>4, <1>5 DEF Writes
  <2>2. Writes(u) \in Seq(Reqs) /\ Len(Writes(u)) = Len(u)
    BY <1>6, WritesType
  <2>. QED  BY <1>3, <1>4, <2>1, <2>2, SeqEqual
<1>8. FoldLeft(Apply, f, u) = f \o v
  BY <1>6, <1>7, MergedLog
<1>. QED  BY <1>4, <1>8 DEF u, v

\* The same of the log of a node, before and after a step.
From(n) == IF flush[n] = Idle THEN 1 ELSE flush[n].i

LEMMA ContentIs ==
  ASSUME QuietInv, NEW n \in Nodes
  PROVE  /\ OfWrites(log[n]) /\ From(n) \in 1 .. Len(log[n]) + 1
         /\ Content(n) = file[n] \o SubSeq(Writes(log[n]), From(n), Len(log[n]))
         /\ SubSeq(Writes(log[n]), From(n), Len(log[n])) \in Seq(Reqs)
         /\ file[n] \in Seq(Reqs)
<1>1. log[n] \in Seq(EntryRec) /\ file[n] \in Seq(Reqs)
  BY DEF QuietInv, TypeInv, NodeType
<1>2. OfWrites(log[n])
  BY <1>1 DEF QuietInv, EntryInv, OfWrites
<1>3. Len(log[n]) \in Nat
  BY <1>1, LenProperties
<1>4. From(n) \in 1 .. Len(log[n]) + 1
  BY <1>3 DEF From, QuietInv, TypeInv, FlushInv
<1>5. Content(n) = FoldLeft(Apply, file[n], SubSeq(log[n], From(n), Len(log[n])))
  BY DEF Content, Unmerged, From
<1>. QED  BY <1>1, <1>2, <1>4, <1>5, MergedFrom

LEMMA ContentIsNext ==
  ASSUME QuietInv', NEW n \in Nodes
  PROVE  /\ OfWrites(log'[n]) /\ From(n)' \in 1 .. Len(log'[n]) + 1
         /\ Content(n)' = file'[n] \o SubSeq(Writes(log'[n]), From(n)', Len(log'[n]))
         /\ SubSeq(Writes(log'[n]), From(n)', Len(log'[n])) \in Seq(Reqs)
         /\ file'[n] \in Seq(Reqs)
<1>1. log'[n] \in Seq(EntryRec) /\ file'[n] \in Seq(Reqs)
  BY DEF QuietInv, TypeInv, NodeType
<1>2. OfWrites(log'[n])
  BY <1>1 DEF QuietInv, EntryInv, OfWrites, Entry
<1>3. Len(log'[n]) \in Nat
  BY <1>1, LenProperties
<1>4. From(n)' \in 1 .. Len(log'[n]) + 1
  BY <1>3 DEF From, QuietInv, TypeInv, FlushInv, Idle
<1>5. Content(n)' = FoldLeft(Apply, file'[n], SubSeq(log'[n], From(n)', Len(log'[n])))
  BY DEF Content, Unmerged, From, Idle
<1>. QED  BY <1>1, <1>2, <1>4, <1>5, MergedFrom

-----------------------------------------------------------------------------
(***************************************************************************)
(* What a step does to the content of a copy, and to the writes that are   *)
(* to be in it: those the node has logged, as far as it knows.             *)
(***************************************************************************)
Logged(n) ==
  {q \in Reqs : \/ n = Owner /\ req[q].st \in {"call", "wait", "acked"}
                \/ \E k \in Slots : n = Backups[k] /\ rpc[<<q, k>>].st = "logged"}

Kept(n) == Content(n)' = Content(n) /\ Logged(n)' = Logged(n)
Accepted(n) ==
  \E q \in Reqs \ Logged(n) :
    Content(n)' = Append(Content(n), q) /\ Logged(n)' = Logged(n) \cup {q}
NotLogged(n) ==
  /\ "log" \in errs' /\ Content(n)' = Content(n)
  /\ \E q \in Reqs : Logged(n)' = Logged(n) \cup {q}
NotWritten(n) ==
  /\ "write" \in errs' /\ Logged(n)' = Logged(n)
  /\ \E f, v \in Seq(Reqs), q \in Reqs :
       Content(n) = f \o (<<q>> \o v) /\ Content(n)' = f \o v
MergedAgain(n) ==
  /\ "flush" \in errs' /\ Logged(n)' = Logged(n)
  /\ \E f, v, w \in Seq(Reqs) :
       Content(n) = f \o v /\ Content(n)' = f \o w /\ Range(v) \subseteq Range(w)

LEMMA SameContent ==
  ASSUME NEW n \in Nodes, file'[n] = file[n], log'[n] = log[n], From(n)' = From(n)
  PROVE  Content(n)' = Content(n)
<1>1. Content(n)' = FoldLeft(Apply, file'[n], SubSeq(log'[n], From(n)', Len(log'[n])))
  BY DEF Content, Unmerged, From, Idle
<1>2. Content(n) = FoldLeft(Apply, file[n], SubSeq(log[n], From(n), Len(log[n])))
  BY DEF Content, Unmerged, From, Idle
<1>. QED  BY <1>1, <1>2

LEMMA SameWhere ==
  ASSUME UNCHANGED <<file, log, flush>>
  PROVE  \A n \in Nodes : Content(n)' = Content(n)
<1>1. \A n \in Nodes : From(n)' = From(n)
  BY DEF From, Idle
<1>. QED  BY <1>1, SameContent

\* A write to the log of a node is the last of its content.
LEMMA AppendedContent ==
  ASSUME QuietInv, QuietInv', NEW n \in Nodes, NEW q \in Reqs, WriteLog(n, Entry(q)),
         UNCHANGED <<file, flush>>
  PROVE  /\ \A m \in Nodes \ {n} : Content(m)' = Content(m)
         /\ \/ Content(n)' = Append(Content(n), q)
            \/ Content(n)' = Content(n) /\ "log" \in errs'
<1>1. log \in [Nodes -> Seq(EntryRec)]
  BY DEF QuietInv, TypeInv, NodeType
<1>2. \/ log' = [log EXCEPT ![n] = Append(@, Entry(q))]
      \/ UNCHANGED log /\ "log" \in errs'
  BY DEF WriteLog, Append1, Fault
<1>3. \A m \in Nodes : From(m)' = From(m)
  BY DEF From, Idle
<1>4. \A m \in Nodes \ {n} : Content(m)' = Content(m)
  <2>1. \A m \in Nodes \ {n} : log'[m] = log[m]
    BY <1>1, <1>2
  <2>. QED  BY <1>3, <2>1, SameContent
<1>5. CASE UNCHANGED log /\ "log" \in errs'
  BY <1>3, <1>4, <1>5, SameContent
<1>6. CASE log' = [log EXCEPT ![n] = Append(@, Entry(q))]
  <2>. DEFINE w == Writes(log[n])
              x == Writes(log'[n])
  <2>1. log'[n] = Append(log[n], Entry(q)) /\ From(n) = 1 /\ From(n)' = 1
    BY <1>1, <1>3, <1>6 DEF WriteLog, LogFree, From
  <2>2. /\ Content(n) = file[n] \o SubSeq(w, 1, Len(log[n]))
        /\ OfWrites(log[n]) /\ file[n] \in Seq(Reqs)
    BY <2>1, ContentIs
  <2>3. /\ Content(n)' = file[n] \o SubSeq(x, 1, Len(log'[n]))
        /\ OfWrites(log'[n])
    BY <2>1, ContentIsNext
  <2>4. w \in Seq(Reqs) /\ Len(w) = Len(log[n]) /\ Len(w) \in Nat
    BY <2>2, WritesType
  <2>5. x \in Seq(Reqs) /\ Len(x) = Len(log'[n])
    BY <2>3, WritesType
  <2>6. x = Append(w, q)
    <3>1. log[n] \in Seq(EntryRec) /\ Entry(q) \in EntryRec
      BY <1>1, EntryTypes
    <3>2. /\ Len(log'[n]) = Len(log[n]) + 1
          /\ \A i \in 1 .. Len(log[n]) : log'[n][i] = log[n][i]
          /\ log'[n][Len(log[n]) + 1] = Entry(q)
      BY <2>1, <3>1, AppendProperties
    <3>3. /\ Append(w, q) \in Seq(Reqs) /\ Len(Append(w, q)) = Len(w) + 1
          /\ \A i \in 1 .. Len(w) : Append(w, q)[i] = w[i]
          /\ Append(w, q)[Len(w) + 1] = q
      <4>. HIDE DEF w
      <4>. QED  BY <2>4, AppendProperties
    <3>4. Entry(q).data[1] = q
      BY DEF Entry
    <3>5. \A i \in 1 .. Len(log[n]) + 1 : i \in 1 .. Len(log[n]) \/ i = Len(log[n]) + 1
      BY <2>4
    <3>6. \A i \in 1 .. Len(log[n]) : x[i] = w[i]
      BY <2>4, <3>2 DEF Writes
    <3>7. x[Len(log[n]) + 1] = q
      BY <2>4, <3>2, <3>4 DEF Writes
    <3>. HIDE DEF w, x
    <3>8. \A i \in 1 .. Len(x) : x[i] = Append(w, q)[i]
      BY <2>4, <2>5, <3>2, <3>3, <3>5, <3>6, <3>7
    <3>. QED  BY <2>4, <2>5, <3>2, <3>3, <3>8, SeqEqual
  <2>. HIDE DEF w, x
  <2>7. SubSeq(w, 1, Len(log[n])) = w /\ SubSeq(x, 1, Len(log'[n])) = x
    BY <2>4, <2>5, SubSeqFull
  <2>8. file[n] \o w \in Seq(Reqs) /\ <<q>> \in Seq(Reqs)
    BY <2>2, <2>4, ConcatProperties
  <2>9. file[n] \o (w \o <<q>>) = (file[n] \o w) \o <<q>>
    <3>1. file[n] \in Seq(Reqs) /\ w \in Seq(Reqs)
      BY <2>2, <2>4
    <3>2. \A f, u, t \in Seq(Reqs) : f \o (u \o t) = (f \o u) \o t
      BY Associative
    <3>. QED  BY <2>8, <3>1, <3>2
  <2>10. Append(w, q) = w \o <<q>> /\ Append(file[n] \o w, q) = (file[n] \o w) \o <<q>>
    BY <2>4, <2>8, AppendIsConcat
  <2>. QED  BY <1>4, <2>2, <2>3, <2>6, <2>7, <2>9, <2>10
<1>. QED  BY <1>2, <1>5, <1>6

\* So is nothing else said of a write before it is logged, nor unsaid after.
LEMMA SameLogged ==
  ASSUME NoCrash, QuietInv, [Next]_vars,
         \A q \in Reqs : ~ Log(q), \A c \in Reqs \X Slots : ~ RpcLog(c)
  PROVE  \A n \in Nodes : Logged(n)' = Logged(n)
<1>t. /\ req \in [Reqs -> ReqRec] /\ rpc \in [Reqs \X Slots -> RpcRec]
  BY DEF QuietInv, TypeInv, CallType
<1>1. ASSUME UNCHANGED <<req, rpc>> PROVE \A n \in Nodes : Logged(n)' = Logged(n)
  BY <1>1 DEF Logged, Owner, Backups
<1>2. ASSUME \A p \in Reqs : (req'[p].st \in {"call", "wait", "acked"}) <=> (req[p].st \in {"call", "wait", "acked"}),
             \A c \in Reqs \X Slots : (rpc'[c].st = "logged") <=> (rpc[c].st = "logged")
      PROVE  \A n \in Nodes : Logged(n)' = Logged(n)
  <2>1. \A p \in Reqs, k \in Slots : (rpc'[<<p, k>>].st = "logged") <=> (rpc[<<p, k>>].st = "logged")
    BY <1>2
  <2>2. ASSUME NEW n \in Nodes, NEW p \in Reqs
        PROVE  \/ n = Owner /\ req'[p].st \in {"call", "wait", "acked"}
               \/ \E k \in Slots : n = Backups[k] /\ rpc'[<<p, k>>].st = "logged"
               <=>
               \/ n = Owner /\ req[p].st \in {"call", "wait", "acked"}
               \/ \E k \in Slots : n = Backups[k] /\ rpc[<<p, k>>].st = "logged"
    BY <1>2, <2>1
  <2>. QED  BY <2>2, Zenon DEF Logged, Owner, Backups
<1>3. ASSUME NEW q \in Reqs, Write(q) PROVE \A n \in Nodes : Logged(n)' = Logged(n)
  <2>1. /\ (req'[q].st \in {"call", "wait", "acked"}) <=> (req[q].st \in {"call", "wait", "acked"})
        /\ \A p \in Reqs \ {q} : req'[p] = req[p]
    <3>1. CASE Send(q)
      BY <1>t, <3>1 DEF Send, ReqRec
    <3>2. CASE Check(q)
      BY <1>t, <3>2 DEF Check, ReqRec
    <3>3. CASE Call(q)
      BY <1>t, <3>3 DEF Call, ReqRec
    <3>4. CASE Return(q)
      BY <1>t, <3>4 DEF Return, ReqRec
    <3>5. CASE Acknowledge(q)
      BY <1>t, <3>5 DEF Acknowledge, ReqRec
    <3>. QED  BY <1>3, <3>1, <3>2, <3>3, <3>4, <3>5 DEF Write
  <2>2. \A c \in Reqs \X Slots : (rpc'[c].st = "logged") <=> (rpc[c].st = "logged")
    <3>1. CASE Call(q)
      <4>. DEFINE k == req[q].k
                  s == IF req[q].to[k] \in live THEN "sent" ELSE "lost"
      <4>1. rpc' = [rpc EXCEPT ![<<q, k>>] = [st |-> s, to |-> req[q].to[k]]] /\ req[q].st = "call"
        BY <3>1 DEF Call
      <4>2. s # "logged"
        OBVIOUS
      <4>3. k \in Slots => rpc[<<q, k>>].st = "none"
        <5>1. ~ (k < k) /\ k = req[q].k
          BY <1>t DEF ReqRec
        <5>. QED  BY <4>1, <5>1 DEF QuietInv, CallInv
      <4>. HIDE DEF k, s
      <4>4. CASE k \in Slots
        BY <1>t, <4>1, <4>2, <4>3, <4>4
      <4>5. CASE k \notin Slots
        BY <1>t, <4>1, <4>5
      <4>. QED  BY <4>4, <4>5
    <3>. QED  BY <1>3, <3>1 DEF Write, Send, Check, Return, Acknowledge
  <2>. QED  BY <1>2, <2>1, <2>2
<1>4. ASSUME NEW c \in Reqs \X Slots, Replicate(c) PROVE \A n \in Nodes : Logged(n)' = Logged(n)
  <2>1. UNCHANGED req /\ rpc[c].st # "logged" /\ rpc'[c].st # "logged"
        /\ \A d \in Reqs \X Slots : d # c => rpc'[d] = rpc[d]
    BY <1>t, <1>4 DEF Replicate, RpcMap, RpcLost, RpcRec
  <2>. QED  BY <1>2, <2>1
<1>5. ASSUME NEW n \in Nodes, Flush(n) PROVE \A m \in Nodes : Logged(m)' = Logged(m)
  BY <1>1, <1>5 DEF Flush, FlushStart, FlushStep, FlushError, FlushEnd
<1>6. ASSUME NEW n \in Nodes, Merge(n) PROVE \A m \in Nodes : Logged(m)' = Logged(m)
  BY <1>1, <1>6 DEF Merge, MergeSend, MergeArrive, MergeLock, Overwrite, MergeRemove, MergeOpen, MergeWrite
<1>7. ASSUME Read PROVE \A m \in Nodes : Logged(m)' = Logged(m)
  BY <1>1, <1>7 DEF Read, ReadStart, ReadLock, ReadOpen
<1>. QED  BY <1>1, <1>3, <1>4, <1>5, <1>6, <1>7, CalmActions DEF vars, QuietInv


\* What merging a log does: nothing to the content, unless it fails.
LEMMA FlushedContent ==
  ASSUME QuietInv, QuietInv', NEW n \in Nodes, Flush(n)
  PROVE  /\ \A m \in Nodes \ {n} : Content(m)' = Content(m)
         /\ \/ Content(n)' = Content(n)
            \/ /\ "write" \in errs'
               /\ \E f, v \in Seq(Reqs), q \in Reqs :
                    Content(n) = f \o (<<q>> \o v) /\ Content(n)' = f \o v
            \/ /\ "flush" \in errs'
               /\ \E f, v, w \in Seq(Reqs) :
                    Content(n) = f \o v /\ Content(n)' = f \o w /\ Range(v) \subseteq Range(w)
<1>. DEFINE w == Writes(log[n])
            L == Len(log[n])
            k == From(n)
            v == SubSeq(w, k, L)
<1>t. /\ file \in [Nodes -> Seq(Reqs)] /\ log \in [Nodes -> Seq(EntryRec)]
      /\ flush \in [Nodes -> FlushRec]
  BY DEF QuietInv, TypeInv, NodeType
<1>1. /\ OfWrites(log[n]) /\ k \in 1 .. L + 1
      /\ Content(n) = file[n] \o v
      /\ v \in Seq(Reqs) /\ file[n] \in Seq(Reqs)
  BY ContentIs
<1>2. /\ w \in Seq(Reqs) /\ Len(w) = L /\ L \in Nat
      /\ \A i \in 1 .. L : log[n][i].kind = "append" /\ log[n][i].data = <<w[i]>>
  BY <1>1, WritesType
<1>3. \A m \in Nodes \ {n} : file'[m] = file[m] /\ log'[m] = log[m] /\ flush'[m] = flush[m]
  BY <1>t DEF Flush, FlushStart, FlushStep, FlushError, FlushEnd, ClearLog, Resume, disk
<1>4. \A m \in Nodes \ {n} : Content(m)' = Content(m)
  <2>1. \A m \in Nodes \ {n} : From(m)' = From(m)
    BY <1>3 DEF From, Idle
  <2>. QED  BY <1>3, <2>1, SameContent
<1>5. CASE FlushStart(n)
  <2>1. From(n)' = From(n) /\ UNCHANGED <<file, log>>
    BY <1>t, <1>5 DEF FlushStart, LogFree, From, Idle, disk
  <2>. QED  BY <1>4, <2>1, SameContent
<1>6. CASE FlushStep(n)
  <2>. DEFINE u == SubSeq(w, k + 1, L)
  <2>1. k = flush[n].i /\ k <= L /\ flush'[n].i = k + 1 /\ From(n)' = k + 1 /\ log' = log
    <3>1. k = flush[n].i /\ k <= L
      BY <1>6 DEF FlushStep, From
    <3>2. flush'[n].i = k + 1
      BY <1>t, <1>6, <3>1 DEF FlushStep, FlushRec
    <3>3. flush'[n] # Idle
      BY <1>1, <3>2 DEF Idle
    <3>. QED  BY <1>6, <3>1, <3>2, <3>3 DEF FlushStep, From, Idle
  <2>. HIDE DEF k
  <2>2. k \in 1 .. L
    BY <1>1, <1>2, <2>1
  <2>3. /\ Content(n)' = file'[n] \o u
        /\ u \in Seq(Reqs) /\ file'[n] \in Seq(Reqs)
    BY <2>1, ContentIsNext
  <2>4. v = <<w[k]>> \o u
    <3>1. L \in k .. Len(w) /\ k \in 1 .. Len(w)
      BY <1>2, <2>2
    <3>. HIDE DEF w, L
    <3>. QED  BY <1>2, <2>2, <3>1, SubSeqRecursiveFirst
  <2>5. w[k] \in Reqs
    <3>. HIDE DEF w, L
    <3>. QED  BY <1>2, <2>2, ElementOfSeq
  <2>s. ~ Skipped(n, log[n][flush[n].i])
    <3>1. log[n][k].kind = "append"
      BY <1>2, <2>2
    <3>. QED  BY <2>1, <3>1 DEF Skipped
  <2>6. CASE file' = [file EXCEPT ![n] = Apply(@, log[n][flush[n].i])]
    <3>1. file'[n] = file[n] \o <<w[k]>>
      <4>1. file'[n] = Apply(file[n], log[n][k])
        BY <1>t, <2>1, <2>6
      <4>2. log[n][k].kind = "append" /\ log[n][k].data = <<w[k]>>
        BY <1>2, <2>2
      <4>. HIDE DEF w
      <4>. QED  BY <4>1, <4>2 DEF Apply
    <3>2. <<w[k]>> \in Seq(Reqs)
      BY <2>5
    <3>. HIDE DEF w, u, v, L
    <3>3. \A t \in Seq(Reqs) : file[n] \o (t \o u) = (file[n] \o t) \o u
      BY <1>1, <2>3, Associative
    <3>4. Content(n)' = Content(n)
      BY <1>1, <2>3, <2>4, <3>1, <3>2, <3>3
    <3>. QED  BY <1>4, <3>4
  <2>7. CASE Fault("write") /\ UNCHANGED file
    <3>1. "write" \in errs' /\ file'[n] = file[n]
      BY <2>7 DEF Fault
    <3>. HIDE DEF w, u, v, L
    <3>2. Content(n) = file[n] \o (<<w[k]>> \o u) /\ Content(n)' = file[n] \o u
      BY <1>1, <2>3, <2>4, <3>1
    <3>. QED  BY <1>1, <1>4, <2>3, <2>5, <3>1, <3>2
  <2>. QED  BY <1>6, <2>s, <2>6, <2>7 DEF FlushStep
<1>7. CASE file' = file /\ log' = log /\ "flush" \in errs' /\ flush' = [flush EXCEPT ![n] = Idle]
  <2>1. From(n)' = 1 /\ log'[n] = log[n] /\ file'[n] = file[n]
    BY <1>t, <1>7 DEF From, Idle
  <2>2. Content(n)' = file[n] \o SubSeq(w, 1, L)
    BY <2>1, ContentIsNext
  <2>. HIDE DEF w, L, k
  <2>3. SubSeq(w, 1, L) = w
    BY <1>2, SubSeqFull
  <2>4. Range(v) \subseteq Range(w)
    <3>1. \A i \in k .. L : w[i] \in Reqs
      BY <1>1, <1>2, ElementOfSeq
    <3>2. /\ Len(v) = L - k + 1
          /\ \A i \in 1 .. L - k + 1 : v[i] = w[k + i - 1]
      BY <1>1, <1>2, <3>1, SubSeqProperties
    <3>3. DOMAIN v = 1 .. L - k + 1 /\ DOMAIN w = 1 .. L
      BY <1>1, <1>2, <3>2, LenProperties
    <3>4. \A i \in 1 .. L - k + 1 : k + i - 1 \in 1 .. L
      BY <1>1, <1>2
    <3>. HIDE DEF v
    <3>. QED  BY <3>2, <3>3, <3>4 DEF Range
  <2>. HIDE DEF v
  <2>. QED  BY <1>1, <1>2, <1>4, <1>7, <2>2, <2>3, <2>4
<1>8. CASE FlushError(n)
  BY <1>7, <1>8 DEF FlushError, Resume, Fault, disk
<1>9. CASE FlushEnd(n) /\ NoFault /\ ClearLog(n)
  <2>1. log'[n] = <<>> /\ From(n)' = 1 /\ file' = file
    BY <1>t, <1>9 DEF FlushEnd, ClearLog, Resume, From, Idle
  <2>2. k > L
    BY <1>9 DEF FlushEnd, From
  <2>3. v = <<>>
    <3>. HIDE DEF w, k, L
    <3>. QED  BY <1>1, <1>2, <2>2, SubSeqEmpty
  <2>4. Content(n) = file[n]
    <3>. HIDE DEF v
    <3>. QED  BY <1>1, <2>3, ConcatEmptySeq
  <2>5. Content(n)' = file[n] \o SubSeq(Writes(<<>>), 1, Len(<<>>))
    BY <2>1, ContentIsNext
  <2>6. Len(<<>>) = 0 /\ SubSeq(Writes(<<>>), 1, 0) = <<>>
    BY SubSeqEmpty
  <2>7. Content(n)' = file[n]
    BY <1>1, <2>5, <2>6, ConcatEmptySeq
  <2>. QED  BY <1>4, <2>4, <2>7
<1>10. CASE FlushEnd(n) /\ Fault("flush") /\ UNCHANGED log
  BY <1>7, <1>10 DEF FlushEnd, Resume, Fault
<1>. QED  BY <1>5, <1>6, <1>8, <1>9, <1>10 DEF Flush, FlushEnd


LEMMA LogLogged ==
  ASSUME QuietInv, NEW q \in Reqs, Log(q)
  PROVE  /\ q \notin Logged(Owner) /\ Logged(Owner)' = Logged(Owner) \cup {q}
         /\ \A n \in Nodes \ {Owner} : Logged(n)' = Logged(n)
<1>t. req \in [Reqs -> ReqRec]
  BY DEF QuietInv, TypeInv, CallType
<1>1. /\ req[q].st = "mapped" /\ req'[q].st = "call" /\ UNCHANGED rpc
      /\ \A p \in Reqs \ {q} : req'[p] = req[p]
  BY <1>t DEF Log, ReqRec
<1>2. \A k \in Slots : Owner # Backups[k]
  BY Home DEF Slots
<1>3. q \notin Logged(Owner)
  BY <1>1, <1>2 DEF Logged
<1>4. Logged(Owner)' = Logged(Owner) \cup {q}
  <2>1. Logged(Owner) = {p \in Reqs : req[p].st \in {"call", "wait", "acked"}}
    BY <1>2 DEF Logged
  <2>2. Logged(Owner)' = {p \in Reqs : req'[p].st \in {"call", "wait", "acked"}}
    BY <1>2 DEF Logged, Owner, Backups
  <2>. QED  BY <1>1, <2>1, <2>2
<1>5. \A n \in Nodes \ {Owner} : Logged(n)' = Logged(n)
  BY <1>1 DEF Logged, Owner, Backups
<1>. QED  BY <1>3, <1>4, <1>5

LEMMA RpcLogLogged ==
  ASSUME QuietInv, NEW q \in Reqs, NEW k \in Slots, RpcLog(<<q, k>>)
  PROVE  /\ q \notin Logged(Backups[k]) /\ Logged(Backups[k])' = Logged(Backups[k]) \cup {q}
         /\ \A n \in Nodes \ {Backups[k]} : Logged(n)' = Logged(n)
<1>t. rpc \in [Reqs \X Slots -> RpcRec] /\ <<q, k>> \in Reqs \X Slots
  BY DEF QuietInv, TypeInv, CallType
<1>1. /\ rpc[<<q, k>>].st = "mapped" /\ rpc'[<<q, k>>].st = "logged" /\ UNCHANGED req
      /\ \A c \in Reqs \X Slots : c # <<q, k>> => rpc'[c] = rpc[c]
  BY <1>t DEF RpcLog, RpcRec
<1>2. Backups[k] # Owner /\ \A j \in Slots : Backups[j] = Backups[k] => j = k
  BY Home DEF Slots
<1>3. q \notin Logged(Backups[k])
  BY <1>1, <1>2 DEF Logged
<1>4. Logged(Backups[k])' = Logged(Backups[k]) \cup {q}
  <2>1. Logged(Backups[k]) = {p \in Reqs : rpc[<<p, k>>].st = "logged"}
    BY <1>2 DEF Logged
  <2>2. Logged(Backups[k])' = {p \in Reqs : rpc'[<<p, k>>].st = "logged"}
    BY <1>2 DEF Logged, Owner, Backups
  <2>3. \A p \in Reqs \ {q} : rpc'[<<p, k>>] = rpc[<<p, k>>]
    BY <1>1
  <2>. QED  BY <1>1, <2>1, <2>2, <2>3
<1>5. \A n \in Nodes \ {Backups[k]} : Logged(n)' = Logged(n)
  <2>1. \A n \in Nodes \ {Backups[k]}, p \in Reqs, j \in Slots : n = Backups[j] => rpc'[<<p, j>>] = rpc[<<p, j>>]
    BY <1>1
  <2>. QED  BY <1>1, <2>1 DEF Logged, Owner, Backups
<1>. QED  BY <1>3, <1>4, <1>5

\* A copy that no merge overwrites keeps its content, or gets one more write at its end,
\* unless one of the errors happens; each does what it does and no more.
LEMMA ContentStep ==
  ASSUME NoCrash, QuietInv, [Next]_vars, NEW n \in Nodes, n = Owner \/ merge[n].n = 0
  PROVE  Kept(n) \/ Accepted(n) \/ NotLogged(n) \/ NotWritten(n) \/ MergedAgain(n)
<1>i. QuietInv'
  BY QuietStep
<1>t. /\ file \in [Nodes -> Seq(Reqs)] /\ flush \in [Nodes -> FlushRec] /\ req \in [Reqs -> ReqRec]
      /\ rpc \in [Reqs \X Slots -> RpcRec] /\ read \in ReadRec
  BY DEF QuietInv, TypeInv, NodeType, CallType, TaskType
<1>1. ASSUME NEW q \in Reqs, Log(q) PROVE Kept(n) \/ Accepted(n) \/ NotLogged(n)
  <2>1. req[q].at = Owner /\ Owner \in Nodes
    BY Home DEF QuietInv, PlaceInv
  <2>2. WriteLog(Owner, Entry(q)) /\ UNCHANGED <<file, flush>>
    BY <1>1, <2>1 DEF Log
  <2>3. /\ \A m \in Nodes \ {Owner} : Content(m)' = Content(m)
        /\ \/ Content(Owner)' = Append(Content(Owner), q)
           \/ Content(Owner)' = Content(Owner) /\ "log" \in errs'
    BY <1>i, <2>1, <2>2, AppendedContent
  <2>4. /\ q \notin Logged(Owner) /\ Logged(Owner)' = Logged(Owner) \cup {q}
        /\ \A m \in Nodes \ {Owner} : Logged(m)' = Logged(m)
    BY <1>1, LogLogged
  <2>5. CASE n # Owner
    BY <2>3, <2>4, <2>5 DEF Kept
  <2>6. CASE n = Owner
    BY <2>3, <2>4, <2>6 DEF Accepted, NotLogged, Owner
  <2>. QED  BY <2>5, <2>6
<1>2. ASSUME NEW q \in Reqs, NEW k \in Slots, RpcLog(<<q, k>>) PROVE Kept(n) \/ Accepted(n) \/ NotLogged(n)
  <2>1. rpc[<<q, k>>].to = Backups[k] /\ Backups[k] \in Nodes
    <3>1. <<q, k>> \in Reqs \X Slots
      OBVIOUS
    <3>. QED  BY <3>1, Home DEF QuietInv, PlaceInv, Slots
  <2>2. WriteLog(Backups[k], Entry(q)) /\ UNCHANGED <<file, flush>>
    BY <1>2, <2>1 DEF RpcLog
  <2>3. /\ \A m \in Nodes \ {Backups[k]} : Content(m)' = Content(m)
        /\ \/ Content(Backups[k])' = Append(Content(Backups[k]), q)
           \/ Content(Backups[k])' = Content(Backups[k]) /\ "log" \in errs'
    BY <1>i, <2>1, <2>2, AppendedContent
  <2>4. /\ q \notin Logged(Backups[k]) /\ Logged(Backups[k])' = Logged(Backups[k]) \cup {q}
        /\ \A m \in Nodes \ {Backups[k]} : Logged(m)' = Logged(m)
    BY <1>2, RpcLogLogged
  <2>5. CASE n # Backups[k]
    BY <2>3, <2>4, <2>5 DEF Kept
  <2>6. CASE n = Backups[k]
    BY <2>3, <2>4, <2>6 DEF Accepted, NotLogged, Backups
  <2>. QED  BY <2>5, <2>6
<1>3. CASE (\A q \in Reqs : ~ Log(q)) /\ (\A c \in Reqs \X Slots : ~ RpcLog(c))
  <2>1. Logged(n)' = Logged(n)
    BY <1>3, SameLogged
  <2>2. ASSUME UNCHANGED <<file, log, flush>> PROVE Kept(n)
    BY <2>1, <2>2, SameWhere DEF Kept
  <2>3. ASSUME NEW q \in Reqs, Write(q) PROVE Kept(n)
    BY <1>3, <2>2, <2>3 DEF Write, Send, Check, Call, Return, Acknowledge, disk
  <2>4. ASSUME NEW c \in Reqs \X Slots, Replicate(c) PROVE Kept(n)
    BY <1>3, <2>2, <2>4 DEF Replicate, RpcMap, RpcLost, disk
  <2>5. ASSUME NEW m \in Nodes, LogFree(m), NEW by, flush' = [flush EXCEPT ![m] = [i |-> 1, by |-> by]],
               UNCHANGED disk
        PROVE  Kept(n)
    <3>1. From(n)' = From(n) /\ UNCHANGED <<file, log>>
      BY <1>t, <2>5 DEF LogFree, From, Idle, disk
    <3>. QED  BY <2>1, <3>1, SameContent DEF Kept
  <2>6. ASSUME NEW m \in Nodes, Flush(m) PROVE Kept(n) \/ NotWritten(n) \/ MergedAgain(n)
    BY <1>i, <2>1, <2>6, FlushedContent DEF Kept, NotWritten, MergedAgain
  <2>7. ASSUME NEW m \in Nodes, Merge(m) PROVE Kept(n)
    <3>1. CASE MergeLock(m)
      BY <2>5, <3>1 DEF MergeLock
    <3>2. CASE Overwrite(m)
      <4>1. merge[m].n # 0 /\ m \in {Backups[1], Backups[2]}
        BY <3>2, OverwriteForm DEF QuietInv, PlaceInv
      <4>2. m # n
        BY <4>1, Home
      <4>3. file'[n] = file[n] /\ UNCHANGED <<log, flush>>
        <5>1. PICK f \in Seq(Reqs) : file' = [file EXCEPT ![m] = f]
          BY <3>2, OverwriteForm DEF QuietInv
        <5>. QED  BY <1>t, <3>2, <4>2, <5>1, OverwriteForm DEF QuietInv
      <4>4. From(n)' = From(n)
        BY <4>3 DEF From
      <4>. QED  BY <2>1, <4>3, <4>4, SameContent DEF Kept
    <3>3. CASE MergeSend(m) \/ MergeArrive(m)
      BY <2>2, <3>3 DEF MergeSend, MergeArrive, disk
    <3>. QED  BY <2>7, <3>1, <3>2, <3>3 DEF Merge
  <2>8. ASSUME Read PROVE Kept(n)
    <3>1. CASE ReadLock
      <4>1. read.at \in Nodes
        BY <1>t DEF ReadRec
      <4>. QED  BY <2>5, <3>1, <4>1 DEF ReadLock
    <3>2. CASE ReadStart \/ ReadOpen
      BY <2>2, <3>2 DEF ReadStart, ReadOpen, disk
    <3>. QED  BY <2>8, <3>1, <3>2 DEF Read
  <2>. QED
    BY <2>2, <2>3, <2>4, <2>6, <2>7, <2>8, CalmActions DEF vars, disk, QuietInv
<1>. QED
  <2>1. \A c \in Reqs \X Slots : \E q \in Reqs, k \in Slots : c = <<q, k>>
    OBVIOUS
  <2>. QED  BY <1>1, <1>2, <1>3, <2>1


-----------------------------------------------------------------------------
(***************************************************************************)
(* What was logged at a node is in its copy, once.                         *)
(***************************************************************************)
Distinct(s) == \A i, j \in 1 .. Len(s) : s[i] = s[j] => i = j

KeptInv(n) ==
  /\ Content(n) \in Seq(Reqs)
  /\ errs \cap {"log", "write"} = {} => Logged(n) \subseteq Range(Content(n))
  /\ "flush" \notin errs => Range(Content(n)) \subseteq Logged(n) /\ Distinct(Content(n))

LEMMA AppendOnce ==
  ASSUME NEW s \in Seq(Reqs), NEW q \in Reqs
  PROVE  /\ Append(s, q) \in Seq(Reqs) /\ Range(Append(s, q)) = Range(s) \cup {q}
         /\ Distinct(s) /\ q \notin Range(s) => Distinct(Append(s, q))
<1>1. /\ Append(s, q) \in Seq(Reqs) /\ Len(Append(s, q)) = Len(s) + 1 /\ Len(s) \in Nat
      /\ \A i \in 1 .. Len(s) : Append(s, q)[i] = s[i]
      /\ Append(s, q)[Len(s) + 1] = q
  BY AppendProperties, LenProperties
<1>. DEFINE t == Append(s, q)
<1>. HIDE DEF t
<1>2. DOMAIN s = 1 .. Len(s) /\ DOMAIN t = 1 .. Len(s) + 1
  BY <1>1, LenProperties DEF t
<1>3. \A i \in 1 .. Len(s) + 1 : i \in 1 .. Len(s) \/ i = Len(s) + 1
  BY <1>1
<1>4. Len(s) + 1 \in 1 .. Len(s) + 1 /\ 1 .. Len(s) \subseteq 1 .. Len(s) + 1
  BY <1>1
<1>5. /\ Len(t) = Len(s) + 1 /\ t[Len(s) + 1] = q
      /\ \A i \in 1 .. Len(s) : t[i] = s[i]
  BY <1>1 DEF t
<1>6. Range(t) = Range(s) \cup {q}
  BY <1>2, <1>3, <1>4, <1>5 DEF Range
<1>7. ASSUME Distinct(s), q \notin Range(s) PROVE Distinct(t)
  <2>1. \A i \in 1 .. Len(s) : t[i] # q
    BY <1>2, <1>5, <1>7 DEF Range
  <2>. QED  BY <1>3, <1>5, <1>7, <2>1 DEF Distinct
<1>. QED  BY <1>1, <1>6, <1>7 DEF t

LEMMA ConcatRange ==
  ASSUME NEW f \in Seq(Reqs), NEW v \in Seq(Reqs)
  PROVE  f \o v \in Seq(Reqs) /\ Range(f \o v) = Range(f) \cup Range(v)
<1>1. /\ f \o v \in Seq(Reqs) /\ Len(f \o v) = Len(f) + Len(v) /\ Len(f) \in Nat /\ Len(v) \in Nat
      /\ \A i \in 1 .. Len(f) + Len(v) : (f \o v)[i] = IF i <= Len(f) THEN f[i] ELSE v[i - Len(f)]
  BY ConcatProperties, LenProperties
<1>. DEFINE c == f \o v
<1>. HIDE DEF c
<1>2. DOMAIN c = 1 .. Len(f) + Len(v) /\ DOMAIN f = 1 .. Len(f) /\ DOMAIN v = 1 .. Len(v)
  BY <1>1, LenProperties DEF c
<1>3. \A i \in 1 .. Len(f) : i \in DOMAIN c /\ c[i] = f[i]
  BY <1>1, <1>2 DEF c
<1>4. \A i \in 1 .. Len(v) : i + Len(f) \in DOMAIN c /\ c[i + Len(f)] = v[i]
  <2>1. ASSUME NEW i \in 1 .. Len(v) PROVE i + Len(f) \in DOMAIN c /\ c[i + Len(f)] = v[i]
    <3>1. i + Len(f) \in 1 .. Len(f) + Len(v) /\ ~ (i + Len(f) <= Len(f)) /\ (i + Len(f)) - Len(f) = i
      BY <1>1
    <3>. QED  BY <1>1, <1>2, <3>1 DEF c
  <2>. QED  BY <2>1
<1>5. \A i \in DOMAIN c : \/ i \in 1 .. Len(f) /\ c[i] = f[i]
                          \/ i - Len(f) \in 1 .. Len(v) /\ c[i] = v[i - Len(f)]
  BY <1>1, <1>2 DEF c
<1>6. Range(c) \subseteq Range(f) \cup Range(v)
  BY <1>2, <1>5 DEF Range
<1>7. Range(f) \cup Range(v) \subseteq Range(c)
  BY <1>2, <1>3, <1>4 DEF Range
<1>. QED  BY <1>1, <1>6, <1>7 DEF c

\* A sequence without repetition has none when an element is taken out.
LEMMA RemoveOne ==
  ASSUME NEW f \in Seq(Reqs), NEW v \in Seq(Reqs), NEW q \in Reqs, Distinct(f \o (<<q>> \o v))
  PROVE  Distinct(f \o v)
<1>1. <<q>> \in Seq(Reqs) /\ Len(<<q>>) = 1
  OBVIOUS
<1>. DEFINE w == <<q>> \o v
            b == f \o w
            c == f \o v
<1>2. /\ w \in Seq(Reqs) /\ Len(w) = Len(v) + 1 /\ Len(v) \in Nat /\ Len(f) \in Nat
      /\ \A i \in 1 .. Len(v) : w[i + 1] = v[i]
  <2>1. /\ w \in Seq(Reqs) /\ Len(w) = 1 + Len(v) /\ Len(v) \in Nat /\ Len(f) \in Nat
        /\ \A i \in 1 .. 1 + Len(v) : w[i] = IF i <= 1 THEN <<q>>[i] ELSE v[i - 1]
    BY <1>1, ConcatProperties, LenProperties
  <2>. HIDE DEF w
  <2>2. ASSUME NEW i \in 1 .. Len(v) PROVE w[i + 1] = v[i]
    <3>1. i + 1 \in 1 .. 1 + Len(v) /\ ~ (i + 1 <= 1) /\ (i + 1) - 1 = i
      BY <2>1
    <3>. QED  BY <2>1, <3>1
  <2>. QED  BY <2>1, <2>2
<1>. HIDE DEF w
<1>3. /\ Len(b) = Len(f) + Len(w)
      /\ \A i \in 1 .. Len(f) + Len(w) : b[i] = IF i <= Len(f) THEN f[i] ELSE w[i - Len(f)]
  BY <1>2, ConcatProperties
<1>4. /\ Len(c) = Len(f) + Len(v)
      /\ \A i \in 1 .. Len(f) + Len(v) : c[i] = IF i <= Len(f) THEN f[i] ELSE v[i - Len(f)]
  BY ConcatProperties
<1>5. Distinct(b)
  BY DEF w
<1>. HIDE DEF b, c
<1>. DEFINE up(i) == IF i <= Len(f) THEN i ELSE i + 1
<1>6. ASSUME NEW i \in 1 .. Len(c) PROVE up(i) \in 1 .. Len(b) /\ c[i] = b[up(i)]
  <2>1. CASE i <= Len(f)
    BY <1>2, <1>3, <1>4, <2>1
  <2>2. CASE ~ (i <= Len(f))
    <3>1. /\ i + 1 \in 1 .. Len(f) + Len(w) /\ ~ (i + 1 <= Len(f))
          /\ i - Len(f) \in 1 .. Len(v) /\ (i + 1) - Len(f) = (i - Len(f)) + 1
      BY <1>2, <1>4, <2>2
    <3>2. c[i] = v[i - Len(f)] /\ b[i + 1] = w[(i + 1) - Len(f)]
      BY <1>3, <1>4, <2>2, <3>1
    <3>3. w[(i - Len(f)) + 1] = v[i - Len(f)]
      BY <1>2, <3>1
    <3>. QED  BY <1>3, <2>2, <3>1, <3>2, <3>3
  <2>. QED  BY <2>1, <2>2
<1>7. ASSUME NEW i \in 1 .. Len(c), NEW j \in 1 .. Len(c), up(i) = up(j) PROVE i = j
  BY <1>2, <1>4, <1>7
<1>. HIDE DEF up
<1>8. ASSUME NEW i \in 1 .. Len(c), NEW j \in 1 .. Len(c), c[i] = c[j] PROVE i = j
  BY <1>5, <1>6, <1>7, <1>8 DEF Distinct
<1>9. Distinct(c)
  BY <1>8 DEF Distinct
<1>. QED  BY <1>9 DEF c

LEMMA KeptStep ==
  ASSUME NoCrash, QuietInv, [Next]_vars, NEW n \in Nodes, n = Owner \/ merge[n].n = 0, KeptInv(n)
  PROVE  KeptInv(n)'
<1>1. errs \subseteq errs'
  BY ErrsGrow DEF QuietInv
<1>. DEFINE c == Content(n)
            d == Content(n)'
            A == Logged(n)
            B == Logged(n)'
<1>2. SUFFICES /\ d \in Seq(Reqs)
               /\ errs' \cap {"log", "write"} = {} => B \subseteq Range(d)
               /\ "flush" \notin errs' => Range(d) \subseteq B /\ Distinct(d)
  BY Zenon DEF KeptInv
<1>3. /\ c \in Seq(Reqs)
      /\ errs \cap {"log", "write"} = {} => A \subseteq Range(c)
      /\ "flush" \notin errs => Range(c) \subseteq A /\ Distinct(c)
  BY DEF KeptInv
<1>4. CASE Kept(n)
  <2>1. d = c /\ B = A
    BY <1>4 DEF Kept
  <2>. HIDE DEF c, d, A, B
  <2>. QED  BY <1>1, <1>3, <2>1
<1>5. CASE Accepted(n)
  <2>1. PICK q \in Reqs \ A : d = Append(c, q) /\ B = A \cup {q}
    BY <1>5 DEF Accepted
  <2>. HIDE DEF c, d, A, B
  <2>2. /\ d \in Seq(Reqs) /\ Range(d) = Range(c) \cup {q}
        /\ Distinct(c) /\ q \notin Range(c) => Distinct(d)
    BY <1>3, <2>1, AppendOnce
  <2>. QED  BY <1>1, <1>3, <2>1, <2>2
<1>6. CASE NotLogged(n)
  <2>1. d = c /\ A \subseteq B /\ "log" \in errs'
    BY <1>6 DEF NotLogged
  <2>. HIDE DEF c, d, A, B
  <2>. QED  BY <1>1, <1>3, <2>1
<1>7. CASE NotWritten(n)
  <2>1. PICK f \in Seq(Reqs), v \in Seq(Reqs), q \in Reqs : c = f \o (<<q>> \o v) /\ d = f \o v
    BY <1>7 DEF NotWritten
  <2>2. B = A /\ "write" \in errs'
    BY <1>7 DEF NotWritten
  <2>. HIDE DEF c, d, A, B
  <2>3. <<q>> \in Seq(Reqs)
    OBVIOUS
  <2>4. <<q>> \o v \in Seq(Reqs) /\ Range(<<q>> \o v) = Range(<<q>>) \cup Range(v)
    BY <2>3, ConcatRange
  <2>5. Range(c) = Range(f) \cup Range(<<q>> \o v)
    BY <2>1, <2>4, ConcatRange
  <2>6. d \in Seq(Reqs) /\ Range(d) = Range(f) \cup Range(v)
    BY <2>1, ConcatRange
  <2>7. Distinct(c) => Distinct(d)
    BY <2>1, RemoveOne
  <2>. QED  BY <1>1, <1>3, <2>2, <2>4, <2>5, <2>6, <2>7
<1>8. CASE MergedAgain(n)
  <2>1. PICK f \in Seq(Reqs), v \in Seq(Reqs), w \in Seq(Reqs) :
          c = f \o v /\ d = f \o w /\ Range(v) \subseteq Range(w)
    BY <1>8 DEF MergedAgain
  <2>2. B = A /\ "flush" \in errs'
    BY <1>8 DEF MergedAgain
  <2>. HIDE DEF c, d, A, B
  <2>3. Range(c) = Range(f) \cup Range(v) /\ d \in Seq(Reqs) /\ Range(d) = Range(f) \cup Range(w)
    BY <2>1, ConcatRange
  <2>. QED  BY <1>1, <1>3, <2>1, <2>2, <2>3
<1>. QED  BY <1>4, <1>5, <1>6, <1>7, <1>8, ContentStep

LEMMA KeptInit == ASSUME Init, NEW n \in Nodes PROVE KeptInv(n)
<1>. QuietInv
  BY QuietInit
<1>1. /\ log[n] = <<>> /\ flush[n] = Idle /\ file[n] \in Seq(Reqs)
      /\ file[n] = IF n \in Range(Routing) THEN Before ELSE <<>>
  BY DEF Init, QuietInv, TypeInv, NodeType
<1>2. Content(n) = file[n]
  <2>1. Content(n) = file[n] \o SubSeq(Writes(<<>>), 1, Len(<<>>))
    BY <1>1, ContentIs DEF From
  <2>2. Len(<<>>) = 0 /\ SubSeq(Writes(<<>>), 1, 0) = <<>>
    BY SubSeqEmpty
  <2>. QED  BY <1>1, <2>1, <2>2, ConcatEmptySeq
<1>3. Routing = FileRouting(FileHash, Nodes)
  BY DEF Init, Routing
<1>4. n \in Range(Routing) <=> n = Owner \/ \E k \in Slots : n = Backups[k]
  <2>. DEFINE F == FileRouting(FileHash, Nodes)
  <2>1. Nodes \subseteq Nat /\ FileHash \in Nat /\ Nodes # {}
    BY HydfsAssumption DEF HydfsAssumption
  <2>2. /\ F \in Seq(Nodes) /\ Len(F) = 3
        /\ \A k \in 1 .. 2 : Tail(F)[k] = F[k + 1]
    BY <2>1, RoutingType
  <2>3. Owner = F[1] /\ Backups = Tail(F)
    BY DEF Owner, Backups
  <2>. HIDE DEF F
  <2>4. DOMAIN F = 1 .. 3
    BY <2>2, LenProperties
  <2>5. Backups[1] = F[2] /\ Backups[2] = F[3]
    <3>1. 1 \in 1 .. 2 /\ 2 \in 1 .. 2 /\ 1 + 1 = 2 /\ 2 + 1 = 3
      OBVIOUS
    <3>2. Tail(F)[1] = F[1 + 1] /\ Tail(F)[2] = F[2 + 1]
      BY <2>2, <3>1
    <3>. QED  BY <2>3, <3>1, <3>2
  <2>6. Range(F) = {F[1], F[2], F[3]}
    <3>1. \A i \in 1 .. 3 : i = 1 \/ i = 2 \/ i = 3
      OBVIOUS
    <3>2. 1 \in 1 .. 3 /\ 2 \in 1 .. 3 /\ 3 \in 1 .. 3
      OBVIOUS
    <3>. QED  BY <2>4, <3>1, <3>2 DEF Range
  <2>7. Slots = {1, 2}
    BY DEF Slots
  <2>. QED  BY <1>3, <2>3, <2>5, <2>6, <2>7 DEF F
<1>5. Logged(n) = IF n \in Range(Routing) THEN {q \in Reqs : Done(q)} ELSE {}
  <2>1. \A q \in Reqs : req[q].st = IF Done(q) THEN "acked" ELSE "new"
    BY DEF Init
  <2>2. \A q \in Reqs, k \in Slots : rpc[<<q, k>>].st = IF Done(q) THEN "logged" ELSE "none"
    BY DEF Init
  <2>. QED  BY <1>4, <2>1, <2>2 DEF Logged
<1>6. Before \in Seq(Reqs) /\ DOMAIN Before = 1 .. Len(Before) /\ Distinct(Before)
  BY HydfsAssumption, LenProperties DEF HydfsAssumption, Distinct
<1>7. {q \in Reqs : Done(q)} = Range(Before)
  BY <1>6, ElementOfSeq DEF Done, Range
<1>8. Range(<<>>) = {} /\ Distinct(<<>>)
  BY DEF Range, Distinct
<1>. QED  BY <1>1, <1>2, <1>5, <1>6, <1>7, <1>8 DEF KeptInv

\* As an invariant: of the nodes no merge request went to, while none failed.
ContentInv == QuietInv /\ \A n \in Nodes : n = Owner \/ merge[n].n = 0 => KeptInv(n)

LEMMA ContentInitially == Init => ContentInv
BY QuietInit, KeptInit DEF ContentInv

\* A node that failed stays so, and a merge request that was sent is not unsent.
LEMMA LiveShrinks ==
  ASSUME TypeInv, [Next]_vars, NoCrash
  PROVE  live = Nodes
<1>1. live \subseteq Nodes
  BY DEF TypeInv, NodeType
<1>2. live' \subseteq live
  <2>1. \A q \in Reqs : Write(q) => live' = live
    BY DEF Write, Send, Check, Log, Call, Return, Acknowledge
  <2>2. \A c \in Reqs \X Slots : Replicate(c) => live' = live
    BY DEF Replicate, RpcMap, RpcLog, RpcLost
  <2>3. \A n \in Nodes : Flush(n) => live' = live
    BY DEF Flush, FlushStart, FlushStep, FlushError, FlushEnd
  <2>4. \A n \in Nodes : Merge(n) => live' = live
    BY DEF Merge, MergeSend, MergeArrive, MergeLock, Overwrite, MergeRemove, MergeOpen, MergeWrite
  <2>5. Read => live' = live
    BY DEF Read, ReadStart, ReadLock, ReadOpen
  <2>6. \A n \in Nodes : Crash(n) \/ Detect(n) => live' \subseteq live
    BY DEF Crash, Detect
  <2>7. \A n \in Nodes : Repair(n) => live' = live
    BY DEF Repair, RepairBegin, RepairSend, RepairArrive, RepairLog
  <2>. QED  BY <2>1, <2>2, <2>3, <2>4, <2>5, <2>6, <2>7 DEF Next, vars
<1>. QED  BY <1>1, <1>2 DEF NoCrash

LEMMA MergesCounted ==
  ASSUME NoCrash, QuietInv, [Next]_vars, NEW n \in Nodes, merge'[n].n = 0
  PROVE  merge[n].n = 0
<1>t. merge \in [Nodes -> MergeRec]
  BY DEF QuietInv, TypeInv, TaskType
<1>1. ASSUME NEW q \in Reqs, Write(q) PROVE UNCHANGED merge
  BY <1>1 DEF Write, Send, Check, Log, Call, Return, Acknowledge
<1>2. ASSUME NEW c \in Reqs \X Slots, Replicate(c) PROVE UNCHANGED merge
  BY <1>2 DEF Replicate, RpcMap, RpcLog, RpcLost
<1>3. ASSUME NEW m \in Nodes, Flush(m) PROVE merge'[n].n = merge[n].n
  BY <1>t, <1>3 DEF Flush, FlushStart, FlushStep, FlushError, FlushEnd, Resume, MergeRec
<1>4. ASSUME NEW m \in Nodes, Merge(m) PROVE merge[n].n = 0
  <2>1. CASE MergeSend(m)
    <3>1. merge'[m].n = merge[m].n + 1 /\ merge[m].n \in Nat
      BY <1>t, <2>1 DEF MergeSend, MergeRec
    <3>2. m # n
      BY <3>1
    <3>. QED  BY <1>t, <2>1, <3>2 DEF MergeSend
  <2>2. CASE MergeArrive(m)
    BY <1>t, <2>2 DEF MergeArrive, MergeRec
  <2>3. CASE MergeLock(m)
    BY <1>t, <2>3 DEF MergeLock, MergeRec
  <2>4. CASE Overwrite(m)
    <3>1. PICK st : merge' = [merge EXCEPT ![m].st = st]
      BY <2>4, OverwriteForm DEF QuietInv
    <3>. QED  BY <1>t, <3>1 DEF MergeRec
  <2>. QED  BY <1>4, <2>1, <2>2, <2>3, <2>4 DEF Merge
<1>5. ASSUME Read PROVE UNCHANGED merge
  BY <1>5 DEF Read, ReadStart, ReadLock, ReadOpen
<1>. QED  BY <1>1, <1>2, <1>3, <1>4, <1>5, CalmActions DEF vars, QuietInv

LEMMA ContentInductive ==
  ASSUME NoCrash, ContentInv, [Next]_vars
  PROVE  ContentInv'
<1>1. QuietInv'
  BY QuietStep DEF ContentInv
<1>2. ASSUME NEW n \in Nodes, n = Owner \/ merge'[n].n = 0 PROVE KeptInv(n)'
  <2>1. n = Owner \/ merge[n].n = 0
    BY <1>2, MergesCounted DEF ContentInv
  <2>. QED  BY <2>1, KeptStep DEF ContentInv
<1>. QED  BY <1>1, <1>2 DEF ContentInv, Owner

LEMMA ContentKept == Spec => [](live = Nodes => ContentInv)
<1>1. Init => (live = Nodes => ContentInv)
  BY ContentInitially
<1>2. TypeInv /\ (live = Nodes => ContentInv) /\ [Next]_vars => (live = Nodes => ContentInv)'
  BY LiveShrinks, ContentInductive DEF NoCrash
<1>. QED  BY <1>1, <1>2, Types, PTL DEF Spec

-----------------------------------------------------------------------------
(***************************************************************************)
(* The promises of the file, while no node fails.                          *)
(***************************************************************************)
LEMMA CountOnce ==
  ASSUME NEW s \in Seq(Reqs), NEW q
  PROVE  /\ q \in Range(s) => Times(q, s) >= 1
         /\ Distinct(s) => Times(q, s) <= 1
<1>. DEFINE P == {i \in 1 .. Len(s) : s[i] = q}
<1>1. Len(s) \in Nat /\ DOMAIN s = 1 .. Len(s)
  BY LenProperties
<1>2. IsFiniteSet(P) /\ Cardinality(P) \in Nat
  <2>1. IsFiniteSet(1 .. Len(s))
    BY <1>1, FS_Interval
  <2>2. P \subseteq 1 .. Len(s)
    OBVIOUS
  <2>. HIDE DEF P
  <2>. QED  BY <2>1, <2>2, FS_Subset, FS_CardinalityType
<1>3. Times(q, s) = Cardinality(P)
  BY DEF Times
<1>4. ASSUME q \in Range(s) PROVE Cardinality(P) >= 1
  <2>1. P # {}
    BY <1>1, <1>4 DEF Range
  <2>. HIDE DEF P
  <2>2. Cardinality(P) # 0
    BY <1>2, <2>1, FS_EmptySet
  <2>. QED  BY <1>2, <2>2
<1>5. ASSUME Distinct(s) PROVE Cardinality(P) <= 1
  <2>1. \A i, j \in P : i = j
    BY <1>5 DEF Distinct
  <2>. HIDE DEF P
  <2>2. CASE P = {}
    BY <2>2, FS_EmptySet
  <2>3. CASE P # {}
    <3>1. PICK i \in P : P = {i}
      BY <2>1, <2>3
    <3>2. Cardinality({i}) = 1
      BY FS_Singleton
    <3>. QED  BY <3>1, <3>2
  <2>. QED  BY <2>2, <2>3
<1>. QED  BY <1>3, <1>4, <1>5

LEMMA KeptIsOnce ==
  ASSUME NEW n \in Nodes, KeptInv(n), NEW q \in Logged(n)
  PROVE  KeptOnce(q, n)
BY CountOnce DEF KeptInv, KeptOnce

\* While no node fails, whatever merges of logs, reads, merge requests and errors there
\* are: an acknowledged write is in the primary's log or file, unless an error of the log
\* or the file swallowed it, and only once, unless a merge of the log broke off.
THEOREM WritesAreKept == Spec => [](live = Nodes => AckedKept)
<1>1. ContentInv => AckedKept
  <2>. SUFFICES ASSUME ContentInv, NEW q \in Acked PROVE KeptOnce(q, req[q].at)
    BY DEF AckedKept
  <2>1. req[q].at = Owner /\ Owner \in Nodes
    BY Home DEF ContentInv, QuietInv, PlaceInv, Acked
  <2>2. q \in Logged(Owner)
    BY DEF Acked, Logged
  <2>. QED  BY <2>1, <2>2, KeptIsOnce DEF ContentInv
<1>. QED  BY <1>1, ContentKept, PTL

\* And when nobody asks for a merge it is so at each replica that logged the write, and
\* without errors all three nodes have it before it is acknowledged.
THEOREM WritesAreReplicated == Spec => [](live = Nodes /\ NoMerge => ReplicasKept)
<1>1. ContentInv /\ NoMerge => ReplicasKept
  <2>. SUFFICES ASSUME ContentInv, NoMerge PROVE ReplicasKept
    OBVIOUS
  <2>1. ASSUME NEW q \in Reqs, NEW k \in Slots, rpc[<<q, k>>].st = "logged"
        PROVE  KeptOnce(q, rpc[<<q, k>>].to)
    <3>1. rpc[<<q, k>>].to = Backups[k] /\ Backups[k] \in Nodes
      <4>1. <<q, k>> \in Reqs \X Slots
        OBVIOUS
      <4>. QED  BY <4>1, Home DEF ContentInv, QuietInv, PlaceInv, Slots
    <3>2. q \in Logged(Backups[k])
      BY <2>1 DEF Logged
    <3>. QED  BY <3>1, <3>2, KeptIsOnce DEF ContentInv, NoMerge
  <2>2. ASSUME NEW q \in Acked, NEW k \in Slots, errs = {} PROVE rpc[<<q, k>>].st = "logged"
    <3>1. q \in Reqs /\ req[q].st = "acked"
      BY DEF Acked
    <3>2. req[q].k = 3 /\ k < 3
      BY <3>1 DEF ContentInv, QuietInv, CallInv, Slots
    <3>. QED  BY <2>2, <3>1, <3>2 DEF ContentInv, QuietInv, CallInv
  <2>3. \A c \in Reqs \X Slots : \E q \in Reqs, k \in Slots : c = <<q, k>> /\ c[1] = q
    OBVIOUS
  <2>. QED  BY <2>1, <2>2, <2>3 DEF ReplicasKept
<1>. QED  BY <1>1, ContentKept, PTL

LEMMA PrefixSelf == \A s : s \in Seq(Reqs) => IsPrefix(s, s)
<1>. SUFFICES ASSUME NEW s \in Seq(Reqs) PROVE IsPrefix(s, s)
  OBVIOUS
<1>1. Len(s) \in Nat
  BY LenProperties
<1>. QED  BY <1>1 DEF IsPrefix

LEMMA PrefixOf ==
  ASSUME NEW s \in Seq(Reqs), NEW q \in Reqs
  PROVE  IsPrefix(s, Append(s, q))
<1>1. /\ Append(s, q) \in Seq(Reqs) /\ Len(Append(s, q)) = Len(s) + 1 /\ Len(s) \in Nat
      /\ \A i \in 1 .. Len(s) : Append(s, q)[i] = s[i]
  BY AppendProperties, LenProperties
<1>. DEFINE t == Append(s, q)
<1>. HIDE DEF t
<1>2. \A i \in 1 .. Len(s) : s[i] \in Reqs /\ t[i] \in Reqs /\ t[i] = s[i]
  BY <1>1, ElementOfSeq DEF t
<1>. DEFINE a == SubSeq(s, 1, Len(s))
            b == SubSeq(t, 1, Len(s))
<1>3. /\ a \in Seq(Reqs) /\ Len(a) = Len(s)
      /\ \A i \in 1 .. Len(s) : a[i] = s[i]
  BY <1>1, <1>2, SubSeqProperties
<1>4. /\ b \in Seq(Reqs) /\ Len(b) = Len(s)
      /\ \A i \in 1 .. Len(s) : b[i] = t[i]
  BY <1>1, <1>2, SubSeqProperties
<1>. HIDE DEF a, b
<1>5. a = b
  BY <1>2, <1>3, <1>4, SeqEqual
<1>6. Len(s) <= Len(t)
  BY <1>1 DEF t
<1>. QED  BY <1>5, <1>6 DEF IsPrefix, a, b, t

\* What a node accepted keeps its place in the log and the file, whatever is appended,
\* merged or read meanwhile, errors of the appends and of the calls included, while no
\* node fails and nobody asks for a merge.
THEOREM OrderIsKept == Spec /\ [](live = Nodes /\ NoMerge) => KeptInOrder
<1>1. ASSUME ContentInv, NoMerge, NoCrash, [Next]_vars, errs' \cap {"write", "flush"} = {}, NEW n \in Nodes
      PROVE  IsPrefix(Content(n), Content(n)')
  <2>1. Content(n) \in Seq(Reqs)
    <3>1. KeptInv(n)
      BY <1>1 DEF ContentInv, NoMerge
    <3>. QED  BY <3>1 DEF KeptInv
  <2>2. Kept(n) \/ Accepted(n) \/ NotLogged(n)
    BY <1>1, ContentStep DEF ContentInv, NoMerge, NotWritten, MergedAgain
  <2>3. Content(n)' = Content(n) \/ \E q \in Reqs : Content(n)' = Append(Content(n), q)
    BY <2>2 DEF Kept, Accepted, NotLogged
  <2>. DEFINE c == Content(n)
              d == Content(n)'
  <2>. HIDE DEF c, d
  <2>4. c \in Seq(Reqs) /\ (d = c \/ \E q \in Reqs : d = Append(c, q))
    BY <2>1, <2>3 DEF c, d
  <2>5. IsPrefix(c, d)
    <3>1. CASE d = c
      BY <2>4, <3>1, PrefixSelf
    <3>2. ASSUME NEW q \in Reqs, d = Append(c, q) PROVE IsPrefix(c, d)
      BY <2>4, <3>2, PrefixOf
    <3>. QED  BY <2>4, <3>1, <3>2
  <2>. QED  BY <2>5 DEF c, d
<1>2. ContentInv /\ NoMerge /\ (live = Nodes)' /\ [Next]_vars
        => [errs' \cap {"write", "flush"} = {} => \A n \in Nodes : IsPrefix(Content(n), Content(n)')]_vars
  BY <1>1 DEF NoCrash
<1>. QED  BY <1>2, ContentKept, PTL DEF Spec, KeptInOrder


-----------------------------------------------------------------------------
(***************************************************************************)
(* Reads.                                                                  *)
(***************************************************************************)
LEMMA PrefixIs ==
  ASSUME NEW s \in Seq(Reqs), NEW t \in Seq(Reqs)
  PROVE  IsPrefix(s, t) <=> Len(s) <= Len(t) /\ \A i \in 1 .. Len(s) : s[i] = t[i]
<1>1. Len(s) \in Nat /\ Len(t) \in Nat
  BY LenProperties
<1>. DEFINE a == SubSeq(s, 1, Len(s))
            b == SubSeq(t, 1, Len(s))
<1>2. CASE Len(s) <= Len(t)
  <2>1. \A i \in 1 .. Len(s) : s[i] \in Reqs /\ t[i] \in Reqs
    <3>1. \A i \in 1 .. Len(s) : i \in 1 .. Len(t)
      BY <1>1, <1>2
    <3>. QED  BY <3>1, ElementOfSeq
  <2>2. /\ a \in Seq(Reqs) /\ Len(a) = Len(s)
        /\ \A i \in 1 .. Len(s) : a[i] = s[i]
    BY <1>1, <2>1, SubSeqProperties
  <2>3. /\ b \in Seq(Reqs) /\ Len(b) = Len(s)
        /\ \A i \in 1 .. Len(s) : b[i] = t[i]
    BY <1>1, <2>1, SubSeqProperties
  <2>. HIDE DEF a, b
  <2>4. a = b <=> \A i \in 1 .. Len(s) : s[i] = t[i]
    <3>1. (\A i \in 1 .. Len(s) : s[i] = t[i]) => a = b
      BY <2>2, <2>3, SeqEqual
    <3>2. a = b => \A i \in 1 .. Len(s) : s[i] = t[i]
      BY <2>2, <2>3
    <3>. QED  BY <3>1, <3>2
  <2>. QED  BY <1>2, <2>4 DEF IsPrefix, a, b
<1>3. CASE ~ (Len(s) <= Len(t))
  BY <1>3 DEF IsPrefix
<1>. QED  BY <1>2, <1>3

LEMMA PrefixTransitive ==
  ASSUME NEW s \in Seq(Reqs), NEW t \in Seq(Reqs), NEW u \in Seq(Reqs),
         IsPrefix(s, t), IsPrefix(t, u)
  PROVE  IsPrefix(s, u)
<1>1. Len(s) \in Nat /\ Len(t) \in Nat /\ Len(u) \in Nat
  BY LenProperties
<1>2. Len(s) <= Len(t) /\ \A i \in 1 .. Len(s) : s[i] = t[i]
  BY PrefixIs
<1>3. Len(t) <= Len(u) /\ \A i \in 1 .. Len(t) : t[i] = u[i]
  BY PrefixIs
<1>4. \A i \in 1 .. Len(s) : i \in 1 .. Len(t)
  BY <1>1, <1>2
<1>5. Len(s) <= Len(u) /\ \A i \in 1 .. Len(s) : s[i] = u[i]
  BY <1>1, <1>2, <1>3, <1>4
<1>. QED  BY <1>5, PrefixIs

LEMMA PrefixConcat ==
  ASSUME NEW s \in Seq(Reqs), NEW t \in Seq(Reqs)
  PROVE  IsPrefix(s, s \o t)
<1>. DEFINE u == s \o t
<1>1. /\ u \in Seq(Reqs) /\ Len(u) = Len(s) + Len(t) /\ Len(s) \in Nat /\ Len(t) \in Nat
      /\ \A i \in 1 .. Len(s) + Len(t) : u[i] = IF i <= Len(s) THEN s[i] ELSE t[i - Len(s)]
  BY ConcatProperties, LenProperties
<1>. HIDE DEF u
<1>2. Len(s) <= Len(u) /\ \A i \in 1 .. Len(s) : s[i] = u[i]
  BY <1>1
<1>3. IsPrefix(s, u)
  BY <1>1, <1>2, PrefixIs
<1>. QED  BY <1>3 DEF u

LEMMA PrefixRange ==
  ASSUME NEW s \in Seq(Reqs), NEW t \in Seq(Reqs), IsPrefix(s, t)
  PROVE  Range(s) \subseteq Range(t)
<1>1. Len(s) <= Len(t) /\ \A i \in 1 .. Len(s) : s[i] = t[i]
  BY PrefixIs
<1>2. DOMAIN s = 1 .. Len(s) /\ DOMAIN t = 1 .. Len(t) /\ Len(s) \in Nat /\ Len(t) \in Nat
  BY LenProperties
<1>3. \A i \in 1 .. Len(s) : i \in 1 .. Len(t)
  BY <1>1, <1>2
<1>. QED  BY <1>1, <1>2, <1>3 DEF Range

\* The primary's file is only appended to.
LEMMA FileGrows ==
  ASSUME NoCrash, QuietInv, [Next]_vars
  PROVE  /\ file[Owner] \in Seq(Reqs) /\ file'[Owner] \in Seq(Reqs)
         /\ IsPrefix(file[Owner], file'[Owner])
<1>t. /\ file \in [Nodes -> Seq(Reqs)] /\ Owner \in Nodes
      /\ file'[Owner] \in Seq(Reqs)
  BY QuietStep, Home DEF QuietInv, TypeInv, NodeType
<1>1. ASSUME file'[Owner] = file[Owner] PROVE IsPrefix(file[Owner], file'[Owner])
  BY <1>t, <1>1, PrefixSelf
<1>2. ASSUME NEW q \in Reqs, Write(q) PROVE UNCHANGED file
  BY <1>2 DEF Write, Send, Check, Log, Call, Return, Acknowledge, disk
<1>3. ASSUME NEW c \in Reqs \X Slots, Replicate(c) PROVE UNCHANGED file
  BY <1>3 DEF Replicate, RpcMap, RpcLog, RpcLost, disk
<1>4. ASSUME NEW n \in Nodes, Flush(n) PROVE IsPrefix(file[Owner], file'[Owner])
  <2>1. CASE FlushStep(n) /\ n = Owner /\ file' # file
    <3>1. /\ flush[n] # Idle /\ flush[n].i <= Len(log[n])
          /\ ~ Skipped(n, log[n][flush[n].i]) => file' = [file EXCEPT ![n] = Apply(@, log[n][flush[n].i])]
      BY <2>1 DEF FlushStep
    <3>2. OfWrites(log[n]) /\ flush[n].i \in 1 .. Len(log[n]) + 1
      BY <3>1, ContentIs DEF From
    <3>3. Len(log[n]) \in Nat
      BY <3>2, WritesType
    <3>4. flush[n].i \in 1 .. Len(log[n])
      BY <3>1, <3>2, <3>3
    <3>5. PICK q \in Reqs : log[n][flush[n].i] = Entry(q)
      BY <3>2, <3>4 DEF OfWrites
    <3>6. file'[Owner] = file[Owner] \o <<q>>
      <4>0. ~ Skipped(n, log[n][flush[n].i])
        BY <3>5 DEF Skipped, Entry
      <4>1. file'[Owner] = Apply(file[Owner], Entry(q))
        BY <1>t, <2>1, <3>1, <3>5, <4>0
      <4>. QED  BY <4>1 DEF Apply, Entry
    <3>7. <<q>> \in Seq(Reqs)
      OBVIOUS
    <3>. QED  BY <1>t, <3>6, <3>7, PrefixConcat
  <2>2. CASE ~ (FlushStep(n) /\ n = Owner /\ file' # file)
    <3>1. file'[Owner] = file[Owner]
      BY <1>t, <1>4, <2>2 DEF Flush, FlushStart, FlushStep, FlushError, FlushEnd, disk
    <3>. QED  BY <1>1, <3>1
  <2>. QED  BY <2>1, <2>2
<1>5. ASSUME NEW n \in Nodes, Merge(n) PROVE file'[Owner] = file[Owner]
  <2>1. CASE Overwrite(n)
    <3>1. n # Owner
      BY <2>1, Home, OverwriteForm DEF QuietInv, PlaceInv
    <3>2. PICK f \in Seq(Reqs) : file' = [file EXCEPT ![n] = f]
      BY <2>1, OverwriteForm DEF QuietInv
    <3>. QED  BY <1>t, <3>1, <3>2
  <2>. QED  BY <1>5, <2>1 DEF Merge, MergeSend, MergeArrive, MergeLock, disk
<1>6. ASSUME Read PROVE UNCHANGED file
  BY <1>6 DEF Read, ReadStart, ReadLock, ReadOpen, disk
<1>. QED  BY <1>t, <1>1, <1>2, <1>3, <1>4, <1>5, <1>6, CalmActions DEF vars, disk, QuietInv

\* What the reader has was in the primary's file.
SeenInv == read.got \in Seq(Reqs) /\ IsPrefix(read.got, file[Owner])

LEMMA GotWhen ==
  ASSUME NoCrash, QuietInv, [Next]_vars
  PROVE  read'.got = read.got \/ (ReadOpen /\ read'.got = file[Owner])
<1>t. read \in ReadRec
  BY DEF QuietInv, TypeInv, TaskType
<1>1. ASSUME NEW q \in Reqs, Write(q) PROVE UNCHANGED read
  BY <1>1 DEF Write, Send, Check, Log, Call, Return, Acknowledge
<1>2. ASSUME NEW c \in Reqs \X Slots, Replicate(c) PROVE UNCHANGED read
  BY <1>2 DEF Replicate, RpcMap, RpcLog, RpcLost
<1>3. ASSUME NEW n \in Nodes, Flush(n) PROVE read'.got = read.got
  BY <1>t, <1>3 DEF Flush, FlushStart, FlushStep, FlushError, FlushEnd, Resume, ReadRec
<1>4. ASSUME NEW n \in Nodes, Merge(n) PROVE UNCHANGED read
  BY <1>4 DEF Merge, MergeSend, MergeArrive, MergeLock, Overwrite, MergeRemove, MergeOpen, MergeWrite
<1>5. ASSUME Read PROVE read'.got = read.got \/ (ReadOpen /\ read'.got = file[Owner])
  <2>1. CASE ReadStart
    <3>. DEFINE st == IF NeedsMerge(Primary) THEN "lock" ELSE "open"
                m == NeedsMerge(Primary)
                k == read.n + 1
    <3>1. read' = [read EXCEPT !.st = st, !.at = Primary, !.want = Acked, !.n = k, !.first = m]
      BY <2>1 DEF ReadStart
    <3>. HIDE DEF st, m, k
    <3>. QED  BY <1>t, <3>1 DEF ReadRec
  <2>2. CASE ReadLock
    BY <1>t, <2>2 DEF ReadLock, ReadRec
  <2>3. CASE ReadOpen
    <3>1. read.at = Owner
      BY DEF QuietInv, PlaceInv
    <3>. QED  BY <1>t, <2>3, <3>1 DEF ReadOpen, ReadRec
  <2>. QED  BY <1>5, <2>1, <2>2, <2>3 DEF Read
<1>. QED  BY <1>1, <1>2, <1>3, <1>4, <1>5, CalmActions DEF vars, QuietInv

LEMMA SeenStep ==
  ASSUME NoCrash, QuietInv, SeenInv, [Next]_vars
  PROVE  SeenInv' /\ IsPrefix(read.got, read'.got)
<1>1. /\ file[Owner] \in Seq(Reqs) /\ file'[Owner] \in Seq(Reqs)
      /\ IsPrefix(file[Owner], file'[Owner])
  BY FileGrows
<1>2. read.got \in Seq(Reqs) /\ IsPrefix(read.got, file[Owner])
  BY DEF SeenInv
<1>3. IsPrefix(read.got, file'[Owner])
  BY <1>1, <1>2, PrefixTransitive
<1>4. CASE read'.got = read.got
  BY <1>2, <1>3, <1>4, PrefixSelf DEF SeenInv, Owner
<1>5. CASE read'.got = file[Owner]
  BY <1>1, <1>2, <1>5 DEF SeenInv, Owner
<1>. QED  BY <1>4, <1>5, GotWhen

LEMMA SeenKept == Spec => [](live = Nodes => QuietInv /\ SeenInv)
<1>1. Init => SeenInv
  <2>. SUFFICES ASSUME Init PROVE SeenInv
    OBVIOUS
  <2>1. file[Owner] \in Seq(Reqs) /\ read.got = <<>>
    <3>1. file[Owner] \in Seq(Reqs)
      BY Home, QuietInit DEF QuietInv, TypeInv, NodeType
    <3>2. read.got = <<>>
      BY DEF Init
    <3>. QED  BY <3>1, <3>2
  <2>2. <<>> \in Seq(Reqs)
    OBVIOUS
  <2>3. <<>> \o file[Owner] = file[Owner]
    BY <2>1, ConcatEmptySeq
  <2>4. IsPrefix(<<>>, file[Owner])
    BY <2>1, <2>2, <2>3, PrefixConcat
  <2>. QED  BY <2>1, <2>2, <2>4 DEF SeenInv
<1>2. Init => (live = Nodes => QuietInv /\ SeenInv)
  BY <1>1, QuietInit
<1>3. TypeInv /\ (live = Nodes => QuietInv /\ SeenInv) /\ [Next]_vars => (live = Nodes => QuietInv /\ SeenInv)'
  BY LiveShrinks, QuietStep, SeenStep DEF NoCrash
<1>. QED  BY <1>2, <1>3, Types, PTL DEF Spec

\* While no node fails a later read returns what an earlier one did and perhaps more,
\* whatever errors, merges and merge requests there are between the two.
THEOREM ReadsOnlyGrow == Spec /\ [](live = Nodes) => ReadsGrow
<1>1. (live = Nodes => QuietInv /\ SeenInv) /\ live = Nodes /\ (live = Nodes)' /\ [Next]_vars
        => [IsPrefix(read.got, read.got')]_vars
  BY SeenStep DEF NoCrash
<1>. QED  BY <1>1, SeenKept, PTL DEF Spec, ReadsGrow


LEMMA MergedContent ==
  ASSUME QuietInv, NEW n \in Nodes, flush[n] # Idle, flush[n].i > Len(log[n])
  PROVE  Content(n) = file[n]
<1>1. /\ OfWrites(log[n]) /\ From(n) \in 1 .. Len(log[n]) + 1
      /\ Content(n) = file[n] \o SubSeq(Writes(log[n]), From(n), Len(log[n]))
      /\ file[n] \in Seq(Reqs)
  BY ContentIs
<1>2. Len(log[n]) \in Nat
  BY <1>1, WritesType
<1>3. From(n) > Len(log[n])
  BY DEF From
<1>4. SubSeq(Writes(log[n]), From(n), Len(log[n])) = <<>>
  BY <1>1, <1>2, <1>3, SubSeqEmpty
<1>. QED  BY <1>1, <1>4, ConcatEmptySeq

\* A read that found a log never merged: all that was acknowledged before it is in the
\* log or the file, in the file once the log is merged for it, and then in its result.
FirstReadInv ==
  errs = {} /\ read.first =>
    /\ read.st \in {"lock", "flush"} => read.want \subseteq Range(Content(Owner))
    /\ read.st = "open" => read.want \subseteq Range(file[Owner])
    /\ read.st = "idle" => read.want \subseteq Range(read.got)

LEMMA FirstReadStep ==
  ASSUME NoCrash, ContentInv, FirstReadInv, [Next]_vars
  PROVE  FirstReadInv'
<1>q. QuietInv /\ QuietInv'
  BY QuietStep DEF ContentInv
<1>t. read \in ReadRec
  BY <1>q DEF QuietInv, TypeInv, TaskType
<1>1. errs \subseteq errs'
  BY <1>q, ErrsGrow DEF QuietInv
<1>2. ASSUME errs' = {} PROVE Range(Content(Owner)) \subseteq Range(Content(Owner)')
  <2>. DEFINE c == Content(Owner)
              d == Content(Owner)'
  <2>1. Owner \in Nodes /\ c \in Seq(Reqs)
    BY Home DEF ContentInv, KeptInv
  <2>2. Kept(Owner) \/ Accepted(Owner)
    BY <1>2, <1>q, <2>1, ContentStep DEF NotLogged, NotWritten, MergedAgain
  <2>3. d = c \/ \E q \in Reqs : d = Append(c, q)
    BY <2>2 DEF Kept, Accepted
  <2>. HIDE DEF c, d
  <2>4. CASE d = c
    BY <2>4 DEF c, d
  <2>5. ASSUME NEW q \in Reqs, d = Append(c, q) PROVE Range(c) \subseteq Range(d)
    BY <2>1, <2>5, AppendOnce
  <2>. QED  BY <2>3, <2>4, <2>5 DEF c, d
<1>3. Range(file[Owner]) \subseteq Range(file'[Owner])
  BY <1>q, FileGrows, PrefixRange
<1>4. CASE read' = read
  BY <1>1, <1>2, <1>3, <1>4 DEF FirstReadInv, Owner
<1>5. CASE ReadStart
  <2>1. Primary = Owner /\ Owner \in Nodes
    BY <1>q, Places, Home DEF QuietInv
  <2>. DEFINE m == NeedsMerge(Owner)
              k == read.n + 1
  <2>2. read' = [read EXCEPT !.st = IF m THEN "lock" ELSE "open", !.at = Owner, !.want = Acked, !.n = k, !.first = m]
    BY <1>5, <2>1 DEF ReadStart
  <2>. HIDE DEF m, k
  <2>3. read'.first = m /\ read'.want = Acked /\ (m => read'.st = "lock")
    BY <1>t, <2>2 DEF ReadRec
  <2>4. Acked \subseteq Logged(Owner)
    BY DEF Acked, Logged
  <2>5. errs = {} => Acked \subseteq Range(Content(Owner))
    BY <2>1, <2>4 DEF ContentInv, KeptInv
  <2>6. ASSUME errs' = {}, read'.first
        PROVE  read'.st = "lock" /\ read'.want \subseteq Range(Content(Owner)')
    BY <1>1, <1>2, <2>3, <2>5, <2>6
  <2>. QED  BY <2>6 DEF FirstReadInv, Owner
<1>6. CASE ReadLock
  <2>1. /\ read.st = "lock" /\ read'.st = "flush" /\ read'.want = read.want /\ read'.first = read.first
    BY <1>t, <1>6 DEF ReadLock, ReadRec
  <2>. QED  BY <1>1, <1>2, <2>1 DEF FirstReadInv, Owner
<1>7. CASE ReadOpen
  <2>1. /\ read.st = "open" /\ read'.st = "idle" /\ read'.want = read.want /\ read'.first = read.first
        /\ read'.got = file[Owner]
    BY <1>t, <1>7, <1>q DEF ReadOpen, ReadRec, QuietInv, PlaceInv
  <2>. QED  BY <1>1, <2>1 DEF FirstReadInv, Owner
<1>8. ASSUME NEW n \in Nodes, Flush(n), read' # read PROVE FirstReadInv'
  <2>1. /\ flush[n].by = "read" /\ read' = [read EXCEPT !.st = "open"]
        /\ FlushError(n) \/ FlushEnd(n)
    BY <1>8 DEF Flush, FlushStart, FlushStep, FlushError, FlushEnd, Resume
  <2>2. n = Owner /\ read.st = "flush"
    BY <1>q, <2>1 DEF QuietInv, CallerInv
  <2>3. read'.st = "open" /\ read'.want = read.want /\ read'.first = read.first
    BY <1>t, <2>1 DEF ReadRec
  <2>4. CASE errs' # {}
    BY <2>4 DEF FirstReadInv
  <2>5. CASE errs' = {}
    <3>1. FlushEnd(n)
      BY <2>1, <2>5 DEF FlushError, Fault
    <3>2. Content(n) = file[n]
      BY <1>q, <3>1, MergedContent DEF FlushEnd
    <3>3. file' = file
      BY <3>1 DEF FlushEnd
    <3>4. errs = {}
      BY <1>1, <2>5
    <3>5. read.first => read.want \subseteq Range(file[Owner])
      BY <2>2, <3>2, <3>4 DEF FirstReadInv
    <3>. QED  BY <2>3, <3>3, <3>5 DEF FirstReadInv, Owner
  <2>. QED  BY <2>4, <2>5
<1>9. ASSUME NEW q \in Reqs, Write(q) PROVE UNCHANGED read
  BY <1>9 DEF Write, Send, Check, Log, Call, Return, Acknowledge
<1>10. ASSUME NEW c \in Reqs \X Slots, Replicate(c) PROVE UNCHANGED read
  BY <1>10 DEF Replicate, RpcMap, RpcLog, RpcLost
<1>11. ASSUME NEW n \in Nodes, Merge(n) PROVE UNCHANGED read
  BY <1>11 DEF Merge, MergeSend, MergeArrive, MergeLock, Overwrite, MergeRemove, MergeOpen, MergeWrite
<1>. QED
  BY <1>q, <1>4, <1>5, <1>6, <1>7, <1>8, <1>9, <1>10, <1>11, CalmActions DEF vars, QuietInv, Read

\* While no node fails and no error happens, the read that finds a log never merged
\* returns all that was acknowledged before it, even if the timer merges the log while
\* the read waits for logMutex.
THEOREM FirstReadReturnsAll == Spec => [](live = Nodes => FirstReadComplete)
<1>1. Init => FirstReadInv
  BY DEF Init, FirstReadInv
<1>2. Init => (live = Nodes => ContentInv /\ FirstReadInv)
  BY <1>1, ContentInitially
<1>3. TypeInv /\ (live = Nodes => ContentInv /\ FirstReadInv) /\ [Next]_vars
        => (live = Nodes => ContentInv /\ FirstReadInv)'
  BY LiveShrinks, ContentInductive, FirstReadStep DEF NoCrash
<1>4. (live = Nodes => ContentInv /\ FirstReadInv) => (live = Nodes => FirstReadComplete)
  BY DEF FirstReadInv, FirstReadComplete
<1>. QED  BY <1>2, <1>3, <1>4, Types, PTL DEF Spec


-----------------------------------------------------------------------------
(***************************************************************************)
(* The log and the file of the primary are one append-only file.           *)
(***************************************************************************)
LEMMA AckedWhen ==
  ASSUME NoCrash, QuietInv, [Next]_vars, \A q \in Reqs : ~ Acknowledge(q)
  PROVE  Acked' = Acked
<1>t. req \in [Reqs -> ReqRec]
  BY DEF QuietInv, TypeInv, CallType
<1>1. ASSUME \A p \in Reqs : req'[p].st = "acked" <=> req[p].st = "acked" PROVE Acked' = Acked
  BY <1>1 DEF Acked
<1>2. ASSUME NEW q \in Reqs, Write(q) PROVE Acked' = Acked
  <2>1. /\ req[q].st # "acked" /\ req'[q].st # "acked"
        /\ \A p \in Reqs \ {q} : req'[p] = req[p]
    <3>1. CASE Send(q)
      BY <1>t, <3>1 DEF Send, ReqRec
    <3>2. CASE Check(q)
      BY <1>t, <3>2 DEF Check, ReqRec
    <3>3. CASE Log(q)
      BY <1>t, <3>3 DEF Log, ReqRec
    <3>4. CASE Call(q)
      BY <1>t, <3>4 DEF Call, ReqRec
    <3>5. CASE Return(q)
      BY <1>t, <3>5 DEF Return, ReqRec
    <3>. QED  BY <1>2, <3>1, <3>2, <3>3, <3>4, <3>5 DEF Write
  <2>. QED  BY <1>1, <2>1
<1>3. ASSUME UNCHANGED req PROVE Acked' = Acked
  BY <1>3 DEF Acked
<1>4. ASSUME NEW c \in Reqs \X Slots, Replicate(c) PROVE UNCHANGED req
  BY <1>4 DEF Replicate, RpcMap, RpcLog, RpcLost
<1>5. ASSUME NEW n \in Nodes, Flush(n) PROVE UNCHANGED req
  BY <1>5 DEF Flush, FlushStart, FlushStep, FlushError, FlushEnd
<1>6. ASSUME NEW n \in Nodes, Merge(n) PROVE UNCHANGED req
  BY <1>6 DEF Merge, MergeSend, MergeArrive, MergeLock, Overwrite, MergeRemove, MergeOpen, MergeWrite
<1>7. ASSUME Read PROVE UNCHANGED req
  BY <1>7 DEF Read, ReadStart, ReadLock, ReadOpen
<1>. QED  BY <1>2, <1>3, <1>4, <1>5, <1>6, <1>7, CalmActions DEF vars, QuietInv

LEMMA RefinedStep ==
  ASSUME NoCrash, ContentInv, SeenInv, [Next]_vars, errs' \subseteq {"rpc"}
  PROVE  [FileAtPrimary!Next]_(FileAtPrimary!fvars)
<1>. DEFINE c == Content(Owner)
            d == Content(Owner)'
<1>q. QuietInv /\ Owner \in Nodes
  BY Home DEF ContentInv
<1>r. /\ \A s : FileAtPrimary!Range(s) = Range(s)
      /\ \A s, t : FileAtPrimary!IsPrefix(s, t) = IsPrefix(s, t)
  BY DEF Range, FileAtPrimary!Range, IsPrefix, FileAtPrimary!IsPrefix
<1>1. errs \subseteq {"rpc"}
  BY <1>q, ErrsGrow DEF QuietInv
<1>2. c \in Seq(Reqs) /\ Logged(Owner) \subseteq Range(c) /\ Range(c) \subseteq Logged(Owner)
  BY <1>q, <1>1 DEF ContentInv, KeptInv
<1>3. ASSUME NEW q \in Reqs, Acknowledge(q) PROVE FileAtPrimary!Acknowledge(q)
  <2>1. d = c
    BY <1>3, <1>q, SameWhere DEF Acknowledge, disk
  <2>2. q \in Range(c)
    <3>1. q \in Logged(Owner)
      BY <1>3 DEF Acknowledge, Logged
    <3>. QED  BY <1>2, <3>1
  <2>3. Acked' = Acked \cup {q}
    <3>1. req \in [Reqs -> ReqRec]
      BY <1>q DEF QuietInv, TypeInv, CallType
    <3>2. req'[q].st = "acked" /\ \A p \in Reqs \ {q} : req'[p] = req[p]
      BY <1>3, <3>1 DEF Acknowledge, ReqRec
    <3>. QED  BY <3>2 DEF Acked
  <2>4. read' = read
    BY <1>3 DEF Acknowledge
  <2>. HIDE DEF c, d
  <2>. QED  BY <1>r, <2>1, <2>2, <2>3, <2>4 DEF FileAtPrimary!Acknowledge, c, d
<1>4. CASE ReadOpen
  <2>1. d = c /\ Acked' = Acked
    BY <1>4, <1>q, SameWhere DEF ReadOpen, disk, Acked
  <2>2. IsPrefix(read.got, read'.got)
    BY <1>q, SeenStep
  <2>3. IsPrefix(read'.got, c)
    <3>1. read'.got = file[Owner]
      <4>1. read \in ReadRec /\ read.at = Owner
        BY <1>q DEF QuietInv, TypeInv, TaskType, PlaceInv
      <4>. QED  BY <1>4, <4>1 DEF ReadOpen, ReadRec
    <3>2. /\ c = file[Owner] \o SubSeq(Writes(log[Owner]), From(Owner), Len(log[Owner]))
          /\ SubSeq(Writes(log[Owner]), From(Owner), Len(log[Owner])) \in Seq(Reqs)
          /\ file[Owner] \in Seq(Reqs)
      BY <1>q, ContentIs
    <3>. HIDE DEF c
    <3>. QED  BY <3>1, <3>2, PrefixConcat
  <2>. HIDE DEF c, d
  <2>4. FileAtPrimary!Read
    BY <1>r, <2>1, <2>2, <2>3 DEF FileAtPrimary!Read, c, d
  <2>. QED  BY <2>4 DEF FileAtPrimary!Next
<1>5. CASE (\A q \in Reqs : ~ Acknowledge(q)) /\ ~ ReadOpen
  <2>1. Acked' = Acked /\ read'.got = read.got
    BY <1>q, <1>5, AckedWhen, GotWhen
  <2>2. Kept(Owner) \/ Accepted(Owner)
    BY <1>q, ContentStep DEF NotLogged, NotWritten, MergedAgain
  <2>3. CASE Kept(Owner)
    BY <2>1, <2>3 DEF Kept, FileAtPrimary!fvars
  <2>4. CASE Accepted(Owner)
    <3>1. PICK q \in Reqs \ Logged(Owner) : d = Append(c, q)
      BY <2>4 DEF Accepted
    <3>2. q \in Reqs /\ q \notin Range(c)
      BY <1>2, <3>1
    <3>. HIDE DEF c, d
    <3>3. FileAtPrimary!Accept(q)
      BY <1>r, <2>1, <3>1, <3>2 DEF FileAtPrimary!Accept, c, d
    <3>. QED  BY <3>2, <3>3 DEF FileAtPrimary!Next
  <2>. QED  BY <2>2, <2>3, <2>4
<1>. QED  BY <1>3, <1>4, <1>5 DEF FileAtPrimary!Next

\* While no node fails and nothing fails but calls to replicas, the primary's log and file
\* are one append-only file: writes are accepted one after the other and acknowledged
\* after that, and reads see prefixes of them that do not get shorter.
THEOREM PrimaryIsAFile ==
  ASSUME Before = <<>>
  PROVE  Spec /\ [](live = Nodes /\ errs \subseteq {"rpc"}) => ImplementsFile
<1>1. Init => FileAtPrimary!Init
  <2>. SUFFICES ASSUME Init PROVE FileAtPrimary!Init
    OBVIOUS
  <2>1. \A q \in Reqs : ~ Done(q)
    BY DEF Done, Range
  <2>2. Acked = {} /\ read.got = <<>>
    BY <2>1 DEF Init, Acked
  <2>3. Content(Owner) = <<>>
    <3>1. Owner \in Nodes /\ KeptInv(Owner) /\ errs = {}
      BY Home, KeptInit DEF Init
    <3>2. Logged(Owner) = {}
      <4>1. /\ \A q \in Reqs : req[q].st = "new"
            /\ \A q \in Reqs, k \in Slots : rpc[<<q, k>>].st = "none"
        BY <2>1 DEF Init
      <4>. QED  BY <4>1 DEF Logged
    <3>3. Content(Owner) \in Seq(Reqs) /\ Range(Content(Owner)) = {}
      BY <3>1, <3>2 DEF KeptInv
    <3>. DEFINE c == Content(Owner)
    <3>. HIDE DEF c
    <3>4. c \in Seq(Reqs) /\ Range(c) = {}
      BY <3>3 DEF c
    <3>5. DOMAIN c = 1 .. Len(c) /\ Len(c) \in Nat /\ DOMAIN c = {}
      BY <3>4, LenProperties DEF Range
    <3>6. Len(c) = 0
      BY <3>5
    <3>. QED  BY <3>4, <3>6, EmptySeq DEF c
  <2>. QED  BY <2>2, <2>3 DEF FileAtPrimary!Init
<1>2. (live = Nodes => ContentInv) /\ (live = Nodes => QuietInv /\ SeenInv)
        /\ (live = Nodes /\ errs \subseteq {"rpc"}) /\ (live = Nodes /\ errs \subseteq {"rpc"})' /\ [Next]_vars
        => [FileAtPrimary!Next]_(FileAtPrimary!fvars)
  BY RefinedStep DEF NoCrash
<1>. QED  BY <1>1, <1>2, ContentKept, SeenKept, PTL DEF Spec, ImplementsFile, FileAtPrimary!Spec


-----------------------------------------------------------------------------
(***************************************************************************)
(* Merge requests.                                                         *)
(***************************************************************************)
\* Nothing is written any more and all logs are merged: files change by merges only.
Still ==
  /\ \A n \in Nodes : log[n] = <<>>
  /\ \A q \in Reqs : req[q].st \in {"acked", "refused", "failed"}
  /\ \A c \in Reqs \X Slots : rpc[c].st \notin {"sent", "mapped"}

\* A merge asked for when all was still carries the primary's file, and leaves it behind.
MergedInv(n) ==
  /\ Still /\ merge[n].data = file[Owner] /\ merge[n].st # "unlinked"
  /\ merge[n].st = "opened" => file[n] = <<>>
  /\ merge[n].st = "merged" => file[n] = file[Owner]
MergeInv == \A n \in Nodes : merge[n].st # "none" /\ merge[n].calm => MergedInv(n)

LEMMA StillStep ==
  ASSUME NoCrash, QuietInv, Still, [Next]_vars
  PROVE  /\ Still' /\ file'[Owner] = file[Owner]
         /\ \A n \in Nodes : ~ Overwrite(n) => file'[n] = file[n]
<1>t. /\ file \in [Nodes -> Seq(Reqs)] /\ log \in [Nodes -> Seq(EntryRec)] /\ flush \in [Nodes -> FlushRec]
      /\ Owner \in Nodes
  BY Home DEF QuietInv, TypeInv, NodeType
<1>1. ASSUME NEW q \in Reqs PROVE ~ Write(q)
  BY DEF Write, Send, Check, Log, Call, Return, Acknowledge, Still
<1>2. ASSUME NEW c \in Reqs \X Slots PROVE ~ Replicate(c)
  BY DEF Replicate, RpcMap, RpcLog, RpcLost, Still
<1>3. ASSUME NEW n \in Nodes, Flush(n) PROVE UNCHANGED <<file, req, rpc>> /\ log' = log
  <2>1. Len(log[n]) = 0 /\ (flush[n] # Idle => flush[n].i \in 1 .. 1)
    <3>1. log[n] = <<>> /\ Len(<<>>) = 0
      BY DEF Still
    <3>2. flush[n] # Idle => flush[n].i \in 1 .. Len(log[n]) + 1
      BY DEF QuietInv, TypeInv, FlushInv
    <3>. QED  BY <3>1, <3>2
  <2>2. ~ FlushStep(n) /\ ~ FlushError(n)
    BY <2>1 DEF FlushStep, FlushError
  <2>3. ClearLog(n) => log' = log
    BY <1>t DEF ClearLog, Still
  <2>. QED  BY <1>3, <2>2, <2>3 DEF Flush, FlushStart, FlushEnd, disk
<1>4. ASSUME NEW n \in Nodes, Merge(n)
      PROVE  /\ UNCHANGED <<log, req, rpc>> /\ file'[Owner] = file[Owner]
             /\ \A m \in Nodes : ~ Overwrite(m) => file'[m] = file[m]
  <2>1. CASE Overwrite(n)
    <3>1. n # Owner /\ UNCHANGED <<log, req, rpc>>
      BY <2>1, Home, OverwriteForm DEF QuietInv, PlaceInv
    <3>2. PICK f \in Seq(Reqs) : file' = [file EXCEPT ![n] = f]
      BY <2>1, OverwriteForm DEF QuietInv
    <3>. QED  BY <1>t, <2>1, <3>1, <3>2
  <2>. QED  BY <1>4, <2>1 DEF Merge, MergeSend, MergeArrive, MergeLock, disk
<1>5. ASSUME Read PROVE UNCHANGED <<file, log, req, rpc>>
  BY <1>5 DEF Read, ReadStart, ReadLock, ReadOpen, disk
<1>6. UNCHANGED <<log, req, rpc>> => Still'
  BY DEF Still
<1>. QED  BY <1>1, <1>2, <1>3, <1>4, <1>5, <1>6, CalmActions DEF vars, disk, QuietInv

\* What MergeFile makes of the copy and of the call when nothing else is written.
LEMMA OverwriteStep ==
  ASSUME QuietInv, NEW n \in Nodes, MergedInv(n), Overwrite(n),
         file'[Owner] = file[Owner], Still'
  PROVE  MergedInv(n)'
<1>t. file \in [Nodes -> Seq(Reqs)] /\ merge \in [Nodes -> MergeRec]
  BY DEF QuietInv, TypeInv, NodeType, TaskType
<1>m. ASSUME NEW st, merge' = [merge EXCEPT ![n].st = st]
      PROVE  merge'[n].st = st /\ merge'[n].data = merge[n].data
  BY <1>t, <1>m DEF MergeRec
<1>0. \A st : MergeGoesOn(n, st) =>
        merge'[n].data = merge[n].data /\ merge'[n].st = IF MergeFails(n) THEN "failed" ELSE st
  BY <1>m DEF MergeGoesOn, MergeFails
<1>d. Owner' = Owner
  BY DEF Owner
<1>1. CASE MergeRemove(n)
  BY <1>0, <1>1, <1>d DEF MergedInv, MergeRemove
<1>2. CASE MergeOpen(n)
  <2>1. ~ MergeFails(n) => file'[n] = <<>>
    BY <1>t, <1>2 DEF MergeOpen
  <2>. QED  BY <1>0, <1>2, <1>d, <2>1 DEF MergedInv, MergeOpen
<1>3. CASE MergeWrite(n)
  <2>1. merge[n].st = "opened" /\ file[n] = <<>>
    BY <1>3 DEF MergeWrite, MergedInv
  <2>2. ~ MergeFails(n) => file'[n] = merge[n].data \o SubSeq(<<>>, Len(merge[n].data) + 1, Len(<<>>))
    BY <1>t, <1>3, <2>1 DEF MergeWrite
  <2>3. ~ MergeFails(n) => file'[n] = merge[n].data
    <3>1. merge[n].data \in Seq(Reqs) /\ Len(merge[n].data) \in Nat
      BY <1>t DEF MergeRec
    <3>2. SubSeq(<<>>, Len(merge[n].data) + 1, Len(<<>>)) = <<>>
      BY <3>1
    <3>3. merge[n].data \o <<>> = merge[n].data
      BY <3>1, ConcatEmptySeq
    <3>. QED  BY <2>2, <3>2, <3>3
  <2>4. merge'[n].data = merge[n].data /\ merge'[n].st = IF MergeFails(n) THEN "failed" ELSE "merged"
    BY <1>0, <1>3 DEF MergeWrite
  <2>5. Still' /\ merge[n].data = file[Owner]
    BY DEF MergedInv
  <2>. QED  BY <1>d, <2>3, <2>4, <2>5 DEF MergedInv
<1>. QED  BY <1>1, <1>2, <1>3 DEF Overwrite

LEMMA MergeStep ==
  ASSUME NoCrash, QuietInv, QuietInv', MergeInv, [Next]_vars
  PROVE  MergeInv'
<1>t. /\ file \in [Nodes -> Seq(Reqs)] /\ merge \in [Nodes -> MergeRec] /\ Owner \in Nodes
  BY Home DEF QuietInv, TypeInv, NodeType, TaskType
<1>p. Primary = Owner /\ live = Nodes
  BY Places DEF QuietInv, CalmInv
<1>. SUFFICES ASSUME NEW n \in Nodes, merge'[n].st # "none", merge'[n].calm
              PROVE  MergedInv(n)'
  BY DEF MergeInv
<1>d. Owner' = Owner
  BY DEF Owner
\* Unless it is asked for now, it was calm before.
<1>1. CASE MergeSend(n)
  <2>1. /\ merge'[n].data = file[Owner] /\ merge'[n].st = "sent" /\ UNCHANGED disk
        /\ merge'[n].calm = (Settled /\ \A q \in Reqs : req[q].st # "new")
    BY <1>t, <1>1, <1>p DEF MergeSend
  <2>2. Still
    BY <2>1, <1>p DEF Settled, Still
  <2>. QED  BY <1>d, <2>1, <2>2, StillStep DEF MergedInv, disk
<1>2. ASSUME merge[n].st # "none", merge'[n].calm = merge[n].calm, merge'[n].data = merge[n].data,
             merge'[n].st \in {merge[n].st, "lock", "flush", "write"}, ~ Overwrite(n)
      PROVE  MergedInv(n)'
  <2>1. MergedInv(n)
    BY <1>2 DEF MergeInv
  <2>2. Still' /\ file'[Owner] = file[Owner] /\ file'[n] = file[n]
    BY <1>2, <2>1, StillStep DEF MergedInv
  <2>. QED  BY <1>2, <1>d, <2>1, <2>2 DEF MergedInv
<1>3. ASSUME Overwrite(n)
      PROVE  MergedInv(n)'
  <2>1. PICK st : merge' = [merge EXCEPT ![n].st = st]
    BY <1>3, OverwriteForm DEF QuietInv
  <2>2. merge[n].st # "none" /\ merge'[n].calm = merge[n].calm
    <3>1. merge[n].st # "none"
      BY <1>3, OverwriteForm DEF QuietInv
    <3>2. merge'[n].calm = merge[n].calm
      BY <1>t, <2>1 DEF MergeRec
    <3>. QED  BY <3>1, <3>2
  <2>3. MergedInv(n)
    BY <2>2 DEF MergeInv
  <2>. QED  BY <1>3, <2>3, StillStep, OverwriteStep DEF MergedInv
<1>4. ASSUME merge'[n] = merge[n] PROVE MergedInv(n)'
  BY <1>2, <1>3, <1>4
<1>5. ASSUME NEW q \in Reqs, Write(q) PROVE UNCHANGED merge
  BY <1>5 DEF Write, Send, Check, Log, Call, Return, Acknowledge
<1>6. ASSUME NEW c \in Reqs \X Slots, Replicate(c) PROVE UNCHANGED merge
  BY <1>6 DEF Replicate, RpcMap, RpcLog, RpcLost
<1>7. ASSUME Read PROVE UNCHANGED merge
  BY <1>7 DEF Read, ReadStart, ReadLock, ReadOpen
<1>8. ASSUME NEW m \in Nodes, Flush(m) PROVE MergedInv(n)'
  <2>1. CASE merge'[n] # merge[n]
    <3>1. m = n /\ flush[n].by = "merge" /\ merge' = [merge EXCEPT ![n].st = "write"]
      BY <1>t, <1>8, <2>1 DEF Flush, FlushStart, FlushStep, FlushError, FlushEnd, Resume
    <3>2. merge[n].st = "flush"
      BY <3>1 DEF QuietInv, CallerInv
    <3>3. ~ Overwrite(n)
      BY <3>2, OverwriteForm DEF QuietInv
    <3>4. merge'[n].st = "write" /\ merge'[n].calm = merge[n].calm /\ merge'[n].data = merge[n].data
      BY <1>t, <3>1 DEF MergeRec
    <3>. QED  BY <1>2, <3>2, <3>3, <3>4
  <2>. QED  BY <1>4, <2>1
<1>9. ASSUME NEW m \in Nodes, Merge(m), ~ MergeSend(n) PROVE MergedInv(n)'
  <2>1. CASE m # n
    <3>1. CASE Overwrite(m)
      <4>1. PICK st : merge' = [merge EXCEPT ![m].st = st]
        BY <3>1, OverwriteForm DEF QuietInv
      <4>. QED  BY <1>t, <1>4, <2>1, <4>1
    <3>2. CASE ~ Overwrite(m)
      <4>1. merge'[n] = merge[n]
        BY <1>t, <1>9, <2>1, <3>2 DEF Merge, MergeSend, MergeArrive, MergeLock
      <4>. QED  BY <1>4, <4>1
    <3>. QED  BY <3>1, <3>2
  <2>2. CASE m = n
    <3>1. CASE MergeArrive(n)
      <4>1. merge[n].st = "sent" /\ merge'[n].st \in {"lock", "write"}
            /\ merge'[n].calm = merge[n].calm /\ merge'[n].data = merge[n].data
        BY <1>t, <3>1 DEF MergeArrive, MergeRec
      <4>2. ~ Overwrite(n)
        BY <4>1, OverwriteForm DEF QuietInv
      <4>. QED  BY <1>2, <4>1, <4>2
    <3>2. CASE MergeLock(n)
      <4>1. merge[n].st = "lock" /\ merge'[n].st = "flush"
            /\ merge'[n].calm = merge[n].calm /\ merge'[n].data = merge[n].data
        BY <1>t, <3>2 DEF MergeLock, MergeRec
      <4>2. ~ Overwrite(n)
        BY <4>1, OverwriteForm DEF QuietInv
      <4>. QED  BY <1>2, <4>1, <4>2
    <3>. QED  BY <1>3, <1>9, <2>2, <3>1, <3>2 DEF Merge
  <2>. QED  BY <2>1, <2>2
<1>. QED
  BY <1>1, <1>4, <1>5, <1>6, <1>7, <1>8, <1>9, CalmActions DEF vars, QuietInv

\* While no node fails, a merge asked for when all writes were done and all logs merged
\* leaves the replica with the file of the primary, whatever errors it had lost or
\* repeated writes by, and whatever other merges and reads go on.
THEOREM MergeMakesGood == Spec => []MergeRestores
<1>1. Init => (live = Nodes => QuietInv /\ MergeInv)
  <2>1. Init => MergeInv
    BY DEF Init, MergeInv
  <2>. QED  BY <2>1, QuietInit
<1>2. TypeInv /\ (live = Nodes => QuietInv /\ MergeInv) /\ [Next]_vars => (live = Nodes => QuietInv /\ MergeInv)'
  BY LiveShrinks, QuietStep, MergeStep DEF NoCrash
<1>3. (live = Nodes => QuietInv /\ MergeInv) => MergeRestores
  <2>. SUFFICES ASSUME live = Nodes, QuietInv, MergeInv, NEW n \in Nodes, merge[n].st = "merged", merge[n].calm
                PROVE  file[n] = file[Primary]
    BY DEF MergeRestores
  <2>1. Primary = Owner
    BY Places DEF QuietInv
  <2>2. file[n] = file[Owner]
    BY DEF MergeInv, MergedInv
  <2>. QED  BY <2>1, <2>2
<1>. QED  BY <1>1, <1>2, <1>3, Types, PTL DEF Spec
=============================================================================
