------------------------ MODULE FailureDetector_proofs ------------------------
(***************************************************************************)
(* Proofs that the variables of the failure detector keep their types,     *)
(* that no peer is dropped from the membership list before HyDFS has got   *)
(* its failure unless it left (DroppedIsSignalled), that                   *)
(* MemberShipListMutex is held only by a goroutine inside markNodeFailed   *)
(* (MutexReleased), and that a peer that answers stays in the list when    *)
(* another one fails (PromptSurvives), for every value of the constants.   *)
(***************************************************************************)
EXTENDS FailureDetector, TLAPS, SequenceTheorems

\* The listener is inside an action on a message only while it has one, and sends on a
\* channel only while there is one.
ListenerInv ==
  /\ lis.pc \in {"signal", "remove"} => lis.todo[lis.p] # <<>>
  /\ lis.pc = "ack" => ackMap[lis.p] # 0

\* A LEFT message was sent by another node.
LeftIsGossip(msgs) ==
  \A p \in Peers : \A i \in 1 .. Len(msgs[p]) : msgs[p][i] = "LEFT" => <<"LEFT", p>> \in Gossip

\* Whoever is about to drop a peer from the list has told HyDFS.
ToldInv ==
  /\ \A c \in Pings : ping[c] \in {"remove", "told"} => c[1] \in signalled
  /\ lis.pc = "remove" => lis.p \in signalled

DropInv == LeftIsGossip(buf) /\ LeftIsGossip(lis.todo) /\ ToldInv /\ DroppedIsSignalled

\* The mutex is held by a goroutine inside markNodeFailed while suspicion was always off.
MutexInv == (mlm /\ ~wasOn) => \E c \in Pings : ping[c] \in {"signal", "remove"}
ModeInv  == SuspicionModeEnabled => wasOn

Ind == TypeOK /\ ListenerInv /\ DropInv /\ MutexInv /\ ModeInv

-----------------------------------------------------------------------------
(* What the operators return. *)

\* The buffers and the listener's messages, after a message was added or settled.
LEMMA SayType ==
  ASSUME NEW b \in Msgs, NEW p \in Peers, NEW type \in Types
  PROVE  [b EXCEPT ![p] = Append(@, type)] \in Msgs
BY AppendProperties DEF Msgs

LEMMA SayLeft ==
  ASSUME NEW b \in Msgs, NEW p \in Peers, NEW type \in Types, LeftIsGossip(b),
         type = "LEFT" => <<"LEFT", p>> \in Gossip
  PROVE  LeftIsGossip([b EXCEPT ![p] = Append(@, type)])
<1>. DEFINE c == [b EXCEPT ![p] = Append(@, type)]
<1>1. ASSUME NEW q \in Peers, NEW i \in 1 .. Len(c[q]), c[q][i] = "LEFT"
      PROVE  <<"LEFT", q>> \in Gossip
  <2>1. CASE q # p
    BY <1>1, <2>1 DEF Msgs, LeftIsGossip
  <2>2. CASE q = p
    <3>1. c[q] = Append(b[p], type) /\ b[p] \in Seq(Types)
      BY <2>2 DEF Msgs
    <3>2. /\ Len(c[q]) = Len(b[p]) + 1 /\ c[q][Len(b[p]) + 1] = type
          /\ \A j \in 1 .. Len(b[p]) : c[q][j] = b[p][j]
      BY <3>1, AppendProperties
    <3>3. Len(b[p]) \in Nat
      BY <3>1, LenProperties
    <3>. HIDE DEF c
    <3>. QED  BY <1>1, <2>2, <3>2, <3>3 DEF LeftIsGossip
  <2>. QED  BY <2>1, <2>2
<1>. QED  BY <1>1 DEF LeftIsGossip

\* RemoveConflictMessages keeps messages that were there.
LEMMA ResolvedType ==
  ASSUME NEW b \in Msgs, NEW on, NEW r \in Resolved(b, on)
  PROVE  /\ r \in Msgs
         /\ LeftIsGossip(b) => LeftIsGossip(r)
<1>1. \A type \in Types : <<type>> \in Seq(Types) /\ Len(<<type>>) = 1 /\ <<type>>[1] = type
  OBVIOUS
<1>2. <<>> \in Seq(Types) /\ Len(<<>>) = 0
  OBVIOUS
<1>3. r \in [Peers -> {<<>>} \cup {<<type>> : type \in Types}]
  BY DEF Resolved
<1>4. \A x \in {<<>>} \cup {<<type>> : type \in Types} : x \in Seq(Types)
  BY <1>1, <1>2
<1>5. r \in Msgs
  BY <1>3, <1>4 DEF Msgs
<1>6. ASSUME LeftIsGossip(b), NEW p \in Peers, NEW i \in 1 .. Len(r[p]), r[p][i] = "LEFT"
      PROVE  <<"LEFT", p>> \in Gossip
  <2>1. r[p] # <<>> /\ b[p] \in Seq(Types)
    BY <1>2, <1>6 DEF Msgs
  <2>2. PICK j \in 1 .. Len(b[p]) : r[p] = <<b[p][j]>>
    <3>1. b[p] # <<>> /\ Len(b[p]) \in Nat \ {0}
      BY <2>1, EmptySeq DEF Resolved
    <3>. QED  BY <2>1, <3>1 DEF Resolved
  <2>3. b[p][j] = "LEFT"
    BY <1>6, <2>2
  <2>. QED  BY <1>6, <2>3 DEF LeftIsGossip
<1>. QED  BY <1>5, <1>6 DEF LeftIsGossip

\* What the listener goes on to do, given what is left of its messages.
LEMMA ActingType ==
  ASSUME NEW b \in Msgs
  PROVE  /\ Acting(b) \in [pc : {"read", "act"}, p : Peers, todo : Msgs]
         /\ Acting(b).todo = b
<1>1. NoMsgs \in Msgs /\ (CHOOSE p \in Peers : TRUE) \in Peers
  BY DetectorAssumption DEF NoMsgs, Msgs
<1>2. /\ Reading \in [pc : {"read", "act"}, p : Peers, todo : Msgs]
      /\ Reading.todo = NoMsgs
  BY <1>1 DEF Reading
<1>3. /\ [Reading EXCEPT !.pc = "act", !.todo = b] \in [pc : {"read", "act"}, p : Peers, todo : Msgs]
      /\ [Reading EXCEPT !.pc = "act", !.todo = b].todo = b
  BY <1>1 DEF Reading
<1>. QED  BY <1>2, <1>3 DEF Acting

LEMMA DoneType ==
  ASSUME NEW b \in Msgs, NEW p \in Peers, b[p] # <<>>
  PROVE  /\ [b EXCEPT ![p] = Tail(@)] \in Msgs
         /\ LeftIsGossip(b) => LeftIsGossip([b EXCEPT ![p] = Tail(@)])
<1>. DEFINE c == [b EXCEPT ![p] = Tail(@)]
<1>1. b[p] \in Seq(Types)
  BY DEF Msgs
<1>2. /\ Tail(b[p]) \in Seq(Types) /\ Len(b[p]) \in Nat \ {0} /\ Len(Tail(b[p])) = Len(b[p]) - 1
      /\ \A i \in 1 .. Len(Tail(b[p])) : Tail(b[p])[i] = b[p][i + 1]
  BY <1>1, HeadTailProperties, EmptySeq
<1>3. c \in Msgs
  BY <1>2, Zenon DEF Msgs
<1>4. ASSUME LeftIsGossip(b), NEW q \in Peers, NEW i \in 1 .. Len(c[q]), c[q][i] = "LEFT"
      PROVE  <<"LEFT", q>> \in Gossip
  <2>1. CASE q # p
    BY <1>4, <2>1 DEF Msgs, LeftIsGossip
  <2>2. CASE q = p
    <3>1. c[q] = Tail(b[p])
      BY <2>2 DEF Msgs
    <3>. HIDE DEF c
    <3>2. Len(c[q]) = Len(b[p]) - 1 /\ c[q][i] = b[p][i + 1]
      BY <1>2, <1>4, <3>1
    <3>3. i + 1 \in 1 .. Len(b[p]) /\ b[p][i + 1] = "LEFT"
      BY <1>2, <1>4, <3>2
    <3>. QED  BY <1>4, <2>2, <3>3 DEF LeftIsGossip
  <2>. QED  BY <2>1, <2>2
<1>. QED  BY <1>3, <1>4 DEF LeftIsGossip


-----------------------------------------------------------------------------
(* The initial states. *)

LEMMA Bounds ==
  /\ MaxPings \in Nat /\ MaxCrashes \in Nat /\ MaxFaults \in Nat
  /\ MaxGossip \in Nat /\ MaxSwitches \in Nat /\ MaxMishaps \in Nat
  /\ (CHOOSE p \in Peers : TRUE) \in Peers
BY DetectorAssumption

LEMMA InitInd == Init => Ind
<1>. SUFFICES ASSUME Init PROVE Ind
  OBVIOUS
<1>1. NoMsgs \in Msgs /\ LeftIsGossip(NoMsgs)
  BY DEF NoMsgs, Msgs, LeftIsGossip
<1>2. /\ Reading \in [pc : {"read", "ack", "act", "signal", "remove"}, p : Peers, todo : Msgs]
      /\ Reading.todo = NoMsgs /\ Reading.pc = "read"
  BY <1>1, Bounds DEF Reading
<1>3. /\ round \in [pc : {"tick", "send"}, todo : SUBSET Peers]
      /\ leader \in [pc : {"wait", "sleep"}, got : SUBSET Peers]
      /\ hy \in [pc : {"wait", "forward", "batch"}, failed : SUBSET Peers, todo : SUBSET Peers,
                 last : Peers]
  BY Bounds DEF Init
<1>4. ping \in [Pings -> {"none", "wait", "old", "acked", "late", "signal", "remove", "sleep", "tell", "told"}]
  BY DEF Init, NoPing
<1>5. TypeOK
  <2>1. alive \subseteq Peers /\ signalled \subseteq Peers
    BY DEF Init
  <2>2. acks \in [Peers -> Nat] /\ list \in [Peers -> Statuses] /\ ackMap \in [Peers -> 0 .. MaxPings]
    BY Bounds DEF Init, Statuses
  <2>3. /\ crashes \in 0 .. MaxCrashes /\ faults \in 0 .. MaxFaults /\ gossips \in 0 .. MaxGossip
        /\ switches \in 0 .. MaxSwitches
    BY Bounds DEF Init
  <2>4. mlm \in BOOLEAN /\ SuspicionModeEnabled \in BOOLEAN /\ wasOn \in BOOLEAN
    BY DEF Init
  <2>5. buf \in Msgs /\ lis \in [pc : {"read", "ack", "act", "signal", "remove"}, p : Peers, todo : Msgs]
    BY <1>1, <1>2 DEF Init
  <2>. QED  BY <1>3, <1>4, <2>1, <2>2, <2>3, <2>4, <2>5 DEF TypeOK
<1>6. ListenerInv /\ DropInv /\ MutexInv /\ ModeInv
  BY <1>1, <1>2 DEF Init, ListenerInv, DropInv, ToldInv, DroppedIsSignalled, MutexInv, ModeInv, NoPing
<1>. QED  BY <1>5, <1>6 DEF Ind

-----------------------------------------------------------------------------
(* Types. *)
PingStates == {"none", "wait", "old", "acked", "late", "signal", "remove", "sleep", "tell", "told"}
LisRec     == [pc : {"read", "ack", "act", "signal", "remove"}, p : Peers, todo : Msgs]
EnvType ==
  /\ alive \subseteq Peers /\ acks \in [Peers -> Nat]
  /\ crashes \in 0 .. MaxCrashes /\ faults \in 0 .. MaxFaults /\ gossips \in 0 .. MaxGossip
  /\ SuspicionModeEnabled \in BOOLEAN /\ wasOn \in BOOLEAN /\ switches \in 0 .. MaxSwitches
NodeType ==
  /\ list \in [Peers -> Statuses] /\ mlm \in BOOLEAN /\ buf \in Msgs
  /\ ackMap \in [Peers -> 0 .. MaxPings] /\ ping \in [Pings -> PingStates]
  /\ lis \in LisRec /\ signalled \subseteq Peers
ChainType ==
  /\ round \in [pc : {"tick", "send"}, todo : SUBSET Peers]
  /\ hy \in [pc : {"wait", "forward", "batch"}, failed : SUBSET Peers, todo : SUBSET Peers,
             last : Peers]
  /\ leader \in [pc : {"wait", "sleep"}, got : SUBSET Peers]

LEMMA TypeParts == TypeOK <=> EnvType /\ NodeType /\ ChainType
BY DEF TypeOK, EnvType, NodeType, ChainType, PingStates, LisRec

\* The budgets.
LEMMA EnvNext ==
  ASSUME EnvType, Next
  PROVE  EnvType'
<1>1. ASSUME \/ UNCHANGED faults
             \/ Fault
      PROVE  faults' \in 0 .. MaxFaults
  BY <1>1, Bounds DEF Fault, EnvType
<1>2. ASSUME NEW p \in Peers, Crash(p) PROVE EnvType'
  BY <1>2, Bounds DEF EnvType, Crash, mode
<1>3. ASSUME NEW p \in Peers, AckLost(p) PROVE EnvType'
  BY <1>1, <1>3, Bounds DEF EnvType, AckLost, mode
<1>4. ASSUME NEW m \in Gossip, ReceiveMessage(m) PROVE EnvType'
  BY <1>4, Bounds DEF EnvType, ReceiveMessage, mode
<1>5. ASSUME SwitchSuspicion \/ ReceiveSwitch PROVE EnvType'
  <2>1. switches' \in 0 .. MaxSwitches
    BY <1>5, Bounds DEF EnvType, SwitchSuspicion, ReceiveSwitch, Switch
  <2>2. SuspicionModeEnabled' \in BOOLEAN /\ wasOn' \in BOOLEAN
    BY <1>5, Zenon DEF SwitchSuspicion, ReceiveSwitch, Switch
  <2>. QED  BY <1>5, <2>1, <2>2 DEF EnvType, SwitchSuspicion, ReceiveSwitch
<1>6. ASSUME NEW p \in Peers, NEW k \in Slots, SendPing(p, k) PROVE EnvType'
  BY <1>6, Bounds DEF EnvType, SendPing, mode
<1>7. ASSUME NEW p \in Peers, ReceiveAck(p) PROVE EnvType'
  BY <1>7 DEF EnvType, ReceiveAck, mode
<1>8. ASSUME RoundBegin \/ PingFailure PROVE EnvType'
  BY <1>1, <1>8 DEF EnvType, RoundBegin, PingFailure, PingFails, mode, NoFault
<1>9. ASSUME UNCHANGED env PROVE EnvType'
  BY <1>9 DEF EnvType, env, mode
<1>10. ASSUME NEW c \in Pings, Pinger(c) PROVE EnvType'
  BY <1>9, <1>10 DEF Pinger, Late, MarkAlive, MarkFailed, MarkFailedEnd, Suspect, SuspicionEnd,
         SuspectRemoved, SignalByPing, HyReceive
<1>11. ASSUME Sender PROVE EnvType'
  BY <1>6, <1>8, <1>9, <1>11 DEF Sender, RoundEnd, SkipPing
<1>12. ASSUME Listener \/ ReceivePing \/ Repairer \/ LeaderWakes PROVE EnvType'
  BY <1>9, <1>12 DEF Listener, HandOver, ActRemoved, SignalByListener, HyReceive, Act, ReceivePing,
         Repairer, Forward, BatchBegin, BatchEnd, BatchRanges, LeaderWakes
<1>. QED  BY <1>2, <1>3, <1>4, <1>5, <1>7, <1>8, <1>10, <1>11, <1>12 DEF Next, Receive

\* The goroutines that work in turns: the sender, HyDFS and the leader.
LEMMA ChainNext ==
  ASSUME TypeOK, Next
  PROVE  ChainType'
<1>. USE DEF ChainType
<1>1. ChainType /\ lis.p \in Peers /\ \A c \in Pings : c[1] \in Peers
  BY TypeParts DEF NodeType, LisRec, Pings
<1>2. ASSUME NEW p \in Peers, HyReceive(p), UNCHANGED round PROVE ChainType'
  BY <1>1, <1>2 DEF HyReceive
<1>3. ASSUME UNCHANGED <<round, hy, leader>> PROVE ChainType'
  BY <1>1, <1>3
<1>4. ASSUME NEW c \in Pings, Pinger(c) PROVE ChainType'
  <2>1. CASE Late(c) \/ MarkAlive(c) \/ MarkFailed(c) \/ MarkFailedEnd(c)
    BY <1>3, <2>1 DEF Late, MarkAlive, MarkFailed, MarkFailedEnd
  <2>2. CASE Suspect(c) \/ SuspicionEnd(c) \/ SuspectRemoved(c)
    BY <1>3, <2>2 DEF Suspect, SuspicionEnd, SuspectRemoved
  <2>3. CASE SignalByPing(c)
    BY <1>1, <1>2, <2>3 DEF SignalByPing, HyReceive
  <2>. QED  BY <1>4, <2>1, <2>2, <2>3 DEF Pinger
<1>5. ASSUME Listener PROVE ChainType'
  BY <1>1, <1>2, <1>3, <1>5 DEF Listener, HandOver, ActRemoved, SignalByListener, HyReceive, Act
<1>6. ASSUME Sender \/ PingFailure PROVE ChainType'
  <2>1. ASSUME RoundBegin PROVE ChainType'
    BY <1>1, <2>1 DEF RoundBegin, Members
  <2>2. ASSUME RoundEnd PROVE ChainType'
    BY <1>1, <2>2 DEF RoundEnd
  <2>3. ASSUME NEW p \in Peers, \/ SkipPing(p)
                                \/ \E k \in Slots : SendPing(p, k) \/ PingFails(p, k)
        PROVE  ChainType'
    <3>1. round' = [round EXCEPT !.todo = @ \ {p}] /\ UNCHANGED <<hy, leader>>
      BY <2>3 DEF SkipPing, SendPing, PingFails
    <3>. QED  BY <1>1, <3>1
  <2>. QED  BY <1>6, <2>1, <2>2, <2>3 DEF Sender, PingFailure
<1>7. ASSUME Repairer \/ LeaderWakes PROVE ChainType'
  <2>1. ASSUME Forward PROVE ChainType'
    BY <1>1, <2>1 DEF Forward
  <2>2. ASSUME LeaderWakes PROVE ChainType'
    BY <1>1, <2>2 DEF LeaderWakes
  <2>3. ASSUME BatchBegin PROVE ChainType'
    BY <1>1, <2>3 DEF BatchBegin
  <2>4. ASSUME BatchEnd PROVE ChainType'
    BY <1>1, <2>4 DEF BatchEnd
  <2>5. ASSUME NEW p \in Peers, BatchRanges(p) PROVE ChainType'
    BY <1>1, <2>5 DEF BatchRanges
  <2>. QED  BY <1>7, <2>1, <2>2, <2>3, <2>4, <2>5 DEF Repairer
<1>8. ASSUME \/ \E p \in Peers : Crash(p) \/ AckLost(p) \/ ReceiveAck(p)
             \/ \E m \in Gossip : ReceiveMessage(m)
             \/ ReceivePing \/ SwitchSuspicion \/ ReceiveSwitch
      PROVE  ChainType'
  BY <1>3, <1>8 DEF Crash, AckLost, ReceiveAck, ReceiveMessage, ReceivePing, SwitchSuspicion, ReceiveSwitch
<1>. QED  BY <1>4, <1>5, <1>6, <1>7, <1>8 DEF Next, Receive

-----------------------------------------------------------------------------
(* The node itself. *)
NodeInd == NodeType /\ ListenerInv /\ DropInv /\ MutexInv /\ ModeInv

LEMMA IndParts == Ind <=> EnvType /\ ChainType /\ NodeInd
BY TypeParts DEF Ind, NodeInd

\* A step that leaves the goroutines of the node alone.
LEMMA NodeRests ==
  ASSUME Ind, UNCHANGED <<list, mlm, buf, ackMap, ping, lis, signalled>>,
         UNCHANGED <<SuspicionModeEnabled, wasOn>> \/ wasOn'
  PROVE  NodeInd'
<1>1. NodeType' /\ ListenerInv' /\ DropInv'
  BY IndParts DEF NodeInd, NodeType, ListenerInv, DropInv, LeftIsGossip, ToldInv, DroppedIsSignalled
<1>2. MutexInv' /\ ModeInv'
  BY IndParts DEF NodeInd, MutexInv, ModeInv
<1>. QED  BY <1>1, <1>2 DEF NodeInd

\* A step of the goroutine of a ping to state st: it is told only after the signal, drops
\* the peer only when told, and lets go of the mutex or holds it inside markNodeFailed.
LEMMA PingStep ==
  ASSUME Ind, NEW c \in Pings, NEW st \in PingStates, Becomes(c, st),
         UNCHANGED <<lis, SuspicionModeEnabled, wasOn>>,
         UNCHANGED ackMap \/ (ackMap' \in [Peers -> 0 .. MaxPings] /\ lis.pc # "ack"),
         signalled \subseteq signalled', signalled' \subseteq Peers,
         st \in {"remove", "told"} => c[1] \in signalled',
         list' \in [Peers -> Statuses],
         \A p \in Peers : list'[p] = "absent" => list[p] = "absent" \/ p \in signalled',
         \/ UNCHANGED buf
         \/ \E type \in Types \ {"LEFT"} : Say(c[1], type),
         mlm' \in BOOLEAN,
         \/ ~mlm' \/ wasOn
         \/ st \in {"signal", "remove"}
         \/ mlm' = mlm /\ ping[c] \notin {"signal", "remove"}
  PROVE  NodeInd'
<1>1. ping' \in [Pings -> PingStates] /\ ping'[c] = st /\ \A d \in Pings : d # c => ping'[d] = ping[d]
  BY IndParts DEF NodeInd, NodeType, Becomes
<1>2. buf' \in Msgs /\ LeftIsGossip(buf')
  <2>1. CASE UNCHANGED buf
    BY <2>1, IndParts DEF NodeInd, NodeType, DropInv
  <2>2. ASSUME NEW type \in Types \ {"LEFT"}, Say(c[1], type) PROVE buf' \in Msgs /\ LeftIsGossip(buf')
    <3>1. c[1] \in Peers /\ buf \in Msgs /\ LeftIsGossip(buf)
      BY IndParts DEF NodeInd, NodeType, DropInv, Pings
    <3>. QED  BY <2>2, <3>1, SayType, SayLeft DEF Say
  <2>. QED  BY <2>1, <2>2
<1>3. NodeType'
  BY <1>1, <1>2, IndParts DEF NodeInd, NodeType
<1>4. ListenerInv'
  BY IndParts DEF NodeInd, ListenerInv
<1>5. ToldInv'
  BY <1>1, IndParts DEF NodeInd, DropInv, ToldInv
<1>6. DroppedIsSignalled'
  BY IndParts DEF NodeInd, DropInv, DroppedIsSignalled
<1>7. DropInv'
  BY <1>2, <1>5, <1>6, IndParts DEF NodeInd, DropInv
<1>8. MutexInv'
  BY <1>1, IndParts DEF NodeInd, MutexInv
<1>9. ModeInv'
  BY IndParts DEF NodeInd, ModeInv
<1>. QED  BY <1>3, <1>4, <1>7, <1>8, <1>9 DEF NodeInd

\* A step of the listener: the pings and the mutex are left alone.
LEMMA ListenerStep ==
  ASSUME Ind, UNCHANGED <<mlm, ping>>, UNCHANGED <<SuspicionModeEnabled, wasOn>> \/ wasOn',
         ackMap' \in [Peers -> 0 .. MaxPings], lis' \in LisRec, buf' \in Msgs,
         LeftIsGossip(buf'), LeftIsGossip(lis'.todo), ListenerInv',
         lis'.pc = "remove" => lis'.p \in signalled',
         signalled \subseteq signalled', signalled' \subseteq Peers,
         list' \in [Peers -> Statuses],
         \A p \in Peers : list'[p] = "absent" =>
           list[p] = "absent" \/ p \in signalled' \/ <<"LEFT", p>> \in Gossip
  PROVE  NodeInd'
<1>1. NodeType'
  BY IndParts DEF NodeInd, NodeType
<1>2. DropInv'
  BY IndParts DEF NodeInd, DropInv, ToldInv, DroppedIsSignalled
<1>3. MutexInv' /\ ModeInv'
  BY IndParts DEF NodeInd, MutexInv, ModeInv
<1>. QED  BY <1>1, <1>2, <1>3 DEF NodeInd

\* The steps of the goroutine of a ping.
LEMMA PingerInd == ASSUME Ind, NEW c \in Pings, Pinger(c) PROVE NodeInd'
<1>1. /\ c[1] \in Peers /\ list \in [Peers -> Statuses] /\ mlm \in BOOLEAN /\ signalled \subseteq Peers
      /\ SuspicionModeEnabled => wasOn
  BY IndParts DEF NodeInd, NodeType, ModeInv, Pings
<1>. USE DEF PingStates
<1>2. ASSUME Late(c) PROVE NodeInd'
  BY <1>1, <1>2, PingStep DEF Late, env, mode
<1>3. ASSUME MarkAlive(c) PROVE NodeInd'
  <2>1. /\ list' \in [Peers -> Statuses]
        /\ \A p \in Peers : list'[p] = "absent" => list[p] = "absent"
    BY <1>1, <1>3 DEF MarkAlive, Statuses
  <2>. QED  BY <1>1, <1>3, <2>1, PingStep DEF MarkAlive, env, mode, NoPing, Types
<1>4. ASSUME MarkFailed(c) PROVE NodeInd'
  BY <1>1, <1>4, PingStep DEF MarkFailed, env, mode, NoPing, Types
<1>5. ASSUME MarkFailedEnd(c) PROVE NodeInd'
  <2>1. c[1] \in signalled
    BY <1>5, IndParts DEF MarkFailedEnd, NodeInd, DropInv, ToldInv
  <2>2. /\ list' \in [Peers -> Statuses]
        /\ \A p \in Peers : list'[p] = "absent" => list[p] = "absent" \/ p \in signalled
    BY <1>1, <1>5, <2>1 DEF MarkFailedEnd, Statuses
  <2>. QED  BY <1>1, <1>5, <2>2, PingStep DEF MarkFailedEnd, env, mode, NoPing, Types
<1>6. ASSUME Suspect(c) PROVE NodeInd'
  <2>1. /\ list' \in [Peers -> Statuses]
        /\ \A p \in Peers : list'[p] = "absent" => list[p] = "absent"
    BY <1>1, <1>6 DEF Suspect, Statuses, Members
  <2>. QED  BY <1>1, <1>6, <2>1, PingStep DEF Suspect, env, mode, NoPing, Types
<1>7. ASSUME SuspicionEnd(c) PROVE NodeInd'
  BY <1>1, <1>7, PingStep DEF SuspicionEnd, env, mode, NoPing, Types
<1>8. ASSUME SuspectRemoved(c) PROVE NodeInd'
  <2>1. c[1] \in signalled
    BY <1>8, IndParts DEF SuspectRemoved, NodeInd, DropInv, ToldInv
  <2>2. /\ list' \in [Peers -> Statuses]
        /\ \A p \in Peers : list'[p] = "absent" => list[p] = "absent" \/ p \in signalled
    BY <1>1, <1>8, <2>1 DEF SuspectRemoved, Statuses
  <2>. QED  BY <1>1, <1>8, <2>2, PingStep DEF SuspectRemoved, env, mode, NoPing
<1>9. ASSUME SignalByPing(c) PROVE NodeInd'
  <2>1. /\ signalled' = signalled \cup {c[1]} /\ UNCHANGED <<env, list, mlm, buf, ackMap, lis>>
        /\ ping[c] \in {"signal", "tell"}
        /\ Becomes(c, IF ping[c] = "signal" THEN "remove" ELSE "told")
    BY <1>9 DEF SignalByPing, HyReceive
  <2>. QED  BY <1>1, <2>1, PingStep DEF env, mode
<1>. QED  BY <1>2, <1>3, <1>4, <1>5, <1>6, <1>7, <1>8, <1>9 DEF Pinger


\* The messages that are left once the buffer is settled.
LEMMA SettledMessages ==
  ASSUME Ind, NEW on, buf' \in Resolved(buf, on)
  PROVE  buf' \in Msgs /\ LeftIsGossip(buf')
BY ResolvedType, IndParts DEF NodeInd, NodeType, DropInv

\* What the listener does with a packet.
LEMMA ReceiveInd ==
  ASSUME Ind,
         \/ \E m \in Gossip : ReceiveMessage(m)
         \/ \E p \in Peers : ReceiveAck(p)
         \/ ReceivePing \/ ReceiveSwitch
  PROVE  NodeInd'
<1>1. /\ list \in [Peers -> Statuses] /\ ackMap \in [Peers -> 0 .. MaxPings]
      /\ buf \in Msgs /\ LeftIsGossip(buf) /\ signalled \subseteq Peers
  BY IndParts DEF NodeInd, NodeType, DropInv
<1>2. ASSUME buf' \in Msgs, LeftIsGossip(buf'), lis' = Acting(buf'),
             UNCHANGED <<list, mlm, ackMap, ping, signalled>>,
             UNCHANGED <<SuspicionModeEnabled, wasOn>> \/ wasOn'
      PROVE  NodeInd'
  <2>. DEFINE b == buf'
  <2>. HIDE DEF b
  <2>1. ASSUME b \in Msgs, LeftIsGossip(b), lis' = Acting(b)
        PROVE  lis' \in LisRec /\ LeftIsGossip(lis'.todo) /\ ListenerInv' /\ lis'.pc # "remove"
    <3>1. Acting(b) \in [pc : {"read", "act"}, p : Peers, todo : Msgs] /\ Acting(b).todo = b
      BY <2>1, ActingType
    <3>. QED  BY <2>1, <3>1 DEF ListenerInv, LisRec
  <2>2. lis' \in LisRec /\ LeftIsGossip(lis'.todo) /\ ListenerInv' /\ lis'.pc # "remove"
    BY <1>2, <2>1 DEF b
  <2>. QED  BY <1>1, <1>2, <2>2, ListenerStep
<1>3. ASSUME NEW m \in Gossip, ReceiveMessage(m) PROVE NodeInd'
  <2>. DEFINE added == IF Needed(m[1], m[2]) THEN [buf EXCEPT ![m[2]] = Append(@, m[1])] ELSE buf
  <2>1. m[1] \in Types /\ m[2] \in Peers /\ m = <<m[1], m[2]>>
    BY DetectorAssumption
  <2>2. added \in Msgs /\ LeftIsGossip(added)
    <3>1. m[1] = "LEFT" => <<"LEFT", m[2]>> \in Gossip
      BY <2>1
    <3>. QED  BY <1>1, <2>1, <3>1, SayType, SayLeft
  <2>3. buf' \in Resolved(added, SuspicionModeEnabled)
    BY <1>3 DEF ReceiveMessage
  <2>. HIDE DEF added
  <2>4. buf' \in Msgs /\ LeftIsGossip(buf')
    BY <2>2, <2>3, ResolvedType
  <2>. QED  BY <1>2, <1>3, <2>4 DEF ReceiveMessage, mode
<1>4. ASSUME ReceivePing PROVE NodeInd'
  BY <1>2, <1>4, SettledMessages DEF ReceivePing, env, mode
<1>5. ASSUME ReceiveSwitch PROVE NodeInd'
  BY <1>2, <1>5, SettledMessages DEF ReceiveSwitch, Switch
<1>6. ASSUME NEW p \in Peers, ReceiveAck(p) PROVE NodeInd'
  <2>1. buf' \in Msgs /\ LeftIsGossip(buf') /\ UNCHANGED <<list, mlm, ackMap, ping, signalled>>
        /\ UNCHANGED <<SuspicionModeEnabled, wasOn>>
    BY <1>6, SettledMessages DEF ReceiveAck, mode
  <2>2. CASE ackMap[p] = 0
    BY <1>2, <1>6, <2>1, <2>2 DEF ReceiveAck
  <2>3. CASE ackMap[p] # 0
    <3>1. lis' = [Reading EXCEPT !.pc = "ack", !.p = p]
      BY <1>6, <2>3 DEF ReceiveAck
    <3>2. NoMsgs \in Msgs /\ LeftIsGossip(NoMsgs)
      BY DEF NoMsgs, Msgs, LeftIsGossip
    <3>3. lis' \in LisRec /\ lis'.pc = "ack" /\ lis'.p = p /\ lis'.todo = NoMsgs
      BY <3>1, <3>2, Bounds DEF Reading, LisRec
    <3>4. ListenerInv'
      BY <2>1, <2>3, <3>3 DEF ListenerInv
    <3>. QED  BY <1>1, <2>1, <3>2, <3>3, <3>4, ListenerStep
  <2>. QED  BY <2>2, <2>3
<1>. QED  BY <1>3, <1>4, <1>5, <1>6

\* The listener acts on a message, and hands an acknowledgement over.
LEMMA ListenerInd == ASSUME Ind, Listener PROVE NodeInd'
<1>1. /\ list \in [Peers -> Statuses] /\ ackMap \in [Peers -> 0 .. MaxPings]
      /\ buf \in Msgs /\ LeftIsGossip(buf) /\ signalled \subseteq Peers
      /\ lis \in LisRec /\ lis.p \in Peers /\ lis.todo \in Msgs /\ LeftIsGossip(lis.todo)
      /\ ping \in [Pings -> PingStates] /\ ListenerInv /\ mlm \in BOOLEAN /\ ModeInv
  BY IndParts DEF NodeInd, NodeType, DropInv, LisRec
<1>2. ASSUME NEW b \in Msgs, LeftIsGossip(b), lis' = Acting(b)
      PROVE  lis' \in LisRec /\ LeftIsGossip(lis'.todo) /\ ListenerInv' /\ lis'.pc # "remove"
  <2>1. Acting(b) \in [pc : {"read", "act"}, p : Peers, todo : Msgs] /\ Acting(b).todo = b
    BY ActingType
  <2>. QED  BY <1>2, <2>1 DEF ListenerInv, LisRec
<1>3. ASSUME NEW p \in Peers, lis.todo[p] # <<>>, Done(p),
             UNCHANGED <<mlm, ping, ackMap, buf, signalled, SuspicionModeEnabled, wasOn>>,
             list' \in [Peers -> Statuses],
             \A q \in Peers : list'[q] = "absent" =>
               list[q] = "absent" \/ q \in signalled \/ <<"LEFT", q>> \in Gossip
      PROVE  NodeInd'
  <2>. DEFINE b == [lis.todo EXCEPT ![p] = Tail(@)]
  <2>1. b \in Msgs /\ LeftIsGossip(b)
    BY <1>1, <1>3, DoneType
  <2>2. lis' = Acting(b)
    BY <1>3 DEF Done
  <2>. HIDE DEF b
  <2>3. lis' \in LisRec /\ LeftIsGossip(lis'.todo) /\ ListenerInv' /\ lis'.pc # "remove"
    BY <1>2, <2>1, <2>2
  <2>. QED  BY <1>1, <1>3, <2>3, ListenerStep
<1>4. ASSUME HandOver PROVE NodeInd'
  <2>. DEFINE c == <<lis.p, ackMap[lis.p]>>
  <2>1. c \in Pings
    BY <1>1, <1>4, Bounds DEF HandOver, ListenerInv, Pings, Slots
  <2>2. /\ Becomes(c, "acked") /\ ackMap' = [ackMap EXCEPT ![lis.p] = 0] /\ ping[c] \in Awaiting
        /\ lis' = Acting(buf) /\ UNCHANGED <<list, mlm, buf, signalled, SuspicionModeEnabled, wasOn>>
    BY <1>4 DEF HandOver, env, mode
  <2>. HIDE DEF c
  <2>3. ping' \in [Pings -> PingStates] /\ ping'[c] = "acked" /\ \A d \in Pings : d # c => ping'[d] = ping[d]
    BY <1>1, <2>1, <2>2 DEF Becomes, PingStates
  <2>4. ackMap' \in [Peers -> 0 .. MaxPings]
    BY <1>1, <2>2, Bounds
  <2>5. lis' \in LisRec /\ LeftIsGossip(lis'.todo) /\ ListenerInv' /\ lis'.pc # "remove"
    BY <1>1, <1>2, <2>2
  <2>6. NodeType'
    BY <1>1, <2>2, <2>3, <2>4, <2>5 DEF NodeType
  <2>7. ToldInv' /\ DroppedIsSignalled'
    BY <2>2, <2>3, <2>5, IndParts DEF NodeInd, DropInv, ToldInv, DroppedIsSignalled
  <2>8. MutexInv'
    BY <2>2, <2>3, IndParts DEF NodeInd, MutexInv, Awaiting
  <2>. QED  BY <1>1, <2>2, <2>5, <2>6, <2>7, <2>8 DEF NodeInd, DropInv, ModeInv
<1>5. ASSUME ActRemoved PROVE NodeInd'
  <2>1. lis.p \in signalled /\ lis.todo[lis.p] # <<>>
    BY <1>1, <1>5, IndParts DEF ActRemoved, ListenerInv, NodeInd, DropInv, ToldInv
  <2>2. /\ list' \in [Peers -> Statuses]
        /\ \A q \in Peers : list'[q] = "absent" => list[q] = "absent" \/ q \in signalled
    BY <1>1, <1>5, <2>1 DEF ActRemoved, Statuses
  <2>. QED  BY <1>1, <1>3, <1>5, <2>1, <2>2 DEF ActRemoved, env, mode
<1>6. ASSUME SignalByListener PROVE NodeInd'
  <2>1. /\ lis.pc = "signal" /\ signalled' = signalled \cup {lis.p}
        /\ lis' = [lis EXCEPT !.pc = "remove"]
        /\ UNCHANGED <<list, mlm, buf, ackMap, ping, SuspicionModeEnabled, wasOn>>
    BY <1>6 DEF SignalByListener, HyReceive, env, mode
  <2>2. lis' \in LisRec /\ lis'.pc = "remove" /\ lis'.p = lis.p /\ lis'.todo = lis.todo
    BY <1>1, <2>1 DEF LisRec
  <2>3. ListenerInv'
    BY <1>1, <2>1, <2>2 DEF ListenerInv
  <2>. QED  BY <1>1, <2>1, <2>2, <2>3, ListenerStep
<1>7. ASSUME NEW p \in Peers, Act(p) PROVE NodeInd'
  <2>. DEFINE type == Head(lis.todo[p])
  <2>1. lis.todo[p] # <<>> /\ UNCHANGED <<mlm, ping, ackMap, buf, signalled, SuspicionModeEnabled, wasOn>>
    BY <1>7 DEF Act, env, mode
  <2>2. type = "LEFT" => <<"LEFT", p>> \in Gossip
    <3>1. lis.todo[p] \in Seq(Types)
      BY <1>1 DEF Msgs
    <3>2. 1 \in 1 .. Len(lis.todo[p]) /\ lis.todo[p][1] = type
      BY <2>1, <3>1
    <3>. QED  BY <1>1, <3>2 DEF LeftIsGossip
  <2>3. CASE Done(p)
    <3>1. /\ list' \in [Peers -> Statuses]
          /\ \A q \in Peers : list'[q] = "absent" => list[q] = "absent" \/ <<"LEFT", q>> \in Gossip
      <4>1. \/ UNCHANGED list
            \/ type = "LEFT" /\ list' = [list EXCEPT ![p] = "absent"]
            \/ list' = [list EXCEPT ![p] = IF p \in Members THEN "SUSPECTED" ELSE @]
            \/ list' = [list EXCEPT ![p] = "ACTIVE"]
        BY <1>7 DEF Act
      <4>. QED  BY <1>1, <2>2, <4>1 DEF Statuses
    <3>. QED  BY <1>1, <1>3, <2>1, <2>3, <3>1
  <2>4. CASE lis' = [lis EXCEPT !.pc = "signal", !.p = p] /\ UNCHANGED list
    <3>1. lis' \in LisRec /\ lis'.pc = "signal" /\ lis'.p = p /\ lis'.todo = lis.todo
      BY <1>1, <2>4 DEF LisRec
    <3>2. ListenerInv'
      BY <2>1, <3>1 DEF ListenerInv
    <3>. QED  BY <1>1, <2>1, <2>4, <3>1, <3>2, ListenerStep
  <2>5. Done(p) \/ (lis' = [lis EXCEPT !.pc = "signal", !.p = p] /\ UNCHANGED list)
    BY <1>7 DEF Act
  <2>. QED  BY <2>3, <2>4, <2>5
<1>. QED  BY <1>4, <1>5, <1>6, <1>7 DEF Listener


\* The sender, and those who have no part in the list.
LEMMA OtherInd ==
  ASSUME Ind, \/ \E p \in Peers : Crash(p) \/ AckLost(p)
              \/ Sender \/ PingFailure \/ Repairer \/ LeaderWakes \/ SwitchSuspicion
  PROVE  NodeInd'
<1>1. /\ list \in [Peers -> Statuses] /\ ackMap \in [Peers -> 0 .. MaxPings]
      /\ lis \in LisRec /\ LeftIsGossip(lis.todo) /\ signalled \subseteq Peers /\ mlm \in BOOLEAN
      /\ ListenerInv /\ ToldInv
  BY IndParts DEF NodeInd, NodeType, DropInv
<1>2. ASSUME RoundEnd PROVE NodeInd'
  <2>1. NoMsgs \in Msgs /\ LeftIsGossip(NoMsgs)
    BY DEF NoMsgs, Msgs, LeftIsGossip
  <2>2. ListenerInv'
    BY <1>1, <1>2 DEF RoundEnd, ListenerInv
  <2>. QED  BY <1>1, <1>2, <2>1, <2>2, ListenerStep DEF RoundEnd, env, mode, ToldInv
<1>3. ASSUME NEW p \in Peers, NEW k \in Slots, SendPing(p, k) PROVE NodeInd'
  <2>. DEFINE c == <<p, k>>
  <2>1. c \in Pings /\ ping[c] = "none" /\ Becomes(c, "wait")
    BY <1>3 DEF SendPing, NextPing, Pings, NoPing, Becomes
  <2>2. ackMap' \in [Peers -> 0 .. MaxPings] /\ lis.pc # "ack"
    BY <1>1, <1>3, Bounds DEF SendPing, PingTurn, Slots
  <2>3. UNCHANGED <<lis, SuspicionModeEnabled, wasOn, signalled, list, buf, mlm>>
    BY <1>3 DEF SendPing, mode
  <2>. HIDE DEF c
  <2>. QED  BY <1>1, <2>1, <2>2, <2>3, PingStep DEF PingStates
<1>4. ASSUME NEW p \in Peers, Crash(p) \/ AckLost(p) \/ SkipPing(p) \/ BatchRanges(p) PROVE NodeInd'
  BY <1>4, NodeRests DEF Crash, AckLost, SkipPing, BatchRanges, env, mode
<1>5. ASSUME Forward \/ BatchBegin \/ BatchEnd \/ LeaderWakes PROVE NodeInd'
  BY <1>5, NodeRests DEF Forward, BatchBegin, BatchEnd, LeaderWakes, env, mode
<1>6. ASSUME SwitchSuspicion PROVE NodeInd'
  BY <1>6, NodeRests DEF SwitchSuspicion, Switch
<1>7. ASSUME RoundBegin PROVE NodeInd'
  <2>1. /\ ping' = [c \in Pings |-> IF ping[c] = "wait" THEN "old" ELSE ping[c]]
        /\ ping \in [Pings -> PingStates]
        /\ UNCHANGED <<list, mlm, buf, ackMap, lis, signalled, SuspicionModeEnabled, wasOn>>
    BY <1>7, IndParts DEF RoundBegin, mode, NodeInd, NodeType
  <2>2. ping' \in [Pings -> PingStates]
    BY <2>1 DEF PingStates
  <2>3. \A c \in Pings : \A st \in {"signal", "remove", "told"} : ping'[c] = st <=> ping[c] = st
    BY <2>1
  <2>4. NodeType' /\ ListenerInv'
    BY <2>1, <2>2, IndParts DEF NodeInd, NodeType, ListenerInv
  <2>5. DropInv'
    BY <2>1, <2>3, IndParts DEF NodeInd, DropInv, LeftIsGossip, ToldInv, DroppedIsSignalled
  <2>6. MutexInv' /\ ModeInv'
    BY <2>1, <2>3, IndParts DEF NodeInd, MutexInv, ModeInv
  <2>. QED  BY <2>4, <2>5, <2>6 DEF NodeInd
<1>8. ASSUME NEW p \in Peers, NEW k \in Slots, PingFails(p, k) PROVE NodeInd'
  <2>1. ackMap' = [ackMap EXCEPT ![p] = k] /\ k # 0 /\ lis.pc # "ack"
    BY <1>8 DEF PingFails, PingTurn, Slots
  <2>2. UNCHANGED <<list, mlm, buf, ping, lis, signalled, SuspicionModeEnabled, wasOn>>
    BY <1>8 DEF PingFails, mode
  <2>3. ackMap' \in [Peers -> 0 .. MaxPings]
    BY <1>1, <2>1, Bounds DEF Slots
  <2>4. NodeType' /\ ListenerInv'
    BY <2>1, <2>2, <2>3, IndParts DEF NodeInd, NodeType, ListenerInv
  <2>5. DropInv'
    BY <2>2, IndParts DEF NodeInd, DropInv, LeftIsGossip, ToldInv, DroppedIsSignalled
  <2>6. MutexInv' /\ ModeInv'
    BY <2>2, IndParts DEF NodeInd, MutexInv, ModeInv
  <2>. QED  BY <2>4, <2>5, <2>6 DEF NodeInd
<1>. QED  BY <1>2, <1>3, <1>4, <1>5, <1>6, <1>7, <1>8 DEF Sender, PingFailure, Repairer

\* Every step keeps the invariant.
LEMMA NextInd == Ind /\ [Next]_vars => Ind'
<1>. SUFFICES ASSUME Ind, [Next]_vars PROVE Ind'
  OBVIOUS
<1>1. CASE Next
  <2>1. EnvType'
    BY <1>1, EnvNext, IndParts
  <2>2. ChainType'
    BY <1>1, ChainNext DEF Ind
  <2>3. NodeInd'
    BY <1>1, PingerInd, ListenerInd, ReceiveInd, OtherInd DEF Next, Receive
  <2>4. NodeInd' /\ EnvType' /\ ChainType' => TypeOK'
    BY DEF NodeInd, TypeOK, EnvType, NodeType, ChainType, PingStates, LisRec
  <2>. QED  BY <2>1, <2>2, <2>3, <2>4 DEF Ind, NodeInd
<1>2. CASE UNCHANGED vars
  <2>1. EnvType' /\ ChainType'
    BY <1>2, IndParts DEF vars, env, mode, EnvType, ChainType
  <2>2. NodeInd'
    BY <1>2, NodeRests DEF vars, env, mode
  <2>3. NodeInd' /\ EnvType' /\ ChainType' => TypeOK'
    BY DEF NodeInd, TypeOK, EnvType, NodeType, ChainType, PingStates, LisRec
  <2>. QED  BY <2>1, <2>2, <2>3 DEF Ind, NodeInd
<1>. QED  BY <1>1, <1>2

\* The invariant of the failure detector.
THEOREM DetectorInvariant == Spec => []Ind
BY InitInd, NextInd, PTL DEF Spec

\* The variables keep their types.
THEOREM TypeCorrect == Spec => []TypeOK
<1>1. Ind => TypeOK
  BY DEF Ind
<1>. QED  BY <1>1, DetectorInvariant, PTL

\* No peer is dropped from the list before HyDFS has got its failure, unless it left:
\* whatever the goroutines of the pings, the suspicions and the listener do at a time.
THEOREM SignalledFirst == Spec => []DroppedIsSignalled
<1>1. Ind => DroppedIsSignalled
  BY DEF Ind, DropInv
<1>. QED  BY <1>1, DetectorInvariant, PTL

\* While suspicion was never enabled the mutex is held only inside markNodeFailed.
THEOREM MutexHeldByFailure == Spec => [](~wasOn => MutexReleased)
<1>1. Ind => (~wasOn => MutexReleased)
  BY DEF Ind, MutexInv, MutexReleased
<1>. QED  BY <1>1, DetectorInvariant, PTL

-----------------------------------------------------------------------------
(* What a step may do to a peer. *)

\* The goroutines of the pings of q.
Of(q) == [k \in Slots |-> ping[<<q, k>>]]
Has(q, states) == \E k \in Slots : Of(q)[k] \in states

\* The types of the messages about q, in the buffer and in the hands of the listener.
TypesIn(msgs, q) == {msgs[q][i] : i \in 1 .. Len(msgs[q])}
Talk(q) == TypesIn(buf, q) \cup TypesIn(lis.todo, q)

Hears(q, types) == Talk(q)' \subseteq Talk(q) \cup types
Keeps(q) == list'[q] = list[q]
Rests(q) == \A k \in Slots : Of(q)'[k] = Of(q)[k]
Moves(q, k, s, t) ==
  /\ Of(q)[k] = s /\ Of(q)'[k] = t
  /\ \A j \in Slots : j # k => Of(q)'[j] = Of(q)[j]

\* The pings of the last round are old.
NextRound(q) == \A k \in Slots : Of(q)'[k] = IF Of(q)[k] = "wait" THEN "old" ELSE Of(q)[k]

\* What the listener does about q.
Heard(q) ==
  \/ "SUSPECTED" \in Talk(q) /\ list[q] # "absent" /\ list'[q] = "SUSPECTED"
  \/ lis.pc = "remove" /\ lis.p = q /\ list'[q] = "absent"
  \/ "ACTIVE" \in Talk(q) \/ "LEFT" \in Talk(q)

\* What the goroutine of ping k of q does.
PingMoves(q, k) ==
  \/ /\ Hears(q, {}) /\ Keeps(q)
     /\ \/ Moves(q, k, "none", "wait") \/ Moves(q, k, "wait", "acked") \/ Moves(q, k, "old", "acked")
        \/ Moves(q, k, "old", "late") \/ (Jammed /\ Moves(q, k, "wait", "late"))
        \/ Moves(q, k, "acked", "none") \/ (list[q] # "absent" /\ Moves(q, k, "late", "signal"))
        \/ (q \in signalled' /\ (Moves(q, k, "signal", "remove") \/ Moves(q, k, "tell", "told")))
        \/ (list[q] # "SUSPECTED" /\ Moves(q, k, "sleep", "none"))
  \/ list[q] = "SUSPECTED" /\ (Moves(q, k, "acked", "none") \/ Moves(q, k, "late", "none"))
  \/ Moves(q, k, "late", "none") /\ list[q] = "absent" /\ Hears(q, {"FAILED"}) /\ Keeps(q)
  \/ /\ Moves(q, k, "late", "sleep") /\ Hears(q, {"SUSPECTED"})
     /\ list'[q] = IF list[q] = "absent" THEN "absent" ELSE "SUSPECTED"
  \/ Moves(q, k, "sleep", "tell") /\ list[q] = "SUSPECTED" /\ Hears(q, {"FAILED"}) /\ Keeps(q)
  \/ (Moves(q, k, "remove", "none") \/ Moves(q, k, "told", "none")) /\ list'[q] = "absent" /\ Hears(q, {"FAILED"})

PeerStep(q) ==
  \/ Rests(q) /\ Hears(q, {}) /\ (Keeps(q) \/ Heard(q))
  \/ \E k \in Slots : PingMoves(q, k)
  \/ RoundBegin /\ NextRound(q) /\ Hears(q, {}) /\ Keeps(q)

LEMMA TalkSay ==
  ASSUME NEW b \in Msgs, NEW p \in Peers, NEW type \in Types, NEW q \in Peers
  PROVE  TypesIn([b EXCEPT ![p] = Append(@, type)], q)
           \subseteq TypesIn(b, q) \cup (IF q = p THEN {type} ELSE {})
<1>. DEFINE c == [b EXCEPT ![p] = Append(@, type)]
<1>1. CASE q # p
  <2>1. c[q] = b[q]
    BY <1>1 DEF Msgs
  <2>. QED  BY <1>1, <2>1 DEF TypesIn
<1>2. CASE q = p
  <2>1. c[q] = Append(b[p], type) /\ b[p] \in Seq(Types)
    BY <1>2 DEF Msgs
  <2>2. /\ Len(c[q]) = Len(b[p]) + 1 /\ c[q][Len(b[p]) + 1] = type
        /\ \A j \in 1 .. Len(b[p]) : c[q][j] = b[p][j]
    BY <2>1, AppendProperties
  <2>3. Len(b[p]) \in Nat
    BY <2>1, LenProperties
  <2>. HIDE DEF c
  <2>4. \A i \in 1 .. Len(c[q]) : c[q][i] = type \/ \E j \in 1 .. Len(b[p]) : c[q][i] = b[p][j]
    BY <2>2, <2>3
  <2>5. TypesIn(c, q) \subseteq TypesIn(b, p) \cup {type}
    BY <2>4 DEF TypesIn
  <2>. QED  BY <1>2, <2>5 DEF c
<1>. QED  BY <1>1, <1>2

LEMMA TalkResolved ==
  ASSUME NEW b \in Msgs, NEW on, NEW r \in Resolved(b, on), NEW q \in Peers
  PROVE  TypesIn(r, q) \subseteq TypesIn(b, q)
<1>1. CASE b[q] = <<>>
  <2>1. r[q] = <<>>
    BY <1>1 DEF Resolved
  <2>. QED  BY <2>1 DEF TypesIn
<1>2. CASE b[q] # <<>>
  <2>1. b[q] \in Seq(Types) /\ Len(b[q]) \in Nat \ {0}
    BY <1>2, EmptySeq DEF Msgs
  <2>2. PICK j \in 1 .. Len(b[q]) : r[q] = <<b[q][j]>>
    BY <1>2, <2>1 DEF Resolved
  <2>3. \A i \in 1 .. Len(r[q]) : r[q][i] = b[q][j]
    BY <2>2
  <2>. QED  BY <2>2, <2>3 DEF TypesIn
<1>. QED  BY <1>1, <1>2

LEMMA TalkDone ==
  ASSUME NEW b \in Msgs, NEW p \in Peers, b[p] # <<>>, NEW q \in Peers
  PROVE  /\ TypesIn([b EXCEPT ![p] = Tail(@)], q) \subseteq TypesIn(b, q)
         /\ Head(b[p]) \in TypesIn(b, p)
<1>. DEFINE c == [b EXCEPT ![p] = Tail(@)]
<1>1. b[p] \in Seq(Types)
  BY DEF Msgs
<1>2. /\ Len(b[p]) \in Nat \ {0} /\ Len(Tail(b[p])) = Len(b[p]) - 1
      /\ \A i \in 1 .. Len(Tail(b[p])) : Tail(b[p])[i] = b[p][i + 1]
      /\ Head(b[p]) = b[p][1]
  BY <1>1, HeadTailProperties, EmptySeq
<1>3. Head(b[p]) \in TypesIn(b, p)
  <2>1. 1 \in 1 .. Len(b[p])
    BY <1>2
  <2>. QED  BY <1>2, <2>1 DEF TypesIn
<1>4. CASE q # p
  <2>1. c[q] = b[q]
    BY <1>4 DEF Msgs
  <2>. QED  BY <1>3, <2>1 DEF TypesIn
<1>5. CASE q = p
  <2>1. c[q] = Tail(b[p])
    BY <1>5 DEF Msgs
  <2>. HIDE DEF c
  <2>2. \A i \in 1 .. Len(c[q]) : i + 1 \in 1 .. Len(b[p]) /\ c[q][i] = b[p][i + 1]
    BY <1>2, <2>1
  <2>3. TypesIn(c, q) \subseteq TypesIn(b, p)
    BY <2>2 DEF TypesIn
  <2>. QED  BY <1>3, <1>5, <2>3 DEF c
<1>. QED  BY <1>4, <1>5

LEMMA TalkNone == \A q \in Peers : TypesIn(NoMsgs, q) = {}
BY DEF TypesIn, NoMsgs

\* A goroutine moves on: it is the only one.
LEMMA PingMove ==
  ASSUME NEW c \in Pings, NEW st, ping \in [Pings -> PingStates], Becomes(c, st)
  PROVE  /\ c[1] \in Peers /\ c[2] \in Slots /\ c = <<c[1], c[2]>>
         /\ Moves(c[1], c[2], ping[c], st)
         /\ \A q \in Peers : q # c[1] => Rests(q)
<1>1. PICK p \in Peers, k \in Slots : c = <<p, k>>
  BY DEF Pings
<1>2. c[1] = p /\ c[2] = k
  BY <1>1
<1>3. \A q \in Peers, j \in Slots :
        <<q, j>> \in Pings /\ (<<q, j>> = c <=> q = p /\ j = k)
  BY <1>1 DEF Pings
<1>4. \A d \in Pings : ping'[d] = IF d = c THEN st ELSE ping[d]
  BY DEF Becomes
<1>5. \A q \in Peers, j \in Slots :
        /\ Of(q)[j] = ping[<<q, j>>]
        /\ Of(q)'[j] = IF q = p /\ j = k THEN st ELSE ping[<<q, j>>]
  BY <1>3, <1>4 DEF Of
<1>6. Moves(p, k, ping[c], st)
  BY <1>1, <1>5 DEF Moves
<1>7. \A q \in Peers : q # p => Rests(q)
  BY <1>5 DEF Rests
<1>. QED  BY <1>1, <1>2, <1>6, <1>7

LEMMA PingRests == UNCHANGED ping => \A q \in Peers : Rests(q)
BY DEF Rests, Of

\* A step of the goroutine of a ping: other peers see nothing of it.
LEMMA OtherPeers ==
  ASSUME Ind, NEW c \in Pings, NEW st \in PingStates, Becomes(c, st), UNCHANGED lis,
         UNCHANGED buf \/ (\E type \in Types : Say(c[1], type)),
         UNCHANGED list \/ (\E s \in Statuses : list' = [list EXCEPT ![c[1]] = s])
  PROVE  /\ \A q \in Peers : q # c[1] => PeerStep(q)
         /\ c[1] \in Peers /\ c[2] \in Slots /\ Moves(c[1], c[2], ping[c], st)
         /\ UNCHANGED buf => Hears(c[1], {})
         /\ \A type \in Types : Say(c[1], type) => Hears(c[1], {type})
         /\ \A s \in Statuses : list' = [list EXCEPT ![c[1]] = s] => list'[c[1]] = s
<1>1. ping \in [Pings -> PingStates] /\ buf \in Msgs /\ list \in [Peers -> Statuses]
  BY IndParts DEF NodeInd, NodeType
<1>2. /\ c[1] \in Peers /\ c[2] \in Slots /\ Moves(c[1], c[2], ping[c], st)
      /\ \A q \in Peers : q # c[1] => Rests(q)
  BY <1>1, PingMove
<1>3. ASSUME UNCHANGED buf, NEW q \in Peers PROVE Hears(q, {})
  BY <1>3 DEF Hears, Talk, TypesIn
<1>4. ASSUME NEW type \in Types, Say(c[1], type), NEW q \in Peers
      PROVE  Hears(q, IF q = c[1] THEN {type} ELSE {})
  <2>1. TypesIn(buf', q) \subseteq TypesIn(buf, q) \cup (IF q = c[1] THEN {type} ELSE {})
    BY <1>1, <1>2, <1>4, TalkSay DEF Say
  <2>. QED  BY <2>1 DEF Hears, Talk, TypesIn
<1>5. ASSUME NEW q \in Peers, q # c[1] PROVE PeerStep(q)
  <2>1. Hears(q, {})
    BY <1>3, <1>4, <1>5
  <2>2. Keeps(q)
    BY <1>1, <1>5 DEF Keeps
  <2>. QED  BY <1>2, <1>5, <2>1, <2>2 DEF PeerStep
<1>. QED  BY <1>1, <1>2, <1>3, <1>4, <1>5

LEMMA PingerPeer ==
  ASSUME Ind, NEW c \in Pings, Pinger(c), NEW q \in Peers
  PROVE  PeerStep(q)
<1>1. /\ ping \in [Pings -> PingStates] /\ list \in [Peers -> Statuses]
      /\ c[1] \in Peers /\ c[2] \in Slots
  BY IndParts DEF NodeInd, NodeType, Pings
<1>. USE DEF PingStates, Statuses, Types
<1>2. ASSUME Late(c) PROVE PeerStep(q)
  <2>1. Becomes(c, "late") /\ UNCHANGED <<lis, buf, list>> /\ (ping[c] = "old" \/ (Jammed /\ ping[c] = "wait"))
    BY <1>2 DEF Late
  <2>2. Moves(c[1], c[2], ping[c], "late") /\ Hears(c[1], {}) /\ Keeps(c[1])
    BY <2>1, OtherPeers DEF Keeps
  <2>3. PeerStep(c[1])
    BY <1>1, <2>1, <2>2 DEF PeerStep, PingMoves
  <2>. QED  BY <2>1, <2>3, OtherPeers
<1>3. ASSUME MarkAlive(c) PROVE PeerStep(q)
  <2>1. Becomes(c, "none") /\ UNCHANGED lis /\ ping[c] = "acked"
    BY <1>3 DEF MarkAlive, NoPing
  <2>2. \/ UNCHANGED <<buf, list>>
        \/ list[c[1]] = "SUSPECTED" /\ Say(c[1], "ACTIVE") /\ list' = [list EXCEPT ![c[1]] = "ACTIVE"]
    BY <1>3 DEF MarkAlive
  <2>3. Moves(c[1], c[2], "acked", "none")
    BY <2>1, <2>2, OtherPeers
  <2>4. CASE UNCHANGED <<buf, list>>
    <3>1. Hears(c[1], {}) /\ Keeps(c[1])
      BY <2>1, <2>4, OtherPeers DEF Keeps
    <3>2. PeerStep(c[1])
      BY <1>1, <2>3, <3>1 DEF PeerStep, PingMoves
    <3>. QED  BY <2>1, <2>4, <3>2, OtherPeers
  <2>5. CASE list[c[1]] = "SUSPECTED" /\ Say(c[1], "ACTIVE") /\ list' = [list EXCEPT ![c[1]] = "ACTIVE"]
    <3>1. PeerStep(c[1])
      BY <1>1, <2>3, <2>5 DEF PeerStep, PingMoves
    <3>. QED  BY <2>1, <2>5, <3>1, OtherPeers
  <2>. QED  BY <2>2, <2>4, <2>5
<1>4. ASSUME MarkFailed(c) PROVE PeerStep(q)
  <2>1. ping[c] = "late" /\ UNCHANGED <<lis, list>>
    BY <1>4 DEF MarkFailed
  <2>2. CASE c[1] \in Members
    <3>1. Becomes(c, "signal") /\ UNCHANGED buf /\ list[c[1]] # "absent"
      BY <1>4, <2>2 DEF MarkFailed, Members
    <3>2. Moves(c[1], c[2], "late", "signal") /\ Hears(c[1], {}) /\ Keeps(c[1])
      BY <2>1, <3>1, OtherPeers DEF Keeps
    <3>3. PeerStep(c[1])
      BY <1>1, <3>1, <3>2 DEF PeerStep, PingMoves
    <3>. QED  BY <2>1, <3>1, <3>3, OtherPeers
  <2>3. CASE c[1] \notin Members
    <3>1. Becomes(c, "none") /\ Say(c[1], "FAILED") /\ list[c[1]] = "absent"
      BY <1>1, <1>4, <2>3 DEF MarkFailed, Members, NoPing
    <3>2. Moves(c[1], c[2], "late", "none") /\ Hears(c[1], {"FAILED"}) /\ Keeps(c[1])
      BY <2>1, <3>1, OtherPeers DEF Keeps
    <3>3. PeerStep(c[1])
      BY <1>1, <3>1, <3>2 DEF PeerStep, PingMoves
    <3>. QED  BY <2>1, <3>1, <3>3, OtherPeers
  <2>. QED  BY <2>2, <2>3
<1>5. ASSUME MarkFailedEnd(c) PROVE PeerStep(q)
  <2>1. /\ ping[c] = "remove" /\ UNCHANGED lis /\ Becomes(c, "none")
        /\ list' = [list EXCEPT ![c[1]] = "absent"] /\ Say(c[1], "FAILED")
    BY <1>5 DEF MarkFailedEnd, NoPing
  <2>2. Moves(c[1], c[2], "remove", "none") /\ Hears(c[1], {"FAILED"}) /\ list'[c[1]] = "absent"
    BY <2>1, OtherPeers
  <2>3. PeerStep(c[1])
    BY <1>1, <2>2 DEF PeerStep, PingMoves
  <2>. QED  BY <2>1, <2>3, OtherPeers
<1>6. ASSUME Suspect(c) PROVE PeerStep(q)
  <2>1. ping[c] = "late" /\ UNCHANGED lis
    BY <1>6 DEF Suspect
  <2>2. CASE list[c[1]] = "SUSPECTED"
    <3>1. Becomes(c, "none") /\ UNCHANGED <<buf, list>>
      BY <1>6, <2>2 DEF Suspect, NoPing
    <3>2. Moves(c[1], c[2], "late", "none")
      BY <2>1, <3>1, OtherPeers
    <3>3. PeerStep(c[1])
      BY <1>1, <2>2, <3>2 DEF PeerStep, PingMoves
    <3>. QED  BY <2>1, <3>1, <3>3, OtherPeers
  <2>3. CASE list[c[1]] # "SUSPECTED"
    <3>. DEFINE s == IF list[c[1]] = "absent" THEN "absent" ELSE "SUSPECTED"
    <3>1. Becomes(c, "sleep") /\ Say(c[1], "SUSPECTED") /\ list' = [list EXCEPT ![c[1]] = s]
      BY <1>1, <1>6, <2>3 DEF Suspect, Members
    <3>2. s \in Statuses
      OBVIOUS
    <3>3. Moves(c[1], c[2], "late", "sleep") /\ Hears(c[1], {"SUSPECTED"}) /\ list'[c[1]] = s
      <4>. HIDE DEF s
      <4>. QED  BY <2>1, <3>1, <3>2, OtherPeers
    <3>4. PeerStep(c[1])
      BY <1>1, <3>3 DEF PeerStep, PingMoves
    <3>. HIDE DEF s
    <3>. QED  BY <2>1, <3>1, <3>2, <3>4, OtherPeers
  <2>. QED  BY <2>2, <2>3
<1>7. ASSUME SuspicionEnd(c) PROVE PeerStep(q)
  <2>1. ping[c] = "sleep" /\ UNCHANGED <<lis, list>>
    BY <1>7 DEF SuspicionEnd
  <2>2. CASE list[c[1]] = "SUSPECTED"
    <3>1. Becomes(c, "tell") /\ Say(c[1], "FAILED")
      BY <1>7, <2>2 DEF SuspicionEnd
    <3>2. Moves(c[1], c[2], "sleep", "tell") /\ Hears(c[1], {"FAILED"}) /\ Keeps(c[1])
      BY <2>1, <3>1, OtherPeers DEF Keeps
    <3>3. PeerStep(c[1])
      BY <1>1, <2>2, <3>2 DEF PeerStep, PingMoves
    <3>. QED  BY <2>1, <3>1, <3>3, OtherPeers
  <2>3. CASE list[c[1]] # "SUSPECTED"
    <3>1. Becomes(c, "none") /\ UNCHANGED buf
      BY <1>7, <2>3 DEF SuspicionEnd, NoPing
    <3>2. Moves(c[1], c[2], "sleep", "none") /\ Hears(c[1], {}) /\ Keeps(c[1])
      BY <2>1, <3>1, OtherPeers DEF Keeps
    <3>3. PeerStep(c[1])
      BY <1>1, <2>3, <3>2 DEF PeerStep, PingMoves
    <3>. QED  BY <2>1, <3>1, <3>3, OtherPeers
  <2>. QED  BY <2>2, <2>3
<1>8. ASSUME SuspectRemoved(c) PROVE PeerStep(q)
  <2>1. /\ ping[c] = "told" /\ UNCHANGED <<lis, buf>> /\ Becomes(c, "none")
        /\ list' = [list EXCEPT ![c[1]] = "absent"]
    BY <1>8 DEF SuspectRemoved, NoPing
  <2>2. Moves(c[1], c[2], "told", "none") /\ Hears(c[1], {"FAILED"}) /\ list'[c[1]] = "absent"
    <3>1. Moves(c[1], c[2], "told", "none") /\ Hears(c[1], {}) /\ list'[c[1]] = "absent"
      BY <2>1, OtherPeers
    <3>. QED  BY <3>1 DEF Hears
  <2>3. PeerStep(c[1])
    BY <1>1, <2>2 DEF PeerStep, PingMoves
  <2>. QED  BY <2>1, <2>3, OtherPeers
<1>9. ASSUME SignalByPing(c) PROVE PeerStep(q)
  <2>. DEFINE st == IF ping[c] = "signal" THEN "remove" ELSE "told"
  <2>1. /\ ping[c] \in {"signal", "tell"} /\ UNCHANGED <<lis, buf, list>> /\ Becomes(c, st)
        /\ c[1] \in signalled'
    BY <1>9 DEF SignalByPing, HyReceive
  <2>2. Moves(c[1], c[2], ping[c], st) /\ Hears(c[1], {}) /\ Keeps(c[1])
    BY <2>1, OtherPeers DEF Keeps
  <2>3. PeerStep(c[1])
    BY <1>1, <2>1, <2>2 DEF PeerStep, PingMoves
  <2>. QED  BY <2>1, <2>3, OtherPeers
<1>. QED  BY <1>2, <1>3, <1>4, <1>5, <1>6, <1>7, <1>8, <1>9 DEF Pinger

\* What is left to do is at most what the buffer has.
LEMMA ActingTalk ==
  ASSUME NEW b \in Msgs, NEW q \in Peers
  PROVE  TypesIn(Acting(b).todo, q) = TypesIn(b, q)
BY ActingType

\* The steps of the listener.
LEMMA ListenerPeer ==
  ASSUME Ind, NEW q \in Peers, Listener
  PROVE  PeerStep(q)
<1>1. /\ ping \in [Pings -> PingStates] /\ list \in [Peers -> Statuses] /\ buf \in Msgs
      /\ lis \in LisRec /\ lis.p \in Peers /\ lis.todo \in Msgs /\ ListenerInv
      /\ ackMap \in [Peers -> 0 .. MaxPings]
  BY IndParts DEF NodeInd, NodeType, LisRec
<1>2. ASSUME HandOver PROVE PeerStep(q)
  <2>. DEFINE c == <<lis.p, ackMap[lis.p]>>
  <2>1. c \in Pings
    BY <1>1, <1>2, Bounds DEF HandOver, ListenerInv, Pings, Slots
  <2>2. Becomes(c, "acked") /\ ping[c] \in {"wait", "old"} /\ lis' = Acting(buf) /\ UNCHANGED <<list, buf>>
    BY <1>2 DEF HandOver, Awaiting
  <2>. HIDE DEF c
  <2>3. Keeps(q) /\ Hears(q, {})
    <3>1. TypesIn(lis'.todo, q) = TypesIn(buf, q)
      BY <1>1, <2>2, ActingTalk
    <3>2. TypesIn(buf', q) = TypesIn(buf, q) /\ TypesIn(lis.todo, q)' = TypesIn(lis'.todo, q)
      BY <2>2 DEF TypesIn
    <3>. QED  BY <2>2, <3>1, <3>2 DEF Keeps, Hears, Talk, TypesIn
  <2>4. c[2] \in Slots /\ Moves(c[1], c[2], ping[c], "acked") /\ (q # c[1] => Rests(q))
    BY <1>1, <2>1, <2>2, PingMove
  <2>. QED  BY <2>2, <2>3, <2>4 DEF PeerStep, PingMoves
<1>3. ASSUME NEW p \in Peers, lis.todo[p] # <<>>, Done(p), UNCHANGED buf
      PROVE  Hears(q, {}) /\ Head(lis.todo[p]) \in Talk(p)
  <2>. DEFINE b == [lis.todo EXCEPT ![p] = Tail(@)]
  <2>1. b \in Msgs
    BY <1>1, <1>3, DoneType
  <2>2. /\ TypesIn(b, q) \subseteq TypesIn(lis.todo, q)
        /\ Head(lis.todo[p]) \in TypesIn(lis.todo, p)
    BY <1>1, <1>3, TalkDone
  <2>3. lis' = Acting(b)
    BY <1>3 DEF Done
  <2>. HIDE DEF b
  <2>4. TypesIn(lis'.todo, q) = TypesIn(b, q)
    BY <2>1, <2>3, ActingTalk
  <2>. QED  BY <1>3, <2>2, <2>4 DEF Hears, Talk, TypesIn
<1>4. ASSUME ActRemoved PROVE PeerStep(q)
  <2>1. lis.todo[lis.p] # <<>> /\ Done(lis.p) /\ UNCHANGED <<buf, ping>> /\ lis.pc = "remove"
        /\ list' = [list EXCEPT ![lis.p] = "absent"]
    BY <1>1, <1>4 DEF ActRemoved, ListenerInv
  <2>2. Hears(q, {})
    BY <1>1, <1>3, <2>1
  <2>3. Keeps(q) \/ Heard(q)
    BY <1>1, <2>1 DEF Keeps, Heard
  <2>. QED  BY <2>1, <2>2, <2>3, PingRests DEF PeerStep
<1>5. ASSUME SignalByListener PROVE PeerStep(q)
  <2>1. lis' = [lis EXCEPT !.pc = "remove"] /\ UNCHANGED <<buf, ping, list>>
    BY <1>5 DEF SignalByListener, HyReceive
  <2>2. lis'.todo = lis.todo
    BY <1>1, <2>1 DEF LisRec
  <2>. QED  BY <2>1, <2>2 DEF PeerStep, Hears, Talk, Keeps, TypesIn, Rests, Of
<1>6. ASSUME NEW p \in Peers, Act(p) PROVE PeerStep(q)
  <2>. DEFINE type == Head(lis.todo[p])
  <2>1. lis.todo[p] # <<>> /\ UNCHANGED <<buf, ping>>
    BY <1>6 DEF Act
  <2>2. CASE lis' = [lis EXCEPT !.pc = "signal", !.p = p] /\ UNCHANGED list
    <3>1. lis'.todo = lis.todo
      BY <1>1, <2>2 DEF LisRec
    <3>. QED  BY <2>1, <2>2, <3>1 DEF PeerStep, Hears, Talk, Keeps, TypesIn, Rests, Of
  <2>3. CASE Done(p)
    <3>1. Hears(q, {}) /\ type \in Talk(p)
      BY <1>3, <2>1, <2>3
    <3>2. \/ UNCHANGED list
          \/ type = "LEFT" /\ list' = [list EXCEPT ![p] = "absent"]
          \/ type = "SUSPECTED" /\ list' = [list EXCEPT ![p] = IF p \in Members THEN "SUSPECTED" ELSE @]
          \/ type = "ACTIVE" /\ list' = [list EXCEPT ![p] = "ACTIVE"]
      BY <1>6 DEF Act
    <3>. HIDE DEF type
    <3>3. Keeps(q) \/ Heard(q)
      BY <1>1, <3>1, <3>2 DEF Keeps, Heard, Members
    <3>. QED  BY <2>1, <3>1, <3>3, PingRests DEF PeerStep
  <2>4. Done(p) \/ (lis' = [lis EXCEPT !.pc = "signal", !.p = p] /\ UNCHANGED list)
    BY <1>6 DEF Act
  <2>. QED  BY <2>2, <2>3, <2>4
<1>. QED  BY <1>2, <1>4, <1>5, <1>6 DEF Listener

\* Without messages of other nodes every step is one of these for every peer.
LEMMA PeerNext ==
  ASSUME Ind, NEW q \in Peers, Next, gossips' = 0
  PROVE  PeerStep(q)
<1>1. /\ ping \in [Pings -> PingStates] /\ list \in [Peers -> Statuses] /\ buf \in Msgs
      /\ lis \in LisRec /\ lis.p \in Peers /\ lis.todo \in Msgs /\ gossips \in Nat
  BY Bounds, IndParts DEF NodeInd, NodeType, LisRec, EnvType
<1>2. ASSUME UNCHANGED <<ping, list, buf, lis>> PROVE PeerStep(q)
  BY <1>2 DEF PeerStep, Hears, Talk, Keeps, TypesIn, Rests, Of
<1>3. ASSUME NEW on, buf' \in Resolved(buf, on), UNCHANGED <<ping, list>>,
             lis' = Acting(buf') \/ lis'.todo = NoMsgs
      PROVE  PeerStep(q)
  <2>. DEFINE b == buf'
  <2>1. b \in Msgs /\ TypesIn(b, q) \subseteq TypesIn(buf, q)
    BY <1>1, <1>3, ResolvedType, TalkResolved
  <2>2. TypesIn(lis'.todo, q) \subseteq TypesIn(b, q)
    <3>. HIDE DEF b
    <3>1. lis' = Acting(b) \/ lis'.todo = NoMsgs
      BY <1>3 DEF b
    <3>. QED  BY <2>1, <3>1, ActingTalk, TalkNone
  <2>3. Hears(q, {})
    BY <2>1, <2>2 DEF Hears, Talk, TypesIn
  <2>. QED  BY <1>3, <2>3, PingRests DEF PeerStep, Keeps
<1>4. ASSUME RoundEnd PROVE PeerStep(q)
  <2>1. buf' = NoMsgs /\ UNCHANGED <<ping, list, lis>>
    BY <1>4 DEF RoundEnd
  <2>2. TypesIn(buf', q) = {}
    BY <2>1, TalkNone
  <2>3. Hears(q, {})
    BY <2>1, <2>2 DEF Hears, Talk, TypesIn
  <2>. QED  BY <2>1, <2>3, PingRests DEF PeerStep, Keeps
<1>5. ASSUME NEW p \in Peers, NEW k \in Slots, SendPing(p, k) PROVE PeerStep(q)
  <2>. DEFINE c == <<p, k>>
  <2>1. c \in Pings /\ c[1] = p /\ c[2] = k
    BY DEF Pings
  <2>2. ping[c] = "none" /\ Becomes(c, "wait") /\ UNCHANGED <<list, buf, lis>>
    BY <1>5 DEF SendPing, NextPing, NoPing, Becomes
  <2>. HIDE DEF c
  <2>3. Hears(q, {}) /\ Keeps(q)
    BY <2>2 DEF Hears, Talk, Keeps, TypesIn
  <2>4. Moves(p, k, "none", "wait") /\ (q # p => Rests(q))
    BY <1>1, <2>1, <2>2, PingMove
  <2>. QED  BY <2>3, <2>4 DEF PeerStep, PingMoves
<1>6. ASSUME NEW p \in Peers, ReceiveAck(p) PROVE PeerStep(q)
  <2>1. /\ buf' \in Resolved(buf, SuspicionModeEnabled) /\ UNCHANGED <<ping, list>>
        /\ lis' = Acting(buf') \/ lis' = [Reading EXCEPT !.pc = "ack", !.p = p]
    BY <1>6 DEF ReceiveAck
  <2>2. [Reading EXCEPT !.pc = "ack", !.p = p].todo = NoMsgs
    BY DEF Reading
  <2>. QED  BY <1>3, <2>1, <2>2
<1>7. ASSUME ReceivePing \/ ReceiveSwitch PROVE PeerStep(q)
  BY <1>3, <1>7 DEF ReceivePing, ReceiveSwitch
<1>8. ASSUME NEW m \in Gossip, ReceiveMessage(m) PROVE FALSE
  <2>1. gossips' = gossips + 1
    BY <1>8 DEF ReceiveMessage
  <2>. QED  BY <1>1, <2>1
<1>9. ASSUME NEW p \in Peers, Crash(p) \/ AckLost(p) \/ SkipPing(p) PROVE PeerStep(q)
  BY <1>2, <1>9 DEF Crash, AckLost, SkipPing
<1>10. ASSUME RoundBegin PROVE PeerStep(q)
  <2>1. /\ UNCHANGED <<list, buf, lis>>
        /\ ping' = [c \in Pings |-> IF ping[c] = "wait" THEN "old" ELSE ping[c]]
    BY <1>10 DEF RoundBegin
  <2>2. Hears(q, {}) /\ Keeps(q)
    BY <2>1 DEF Hears, Talk, Keeps, TypesIn
  <2>3. NextRound(q)
    BY <2>1 DEF NextRound, Of, Pings
  <2>. QED  BY <1>10, <2>2, <2>3 DEF PeerStep
<1>11. ASSUME PingFailure PROVE PeerStep(q)
  BY <1>2, <1>11 DEF PingFailure, PingFails
<1>12. ASSUME Repairer \/ LeaderWakes \/ SwitchSuspicion PROVE PeerStep(q)
  BY <1>2, <1>12 DEF Repairer, Forward, BatchBegin, BatchEnd, BatchRanges, LeaderWakes, SwitchSuspicion
<1>. QED  BY <1>4, <1>5, <1>6, <1>7, <1>8, <1>9, <1>12, <1>10, <1>11, PingerPeer, ListenerPeer DEF Next, Sender, Receive

\* Budgets are only used up, and peers fail only by crashes.
LEMMA BudgetsGrow ==
  ASSUME EnvType, Next
  PROVE  /\ gossips' = 0 => gossips = 0
         /\ faults' = 0 => faults = 0
         /\ UNCHANGED <<alive, crashes>> \/ \E p \in Peers : Crash(p)
<1>1. gossips \in Nat /\ faults \in Nat
  BY Bounds DEF EnvType
<1>. DEFINE Goal == /\ gossips' = 0 => gossips = 0
                    /\ faults' = 0 => faults = 0
                    /\ UNCHANGED <<alive, crashes>> \/ \E p \in Peers : Crash(p)
<1>2. ASSUME faults' = faults \/ faults' = faults + 1, gossips' = gossips \/ gossips' = gossips + 1,
             UNCHANGED <<alive, crashes>>
      PROVE  Goal
  BY <1>1, <1>2
<1>. HIDE DEF Goal
<1>3. ASSUME UNCHANGED env PROVE Goal
  BY <1>2, <1>3 DEF env
<1>4. ASSUME NEW p \in Peers, Crash(p) \/ AckLost(p) PROVE Goal
  <2>1. CASE Crash(p)
    BY <2>1 DEF Goal, Crash
  <2>2. CASE AckLost(p)
    BY <1>2, <2>2 DEF AckLost, Fault
  <2>. QED  BY <1>4, <2>1, <2>2
<1>5. ASSUME NEW m \in Gossip, ReceiveMessage(m) PROVE Goal
  BY <1>2, <1>5 DEF ReceiveMessage
<1>6. ASSUME SwitchSuspicion \/ ReceiveSwitch \/ (\E p \in Peers : ReceiveAck(p)) PROVE Goal
  BY <1>2, <1>6 DEF SwitchSuspicion, ReceiveSwitch, ReceiveAck
<1>7. ASSUME Sender \/ PingFailure PROVE Goal
  <2>1. ASSUME RoundBegin PROVE Goal
    BY <1>2, <2>1 DEF RoundBegin, NoFault, Fault
  <2>2. ASSUME NEW p \in Peers, NEW k \in Slots, SendPing(p, k) PROVE Goal
    BY <1>2, <2>2 DEF SendPing
  <2>3. ASSUME RoundEnd \/ \E p \in Peers : SkipPing(p) PROVE Goal
    BY <1>3, <2>3 DEF RoundEnd, SkipPing
  <2>4. ASSUME PingFailure PROVE Goal
    BY <1>2, <2>4 DEF PingFailure, PingFails, Fault
  <2>. QED  BY <1>7, <2>1, <2>2, <2>3, <2>4 DEF Sender
<1>8. ASSUME NEW c \in Pings, Pinger(c) PROVE Goal
  BY <1>3, <1>8 DEF Pinger, Late, MarkAlive, MarkFailed, MarkFailedEnd, Suspect, SuspicionEnd,
         SuspectRemoved, SignalByPing, HyReceive
<1>9. ASSUME Listener \/ ReceivePing \/ Repairer \/ LeaderWakes PROVE Goal
  BY <1>3, <1>9 DEF Listener, HandOver, ActRemoved, SignalByListener, HyReceive, Act, ReceivePing,
         Repairer, Forward, BatchBegin, BatchEnd, BatchRanges, LeaderWakes
<1>10. Goal
  BY <1>4, <1>5, <1>6, <1>7, <1>8, <1>9 DEF Next, Receive
<1>. QED  BY <1>10 DEF Goal

-----------------------------------------------------------------------------
(* What is said of a peer. *)

Busy      == {"old", "late", "signal", "remove", "sleep", "tell", "told"}
Suspicion == {"sleep", "tell", "told"}

\* Without messages of other nodes, and as long as the peer is in the list: one ping at
\* most goes without an answer; the peer is suspected just when the goroutine of that ping
\* waits for the end of a suspicion or tells HyDFS of it, and only then it is said to be
\* suspected, or in the end to have failed.
SaidOf(q) ==
  /\ "LEFT" \notin Talk(q) /\ "ACTIVE" \notin Talk(q)
  /\ \A j, k \in Slots : Of(q)[j] \in {"signal", "tell"} /\ Of(q)[k] \in {"signal", "tell"} => j = k
  /\ list[q] # "absent" =>
       /\ \A j, k \in Slots : Of(q)[j] \in Busy /\ Of(q)[k] \in Busy => j = k
       /\ list[q] = "SUSPECTED" <=> Has(q, Suspicion)
       /\ "SUSPECTED" \in Talk(q) => Has(q, Suspicion)
       /\ "FAILED" \in Talk(q) => Has(q, {"tell", "told"})

\* The sender pings each peer once in a round.
OneWaits(q) ==
  \A j \in Slots : Of(q)[j] = "wait" =>
    /\ ~(round.pc = "send" /\ q \in round.todo)
    /\ \A k \in Slots : Of(q)[k] = "wait" => j = k

LEMMA SaidNext ==
  ASSUME NEW q \in Peers, SaidOf(q), PeerStep(q), OneWaits(q), ~Jammed,
         Has(q, {"acked"}) => list[q] # "SUSPECTED",
         RoundBegin => list[q] = "absent" \/ ~Has(q, Busy)
  PROVE  SaidOf(q)'
<1>. DEFINE types == Talk(q)           types_ == Talk(q)'
            s == list[q]               s_ == list'[q]
            g == Of(q)                 g_ == Of(q)'
            Inv(t, l, p) ==
              /\ "LEFT" \notin t /\ "ACTIVE" \notin t
              /\ \A j, k \in Slots : p[j] \in {"signal", "tell"} /\ p[k] \in {"signal", "tell"} => j = k
              /\ l # "absent" =>
                   /\ \A j, k \in Slots : p[j] \in Busy /\ p[k] \in Busy => j = k
                   /\ l = "SUSPECTED" <=> \E k \in Slots : p[k] \in Suspicion
                   /\ "SUSPECTED" \in t => \E k \in Slots : p[k] \in Suspicion
                   /\ "FAILED" \in t => \E k \in Slots : p[k] \in {"tell", "told"}
<1>. USE DEF Busy, Suspicion
<1>1. Inv(types, s, g)
  BY DEF SaidOf, Has
<1>2. Inv(types_, s_, g_) => SaidOf(q)'
  BY DEF SaidOf, Has
<1>3. CASE Rests(q) /\ Hears(q, {}) /\ (Keeps(q) \/ Heard(q))
  <2>1. /\ \A k \in Slots : g_[k] = g[k]
        /\ types_ \subseteq types
        /\ \/ s_ = s
           \/ "SUSPECTED" \in types /\ s # "absent" /\ s_ = "SUSPECTED"
           \/ s_ = "absent"
    BY <1>1, <1>3 DEF Heard, Keeps, Hears, Rests
  <2>2. Inv(types_, s_, g_)
    <3>. HIDE DEF types, types_, s, s_, g, g_
    <3>. QED  BY <1>1, <2>1
  <2>. QED  BY <1>2, <2>2
<1>4. ASSUME NEW k \in Slots, PingMoves(q, k) PROVE SaidOf(q)'
  <2>. DEFINE From(x, y) == g[k] = x /\ g_[k] = y
  <2>1. \/ /\ types_ \subseteq types /\ s_ = s
           /\ \/ From("none", "wait") \/ From("wait", "acked") \/ From("old", "acked")
              \/ From("old", "late") \/ From("acked", "none") \/ (s # "absent" /\ From("late", "signal"))
              \/ From("signal", "remove") \/ From("tell", "told")
              \/ (s # "SUSPECTED" /\ From("sleep", "none"))
        \/ s = "SUSPECTED" /\ From("late", "none")
        \/ From("late", "none") /\ s = "absent" /\ types_ \subseteq types \cup {"FAILED"} /\ s_ = s
        \/ /\ From("late", "sleep") /\ types_ \subseteq types \cup {"SUSPECTED"}
           /\ s_ = IF s = "absent" THEN "absent" ELSE "SUSPECTED"
        \/ From("sleep", "tell") /\ s = "SUSPECTED" /\ types_ \subseteq types \cup {"FAILED"} /\ s_ = s
        \/ s_ = "absent" /\ types_ \subseteq types \cup {"FAILED"} /\ g_[k] = "none"
    BY <1>4 DEF PingMoves, Moves, Hears, Keeps, Has
  <2>2. \A j \in Slots : j # k => g_[j] = g[j]
    BY <1>4 DEF PingMoves, Moves
  <2>3. Inv(types_, s_, g_)
    <3>. HIDE DEF types, types_, s, s_, g, g_
    <3>. QED  BY <1>1, <2>1, <2>2
  <2>. QED  BY <1>2, <2>3
<1>5. CASE RoundBegin /\ NextRound(q) /\ Hears(q, {}) /\ Keeps(q)
  <2>1. /\ \A k \in Slots : g_[k] = IF g[k] = "wait" THEN "old" ELSE g[k]
        /\ types_ \subseteq types /\ s_ = s
        /\ s = "absent" \/ \A k \in Slots : g[k] \notin Busy
        /\ \A j, k \in Slots : g[j] = "wait" /\ g[k] = "wait" => j = k
    BY <1>5 DEF NextRound, Hears, Keeps, Has, OneWaits
  <2>2. Inv(types_, s_, g_)
    <3>. HIDE DEF types, types_, s, s_, g, g_
    <3>. QED  BY <1>1, <2>1
  <2>. QED  BY <1>2, <2>2
<1>. QED  BY <1>3, <1>4, <1>5 DEF PeerStep

\* Who takes and releases MemberShipListMutex: inside markNodeFailed, but for a peer that
\* is found suspected.
InMarkNodeFailed(c) == ping[c] \in {"signal", "remove"}

LEMMA MutexForm ==
  ASSUME Ind, Next
  PROVE  \/ UNCHANGED mlm /\ \A c \in Pings : InMarkNodeFailed(c) => InMarkNodeFailed(c)'
         \/ \E c \in Pings : InMarkNodeFailed(c)'
         \/ ~mlm'
         \/ \E c \in Pings : ping[c] = "late" /\ list[c[1]] = "SUSPECTED"
<1>. DEFINE Stays == UNCHANGED mlm /\ \A c \in Pings : InMarkNodeFailed(c) => InMarkNodeFailed(c)'
<1>1. ping \in [Pings -> PingStates]
  BY IndParts DEF NodeInd, NodeType
<1>2. ASSUME NEW c \in Pings, NEW st, Becomes(c, st), UNCHANGED mlm,
             ping[c] \notin {"signal", "remove"} \/ st \in {"signal", "remove"}
      PROVE  Stays
  BY <1>1, <1>2 DEF Becomes, InMarkNodeFailed
<1>3. ASSUME UNCHANGED <<mlm, ping>> PROVE Stays
  BY <1>3 DEF InMarkNodeFailed
<1>. HIDE DEF Stays
<1>4. ASSUME NEW c \in Pings, Pinger(c)
      PROVE  \/ Stays \/ ~mlm' \/ InMarkNodeFailed(c)'
             \/ ping[c] = "late" /\ list[c[1]] = "SUSPECTED"
  <2>1. ASSUME Late(c) \/ MarkAlive(c) \/ SuspicionEnd(c) \/ SuspectRemoved(c) PROVE Stays
    <3>1. UNCHANGED mlm /\ ping[c] \notin {"signal", "remove"} /\ \E st : Becomes(c, st)
      BY <2>1 DEF Late, MarkAlive, SuspicionEnd, SuspectRemoved
    <3>. QED  BY <1>2, <3>1
  <2>2. ASSUME SignalByPing(c) PROVE Stays
    <3>1. /\ UNCHANGED mlm /\ ping[c] \in {"signal", "tell"}
          /\ Becomes(c, IF ping[c] = "signal" THEN "remove" ELSE "told")
      BY <2>2 DEF SignalByPing, HyReceive
    <3>. QED  BY <1>2, <3>1
  <2>3. ASSUME MarkFailed(c) PROVE Stays \/ InMarkNodeFailed(c)'
    <3>1. CASE c[1] \in Members
      <4>1. Becomes(c, "signal")
        BY <2>3, <3>1 DEF MarkFailed
      <4>. QED  BY <1>1, <4>1 DEF Becomes, InMarkNodeFailed
    <3>2. CASE c[1] \notin Members
      <4>1. Becomes(c, NoPing) /\ UNCHANGED mlm /\ ping[c] = "late"
        BY <2>3, <3>2 DEF MarkFailed
      <4>. QED  BY <1>2, <4>1
    <3>. QED  BY <3>1, <3>2
  <2>4. ASSUME MarkFailedEnd(c) PROVE ~mlm'
    BY <2>4 DEF MarkFailedEnd
  <2>5. ASSUME Suspect(c) PROVE Stays \/ (ping[c] = "late" /\ list[c[1]] = "SUSPECTED")
    <3>1. CASE list[c[1]] = "SUSPECTED"
      BY <2>5, <3>1 DEF Suspect
    <3>2. CASE list[c[1]] # "SUSPECTED"
      <4>1. Becomes(c, "sleep") /\ UNCHANGED mlm /\ ping[c] = "late"
        BY <2>5, <3>2 DEF Suspect
      <4>. QED  BY <1>2, <4>1
    <3>. QED  BY <3>1, <3>2
  <2>. QED  BY <1>4, <2>1, <2>2, <2>3, <2>4, <2>5 DEF Pinger
<1>5. ASSUME HandOver PROVE Stays
  <2>. DEFINE c == <<lis.p, ackMap[lis.p]>>
  <2>1. UNCHANGED mlm /\ Becomes(c, "acked") /\ ping[c] \in {"wait", "old"}
    BY <1>5 DEF HandOver, Awaiting
  <2>. HIDE DEF c
  <2>. QED  BY <1>1, <1>3, <2>1 DEF Becomes, InMarkNodeFailed, Stays
<1>6. ASSUME NEW p \in Peers, NEW k \in Slots, SendPing(p, k) PROVE Stays
  <2>. DEFINE c == <<p, k>>
  <2>1. UNCHANGED mlm /\ Becomes(c, "wait") /\ ping[c] = "none" /\ c \in Pings
    BY <1>6 DEF SendPing, NextPing, Becomes, NoPing, Pings
  <2>. HIDE DEF c
  <2>. QED  BY <1>2, <2>1
<1>7. ASSUME NEW p \in Peers, Crash(p) \/ AckLost(p) \/ SkipPing(p) \/ ReceiveAck(p) \/ Act(p) PROVE Stays
  BY <1>3, <1>7 DEF Crash, AckLost, SkipPing, ReceiveAck, Act
<1>8. ASSUME RoundBegin PROVE Stays
  BY <1>1, <1>8 DEF RoundBegin, Stays, InMarkNodeFailed
<1>9. ASSUME \/ PingFailure \/ RoundEnd \/ ActRemoved \/ SignalByListener \/ ReceivePing \/ Repairer
             \/ LeaderWakes \/ SwitchSuspicion \/ ReceiveSwitch \/ \E m \in Gossip : ReceiveMessage(m)
      PROVE  Stays
  BY <1>3, <1>9 DEF PingFailure, PingFails, RoundEnd, ActRemoved, SignalByListener, HyReceive, ReceivePing, Repairer,
         Forward, BatchBegin, BatchEnd, BatchRanges, LeaderWakes, SwitchSuspicion, ReceiveSwitch, ReceiveMessage
<1>10. Stays \/ ~mlm' \/ \E c \in Pings : InMarkNodeFailed(c)' \/ (ping[c] = "late" /\ list[c[1]] = "SUSPECTED")
  BY <1>4, <1>5, <1>6, <1>7, <1>9, <1>8 DEF Next, Sender, Listener, Receive
<1>. QED  BY <1>10 DEF Stays

-----------------------------------------------------------------------------
(* A peer that answers, and one that fails. *)

Calm == Undisturbed /\ crashes <= 1

\* An acknowledgement of p is being handed over.
Handing(p) == lis.pc = "ack" /\ lis.p = p

\* p runs, or has failed but its last acknowledgement is not dealt with yet.
Answers(p) == p \in alive \/ acks[p] > 0 \/ Handing(p) \/ Has(p, {"acked"})

\* Nothing is known against p, and a ping that waits has its acknowledgement on the way.
Untouched(p) ==
  /\ \A k \in Slots : Of(p)[k] \in {"none", "wait", "acked"}
  /\ list[p] = "ACTIVE" /\ Talk(p) = {} /\ p \notin signalled
  /\ \A k \in Slots : Of(p)[k] = "wait" <=> ackMap[p] = k
  /\ p \in alive /\ ackMap[p] # 0 => acks[p] > 0 \/ Handing(p)

\* HyDFS takes the next failure at once, or as soon as the leader has taken the last one.
HyFree == hy.pc # "batch" /\ (hy.pc = "forward" => leader.pc = "wait")

\* The failure of p is told by the goroutine of its ping and by the listener once each at
\* most, and the listener comes first or second: HyDFS and the leader do not keep it waiting.
Failing(p) ==
  /\ p \in signalled =>
       list[p] = "absent" \/ Has(p, {"remove", "told"}) \/ (lis.pc = "remove" /\ lis.p = p)
  /\ Has(p, {"told"}) /\ lis.pc # "remove" /\ list[p] # "absent" => HyFree
  /\ lis.pc = "signal" /\ lis.p = p =>
       HyFree /\ (Has(p, {"signal", "tell"}) => p \notin signalled)

First == signalled = {} => hy.pc = "wait" /\ hy.failed = {} /\ leader.pc = "wait"

OneFailed ==
  /\ crashes = 0 => alive = Peers
  /\ crashes <= 1 => \A p, q \in Peers \ alive : p = q

LEMMA OneFailedNext ==
  ASSUME EnvType, Next, OneFailed
  PROVE  OneFailed'
<1>1. crashes \in Nat
  BY Bounds DEF EnvType
<1>2. CASE UNCHANGED <<alive, crashes>>
  BY <1>2 DEF OneFailed
<1>3. ASSUME NEW p \in Peers, Crash(p) PROVE OneFailed'
  <2>1. crashes' = crashes + 1 /\ alive' = alive \ {p}
    BY <1>3 DEF Crash
  <2>2. CASE crashes = 0
    BY <1>1, <2>1, <2>2 DEF OneFailed
  <2>3. CASE crashes # 0
    BY <1>1, <2>1, <2>3 DEF OneFailed
  <2>. QED  BY <2>2, <2>3
<1>. QED  BY <1>2, <1>3, BudgetsGrow

\* The listener is at no failure of a peer of whom nothing is said.
LEMMA UntouchedListens ==
  ASSUME NEW p \in Peers, Talk(p) = {}, ListenerInv, lis.todo \in Msgs
  PROVE  ~(lis.pc \in {"signal", "remove"} /\ lis.p = p)
<1>1. ASSUME lis.todo[p] # <<>> PROVE FALSE
  <2>1. Head(lis.todo[p]) \in TypesIn(lis.todo, p)
    BY <1>1, TalkDone
  <2>. QED  BY <2>1 DEF Talk
<1>. QED  BY <1>1 DEF ListenerInv

-----------------------------------------------------------------------------
(* The acknowledgements. *)
Same(p) == ackMap'[p] = ackMap[p] /\ acks'[p] = acks[p] /\ (Handing(p)' <=> Handing(p))

AckStep(p) ==
  \/ Rests(p) /\ Same(p) /\ alive' \subseteq alive
  \/ alive' = alive /\ \/ /\ \E k \in Slots : Moves(p, k, "none", "wait") /\ ackMap'[p] = k
                          /\ Handing(p)' <=> Handing(p)
                          /\ p \in alive => acks'[p] > 0
                          /\ p \notin alive => acks'[p] = acks[p]
                          /\ round.pc = "send" /\ p \in round.todo
                       \/ /\ Rests(p) /\ ackMap'[p] = ackMap[p]
                          /\ acks[p] > 0 /\ (Handing(p)' <=> ackMap[p] # 0)
                       \/ /\ Moves(p, ackMap[p], "wait", "acked") \/ Moves(p, ackMap[p], "old", "acked")
                          /\ Handing(p) /\ ackMap[p] \in Slots /\ ackMap'[p] = 0
                       \/ /\ RoundBegin /\ NextRound(p) /\ Same(p)
                          /\ HeldUp \/ (acks[p] = 0 /\ ~Handing(p))
                       \/ Same(p) /\ \E k \in Slots :
                            \/ Moves(p, k, "acked", "none") \/ Moves(p, k, "old", "late")
                            \/ Jammed /\ Moves(p, k, "wait", "late")
                            \/ /\ Of(p)[k] \notin {"none", "wait", "old", "acked"}
                               /\ \E t \in PingStates \ {"wait", "acked"} : Moves(p, k, Of(p)[k], t)

LEMMA AckPinger ==
  ASSUME Ind, NEW c \in Pings, Pinger(c), NEW p \in Peers
  PROVE  AckStep(p)
<1>1. ping \in [Pings -> PingStates]
  BY IndParts DEF NodeInd, NodeType
<1>. USE DEF PingStates
<1>2. ASSUME NEW st \in PingStates, Becomes(c, st)
      PROVE  /\ c[2] \in Slots
             /\ p = c[1] => Moves(p, c[2], ping[c], st) /\ Of(p)[c[2]] = ping[c]
             /\ p # c[1] => Rests(p)
  <2>1. /\ c[1] \in Peers /\ c[2] \in Slots /\ c = <<c[1], c[2]>> /\ Moves(c[1], c[2], ping[c], st)
        /\ p # c[1] => Rests(p)
    BY <1>1, <1>2, PingMove
  <2>. QED  BY <2>1 DEF Moves
<1>3. UNCHANGED <<alive, acks, ackMap, lis>> => alive' = alive /\ Same(p)
  BY DEF Same, Handing
<1>4. ASSUME Late(c) PROVE AckStep(p)
  <2>1. /\ UNCHANGED <<alive, acks, ackMap, lis>> /\ Becomes(c, "late")
        /\ ping[c] = "old" \/ (Jammed /\ ping[c] = "wait")
    BY <1>4 DEF Late, env
  <2>. QED  BY <1>2, <1>3, <2>1 DEF AckStep
<1>5. ASSUME NEW st \in PingStates, Becomes(c, st), UNCHANGED <<alive, acks, ackMap, lis>>,
             ping[c] \notin {"none", "wait", "old", "acked"}, st \notin {"wait", "acked"}
      PROVE  AckStep(p)
  <2>1. CASE p # c[1]
    BY <1>2, <1>3, <1>5, <2>1 DEF AckStep
  <2>2. CASE p = c[1]
    <3>1. /\ c[2] \in Slots /\ Of(p)[c[2]] \notin {"none", "wait", "old", "acked"}
          /\ Moves(p, c[2], Of(p)[c[2]], st) /\ st \in PingStates \ {"wait", "acked"}
      BY <1>2, <1>5, <2>2
    <3>. QED  BY <1>3, <1>5, <3>1 DEF AckStep
  <2>. QED  BY <2>1, <2>2
<1>6. ASSUME MarkFailed(c) \/ MarkFailedEnd(c) \/ Suspect(c) \/ SuspicionEnd(c) \/ SuspectRemoved(c)
      PROVE  AckStep(p)
  <2>1. UNCHANGED <<alive, acks, ackMap, lis>> /\ ping[c] \notin {"none", "wait", "old", "acked"}
    BY <1>6 DEF MarkFailed, MarkFailedEnd, Suspect, SuspicionEnd, SuspectRemoved, env
  <2>2. \E st \in PingStates \ {"wait", "acked"} : Becomes(c, st)
    BY <1>6 DEF MarkFailed, MarkFailedEnd, Suspect, SuspicionEnd, SuspectRemoved, NoPing
  <2>. QED  BY <1>5, <2>1, <2>2
<1>7. ASSUME SignalByPing(c) PROVE AckStep(p)
  <2>1. /\ UNCHANGED <<alive, acks, ackMap, lis>> /\ ping[c] \in {"signal", "tell"}
        /\ Becomes(c, IF ping[c] = "signal" THEN "remove" ELSE "told")
    BY <1>7 DEF SignalByPing, HyReceive, env
  <2>. QED  BY <1>5, <2>1
<1>8. ASSUME MarkAlive(c) PROVE AckStep(p)
  <2>1. UNCHANGED <<alive, acks, ackMap, lis>> /\ ping[c] = "acked" /\ Becomes(c, "none")
    BY <1>8 DEF MarkAlive, NoPing, env
  <2>. QED  BY <1>2, <1>3, <2>1 DEF AckStep
<1>. QED  BY <1>4, <1>6, <1>7, <1>8 DEF Pinger

LEMMA ActingRests ==
  ASSUME NEW b \in Msgs
  PROVE  Acting(b).pc \in {"read", "act"}
BY ActingType

LEMMA AckNext ==
  ASSUME Ind, Next, NEW p \in Peers, faults' = 0, gossips' = 0
  PROVE  AckStep(p)
<1>1. /\ ping \in [Pings -> PingStates] /\ faults \in Nat /\ gossips \in Nat
      /\ ackMap \in [Peers -> 0 .. MaxPings] /\ acks \in [Peers -> Nat]
      /\ lis \in LisRec /\ lis.p \in Peers /\ lis.todo \in Msgs /\ buf \in Msgs /\ ListenerInv
  BY Bounds, IndParts DEF NodeInd, NodeType, EnvType, LisRec
<1>2. ASSUME UNCHANGED <<ping, ackMap, acks>>, alive' \subseteq alive,
             UNCHANGED lis \/ (lis.pc # "ack" /\ lis'.pc # "ack")
      PROVE  AckStep(p)
  BY <1>2, PingRests DEF AckStep, Same, Handing
<1>3. ASSUME NEW q \in Peers, Crash(q) \/ AckLost(q) \/ SkipPing(q) PROVE AckStep(p)
  <2>1. ~AckLost(q)
    BY <1>1 DEF AckLost, Fault
  <2>. QED  BY <1>2, <1>3, <2>1 DEF Crash, SkipPing, env
<1>4. ASSUME NEW b \in Msgs, lis' = Acting(b), lis.pc # "ack", UNCHANGED <<ping, ackMap, acks, alive>>
      PROVE  AckStep(p)
  BY <1>2, <1>4, ActingRests
<1>5. ASSUME ReceivePing \/ ReceiveSwitch PROVE AckStep(p)
  <2>1. \E on : buf' \in Resolved(buf, on)
    BY <1>5 DEF ReceivePing, ReceiveSwitch
  <2>2. buf' \in Msgs
    BY <1>1, <2>1, ResolvedType
  <2>3. lis' = Acting(buf') /\ lis.pc # "ack" /\ UNCHANGED <<ping, ackMap, acks, alive>>
    BY <1>5 DEF ReceivePing, ReceiveSwitch, Listening, env
  <2>. QED  BY <1>4, <2>2, <2>3
<1>6. ASSUME NEW q \in Peers, ReceiveAck(q) PROVE AckStep(p)
  <2>1. /\ lis.pc = "read" /\ acks[q] > 0 /\ acks' = [acks EXCEPT ![q] = @ - 1]
        /\ lis' = IF ackMap[q] = 0 THEN Acting(buf') ELSE [Reading EXCEPT !.pc = "ack", !.p = q]
        /\ UNCHANGED <<ping, ackMap, alive>>
    BY <1>6 DEF ReceiveAck, Listening
  <2>2. buf' \in Msgs
    BY <1>1, <1>6, ResolvedType DEF ReceiveAck
  <2>3. ~Handing(p)
    BY <2>1 DEF Handing
  <2>4. CASE ackMap[q] = 0
    <3>1. lis' = Acting(buf')
      BY <2>1, <2>4
    <3>2. ~Handing(p)'
      BY <2>2, <3>1, ActingRests DEF Handing
    <3>. QED  BY <1>1, <2>1, <2>3, <2>4, <3>2, PingRests DEF AckStep, Same
  <2>5. CASE ackMap[q] # 0
    <3>1. lis' = [Reading EXCEPT !.pc = "ack", !.p = q]
      BY <2>1, <2>5
    <3>2. lis'.pc = "ack" /\ lis'.p = q
      BY <3>1 DEF Reading
    <3>3. Handing(p)' <=> p = q
      BY <3>2 DEF Handing
    <3>. QED  BY <1>1, <2>1, <2>3, <2>5, <3>3, PingRests DEF AckStep, Same
  <2>. QED  BY <2>4, <2>5
<1>7. ASSUME HandOver PROVE AckStep(p)
  <2>. DEFINE c == <<lis.p, ackMap[lis.p]>>
  <2>1. c \in Pings
    BY <1>1, <1>7, Bounds DEF HandOver, ListenerInv, Pings, Slots
  <2>2. c[1] = lis.p /\ c[2] = ackMap[lis.p] /\ ackMap[lis.p] \in Slots
    BY <1>1, <1>7, Bounds DEF HandOver, ListenerInv, Slots
  <2>3. /\ lis.pc = "ack" /\ ping[c] \in {"wait", "old"} /\ Becomes(c, "acked")
        /\ ackMap' = [ackMap EXCEPT ![lis.p] = 0] /\ lis' = Acting(buf) /\ UNCHANGED <<alive, acks>>
    BY <1>7 DEF HandOver, Awaiting, env
  <2>. HIDE DEF c
  <2>4. ~Handing(p)'
    BY <1>1, <2>3, ActingRests DEF Handing
  <2>5. Moves(lis.p, ackMap[lis.p], ping[c], "acked") /\ (p # lis.p => Rests(p))
    BY <1>1, <2>1, <2>2, <2>3, PingMove
  <2>6. CASE p = lis.p
    <3>1. ackMap'[p] = 0 /\ Handing(p)
      BY <1>1, <2>3, <2>6 DEF Handing
    <3>. QED  BY <2>2, <2>3, <2>5, <2>6, <3>1 DEF AckStep
  <2>7. CASE p # lis.p
    BY <1>1, <2>3, <2>4, <2>5, <2>7 DEF AckStep, Same, Handing
  <2>. QED  BY <2>6, <2>7
<1>8. ASSUME NEW q \in Peers, NEW k \in Slots, SendPing(q, k) PROVE AckStep(p)
  <2>. DEFINE c == <<q, k>>
  <2>1. c \in Pings /\ c[1] = q /\ c[2] = k /\ MaxPings > 0
    BY Bounds DEF Pings, Slots
  <2>2. /\ ping[c] = "none" /\ Becomes(c, "wait") /\ ackMap' = [ackMap EXCEPT ![q] = k]
        /\ acks' = IF q \in alive /\ acks[q] < MaxPings THEN [acks EXCEPT ![q] = @ + 1] ELSE acks
        /\ round.pc = "send" /\ q \in round.todo /\ UNCHANGED <<alive, lis>>
    BY <1>8 DEF SendPing, PingTurn, NextPing, Becomes, NoPing
  <2>. HIDE DEF c
  <2>3. Handing(p)' <=> Handing(p)
    BY <2>2 DEF Handing
  <2>4. Moves(q, k, "none", "wait") /\ (p # q => Rests(p))
    BY <1>1, <2>1, <2>2, PingMove
  <2>5. CASE p = q
    <3>1. /\ p \in alive => acks'[p] > 0
          /\ p \notin alive => acks'[p] = acks[p]
          /\ ackMap'[p] = k
      BY <1>1, <2>1, <2>2, <2>5, Bounds
    <3>. QED  BY <2>2, <2>3, <2>5, <2>4, <3>1 DEF AckStep
  <2>6. CASE p # q
    <3>1. acks'[p] = acks[p] /\ ackMap'[p] = ackMap[p]
      BY <1>1, <2>2, <2>6
    <3>. QED  BY <2>2, <2>3, <2>6, <2>4, <3>1 DEF AckStep, Same
  <2>. QED  BY <2>5, <2>6
<1>9. ASSUME NEW q \in Peers, Act(q) PROVE AckStep(p)
  <2>1. UNCHANGED <<ping, ackMap, acks, alive>> /\ lis.pc = "act" /\ lis.todo[q] # <<>>
    BY <1>9 DEF Act, env
  <2>2. CASE Done(q)
    <3>1. [lis.todo EXCEPT ![q] = Tail(@)] \in Msgs
      BY <1>1, <2>1, DoneType
    <3>. QED  BY <1>4, <2>1, <2>2, <3>1 DEF Done
  <2>3. CASE lis' = [lis EXCEPT !.pc = "signal", !.p = q]
    <3>1. lis'.pc = "signal"
      BY <1>1, <2>3 DEF LisRec
    <3>. QED  BY <1>2, <2>1, <3>1
  <2>. QED  BY <1>9, <2>2, <2>3 DEF Act
<1>10. ASSUME ActRemoved PROVE AckStep(p)
  <2>1. UNCHANGED <<ping, ackMap, acks, alive>> /\ lis.pc = "remove" /\ Done(lis.p) /\ lis.todo[lis.p] # <<>>
    BY <1>1, <1>10 DEF ActRemoved, ListenerInv, env
  <2>2. [lis.todo EXCEPT ![lis.p] = Tail(@)] \in Msgs
    BY <1>1, <2>1, DoneType
  <2>. QED  BY <1>4, <2>1, <2>2 DEF Done
<1>11. ASSUME SignalByListener PROVE AckStep(p)
  <2>1. UNCHANGED <<ping, ackMap, acks, alive>> /\ lis.pc = "signal" /\ lis' = [lis EXCEPT !.pc = "remove"]
    BY <1>11 DEF SignalByListener, HyReceive, env
  <2>2. lis'.pc = "remove"
    BY <1>1, <2>1 DEF LisRec
  <2>. QED  BY <1>2, <2>1, <2>2
<1>12. ASSUME NEW m \in Gossip, ReceiveMessage(m) PROVE FALSE
  <2>1. gossips' = gossips + 1
    BY <1>12 DEF ReceiveMessage
  <2>. QED  BY <1>1, <2>1
<1>13. ASSUME RoundEnd \/ Repairer \/ LeaderWakes \/ SwitchSuspicion PROVE AckStep(p)
  BY <1>2, <1>13 DEF RoundEnd, Repairer, Forward, BatchBegin, BatchEnd, BatchRanges, LeaderWakes,
         SwitchSuspicion, env
<1>14. ~Fault
  BY <1>1 DEF Fault
<1>15. ASSUME RoundBegin PROVE AckStep(p)
  <2>1. /\ HeldUp \/ (lis.pc = "read" /\ acks[p] = 0)
        /\ ping' = [c \in Pings |-> IF ping[c] = "wait" THEN "old" ELSE ping[c]]
        /\ UNCHANGED <<alive, acks, ackMap, lis>>
    BY <1>14, <1>15 DEF RoundBegin, Listening
  <2>2. NextRound(p)
    BY <2>1 DEF NextRound, Of, Pings
  <2>. QED  BY <1>15, <2>1, <2>2 DEF AckStep, Same, Handing
<1>16. ~PingFailure
  BY <1>14 DEF PingFailure, PingFails
<1>. QED  BY <1>3, <1>5, <1>6, <1>7, <1>8, <1>9, <1>10, <1>11, <1>12, <1>13, <1>15, <1>16, AckPinger DEF Next, Sender, Listener, Receive

\* Who does not answer never answers again.
LEMMA AnswersShrink ==
  ASSUME NEW p \in Peers, AckStep(p), Answers(p)'
  PROVE  Answers(p)
<1>1. CASE Has(p, {"acked"})'
  <2>1. PICK k \in Slots : Of(p)'[k] = "acked"
    BY <1>1 DEF Has
  <2>. QED  BY <2>1 DEF AckStep, Answers, Has, Moves, Rests, NextRound
<1>2. CASE ~Has(p, {"acked"})'
  BY <1>2 DEF AckStep, Answers, Same
<1>. QED  BY <1>1, <1>2

\* While the listener is not held up nothing is done against a peer that answers.
LEMMA UntouchedNext ==
  ASSUME NEW p \in Peers, PeerStep(p), AckStep(p), ~HeldUp, Untouched(p), OneWaits(p),
         acks[p] \in Nat, ListenerInv, lis.todo \in Msgs, p \notin signalled',
         RoundBegin => p \in alive
  PROVE  Untouched(p)'
<1>1. ~(lis.pc = "remove" /\ lis.p = p)
  BY UntouchedListens DEF Untouched
<1>2. Hears(p, {}) /\ Keeps(p)
  <2>1. ~Heard(p)
    BY <1>1 DEF Heard, Untouched
  <2>2. \A k \in Slots : PingMoves(p, k) => Hears(p, {}) /\ Keeps(p)
    BY DEF PingMoves, Moves, Untouched
  <2>. QED  BY <2>1, <2>2 DEF PeerStep
<1>3. list'[p] = "ACTIVE" /\ Talk(p)' = {}
  BY <1>2 DEF Hears, Keeps, Untouched
<1>. DEFINE g == Of(p)          g_ == Of(p)'
            m == ackMap[p]      m_ == ackMap'[p]
            Answer  == acks[p] > 0 \/ Handing(p)
            Answer_ == acks'[p] > 0 \/ Handing(p)'
<1>4. /\ \A k \in Slots : g[k] \in {"none", "wait", "acked"}
      /\ \A k \in Slots : g[k] = "wait" <=> m = k
      /\ p \in alive /\ m # 0 => Answer
  BY DEF Untouched
<1>5. 0 \notin Slots
  BY DEF Slots
<1>6. /\ \A k \in Slots : g_[k] \in {"none", "wait", "acked"}
      /\ \A k \in Slots : g_[k] = "wait" <=> m_ = k
      /\ p \in alive' /\ m_ # 0 => Answer_
  <2>1. CASE Rests(p) /\ Same(p) /\ alive' \subseteq alive
    <3>1. /\ \A k \in Slots : g_[k] = g[k]
          /\ m_ = m /\ (Answer_ <=> Answer)
      BY <2>1 DEF Rests, Same
    <3>. QED  BY <1>4, <2>1, <3>1
  <2>2. ASSUME NEW k \in Slots, Moves(p, k, "none", "wait"), m_ = k, alive' = alive,
               p \in alive => acks'[p] > 0, round.pc = "send", p \in round.todo
        PROVE  <1>6!1 /\ <1>6!2 /\ <1>6!3
    <3>1. \A j \in Slots : g[j] # "wait"
      BY <2>2 DEF OneWaits
    <3>. QED  BY <1>4, <2>2, <3>1 DEF Moves
  <2>3. CASE Rests(p) /\ alive' = alive /\ m_ = m /\ (Handing(p)' <=> m # 0)
    <3>1. \A k \in Slots : g_[k] = g[k]
      BY <2>3 DEF Rests
    <3>. QED  BY <1>4, <2>3, <3>1
  <2>4. CASE (Moves(p, m, "wait", "acked") \/ Moves(p, m, "old", "acked")) /\ m \in Slots /\ m_ = 0
    BY <1>4, <1>5, <2>4 DEF Moves
  <2>5. CASE RoundBegin /\ NextRound(p) /\ Same(p) /\ alive' = alive /\ ~Answer
    <3>1. \A k \in Slots : g[k] # "wait"
      BY <1>4, <1>5, <2>5
    <3>2. /\ \A k \in Slots : g_[k] = g[k]
          /\ m_ = m /\ (Answer_ <=> Answer)
      BY <2>5, <3>1 DEF NextRound, Same
    <3>. QED  BY <1>4, <2>5, <3>2
  <2>6. ASSUME NEW k \in Slots, Moves(p, k, "acked", "none"), Same(p), alive' = alive
        PROVE  <1>6!1 /\ <1>6!2 /\ <1>6!3
    <3>1. m_ = m /\ (Answer_ <=> Answer)
      BY <2>6 DEF Same
    <3>. QED  BY <1>4, <2>6, <3>1 DEF Moves
  <2>7. ASSUME NEW k \in Slots, g[k] \notin {"none", "wait", "acked"} PROVE FALSE
    BY <1>4, <2>7
  <2>8. ~Jammed /\ (acks[p] = 0 /\ ~Handing(p) => ~Answer)
    BY DEF HeldUp
  <2>9. \A k \in Slots : ~Moves(p, k, "old", "late")
    BY <2>7 DEF Moves
  <2>. HIDE DEF g, g_, m, m_, Answer, Answer_
  <2>. QED  BY <2>1, <2>2, <2>3, <2>4, <2>5, <2>6, <2>7, <2>8, <2>9 DEF AckStep, g, m, m_
<1>. QED  BY <1>3, <1>6 DEF Untouched

\* Steps that HyDFS has no part in, and the leader.
LEMMA FailingRests ==
  ASSUME NEW p \in Peers, Failing(p), SaidOf(p), PeerStep(p),
         UNCHANGED <<signalled, hy, leader>>,
         UNCHANGED lis \/ (lis.pc \notin {"signal", "remove"} /\ lis'.pc \notin {"signal", "remove"})
  PROVE  Failing(p)'
<1>1. list[p] = "absent" => list'[p] = "absent"
  BY DEF PeerStep, PingMoves, Heard, Keeps, SaidOf
<1>2. HyFree => HyFree'
  BY DEF HyFree
<1>3. lis.pc = "remove" /\ lis.p = p => lis'.pc = "remove" /\ lis'.p = p
  OBVIOUS
<1>4. lis'.pc = "signal" /\ lis'.p = p => lis.pc = "signal" /\ lis.p = p
  OBVIOUS
<1>5. lis'.pc # "remove" <=> lis.pc # "remove"
  OBVIOUS
<1>. DEFINE g == Of(p)   g_ == Of(p)'
            Told(x, k)    == x[k] \in {"remove", "told"}
            Telling(x, k) == x[k] \in {"signal", "tell"}
<1>6. ASSUME NEW k \in Slots
      PROVE  /\ Told(g, k) => list'[p] = "absent" \/ Told(g_, k)
             /\ g_[k] = "told" => g[k] = "told" \/ (g[k] = "tell" /\ p \in signalled)
             /\ Telling(g_, k) => Telling(g, k) \/ (g[k] \in {"late", "sleep"} /\ list[p] # "absent")
  <2>1. CASE Rests(p) \/ NextRound(p)
    BY <2>1 DEF Rests, NextRound
  <2>2. ASSUME NEW j \in Slots, PingMoves(p, j), j # k PROVE g_[k] = g[k]
    BY <2>2 DEF PingMoves, Moves
  <2>3. CASE PingMoves(p, k)
    BY <2>3 DEF PingMoves, Moves
  <2>. QED  BY <2>1, <2>2, <2>3 DEF PeerStep
<1>7. p \in signalled /\ list[p] # "absent" /\ lis.pc # "remove" => \E k \in Slots : Told(g, k)
  BY DEF Failing, Has
<1>8. ASSUME list[p] # "absent", NEW j \in Slots, NEW k \in Slots, Told(g, j), Telling(g, k) \/ g[k] \in {"late", "sleep"}
      PROVE  FALSE
  <2>1. g[j] \in Busy /\ g[k] \in Busy /\ g[j] # g[k]
    BY <1>8 DEF Busy
  <2>. QED  BY <1>8, <2>1 DEF SaidOf
<1>9. p \in signalled' =>
        list'[p] = "absent" \/ Has(p, {"remove", "told"})' \/ (lis'.pc = "remove" /\ lis'.p = p)
  BY <1>1, <1>3, <1>6 DEF Failing, Has
<1>10. Has(p, {"told"})' /\ lis'.pc # "remove" /\ list'[p] # "absent" => HyFree'
  <2>. SUFFICES ASSUME NEW k \in Slots, g_[k] = "told", lis'.pc # "remove", list'[p] # "absent"
                PROVE  HyFree'
    BY DEF Has
  <2>1. list[p] # "absent" /\ lis.pc # "remove"
    BY <1>1, <1>5
  <2>2. g[k] = "told"
    BY <1>6, <1>7, <1>8, <2>1
  <2>. QED  BY <1>2, <2>1, <2>2 DEF Failing, Has
<1>11. lis'.pc = "signal" /\ lis'.p = p =>
         HyFree' /\ (Has(p, {"signal", "tell"})' => p \notin signalled')
  <2>. SUFFICES ASSUME lis'.pc = "signal", lis'.p = p
                PROVE  HyFree' /\ \A k \in Slots : Telling(g_, k) => p \notin signalled
    BY DEF Has
  <2>1. lis.pc = "signal" /\ lis.p = p
    BY <1>4
  <2>2. HyFree /\ \A k \in Slots : Telling(g, k) => p \notin signalled
    BY <2>1 DEF Failing, Has
  <2>. QED  BY <1>2, <1>6, <1>7, <1>8, <2>1, <2>2
<1>. QED  BY <1>9, <1>10, <1>11 DEF Failing

\* The steps that HyDFS, the leader and the listener take about failures.
Uninvolved ==
  /\ UNCHANGED <<signalled, hy, leader>>
  /\ UNCHANGED lis \/ (lis.pc \notin {"signal", "remove"} /\ lis'.pc \notin {"signal", "remove"})

ActsOnFailure(q) ==
  /\ lis.pc = "act" /\ lis'.pc = "signal" /\ lis'.p = q /\ "FAILED" \in Talk(q) /\ list[q] # "absent"
  /\ UNCHANGED <<signalled, hy, leader, ping, list>>

LEMMA HyForm ==
  ASSUME Ind, Next
  PROVE  \/ Uninvolved
         \/ \E c \in Pings : SignalByPing(c)
         \/ SignalByListener \/ ActRemoved \/ Repairer \/ LeaderWakes
         \/ \E q \in Peers : ActsOnFailure(q)
<1>1. /\ lis \in LisRec /\ lis.todo \in Msgs /\ buf \in Msgs /\ list \in [Peers -> Statuses]
  BY IndParts DEF NodeInd, NodeType, LisRec
<1>2. ASSUME UNCHANGED <<signalled, hy, leader, lis>> PROVE Uninvolved
  BY <1>2 DEF Uninvolved
<1>3. ASSUME NEW b \in Msgs, UNCHANGED <<signalled, hy, leader>>, lis.pc \notin {"signal", "remove"},
             lis' = Acting(b)
      PROVE  Uninvolved
  BY <1>3, ActingRests DEF Uninvolved
<1>4. ASSUME ReceivePing \/ ReceiveSwitch PROVE Uninvolved
  <2>1. \E on : buf' \in Resolved(buf, on)
    BY <1>4 DEF ReceivePing, ReceiveSwitch
  <2>2. buf' \in Msgs
    BY <1>1, <2>1, ResolvedType
  <2>. QED  BY <1>3, <1>4, <2>2 DEF ReceivePing, ReceiveSwitch, Listening
<1>5. ASSUME NEW m \in Gossip, ReceiveMessage(m) PROVE Uninvolved
  <2>. DEFINE added == IF Needed(m[1], m[2]) THEN [buf EXCEPT ![m[2]] = Append(@, m[1])] ELSE buf
  <2>1. m[1] \in Types /\ m[2] \in Peers
    BY DetectorAssumption
  <2>2. added \in Msgs
    BY <1>1, <2>1, SayType
  <2>3. buf' \in Resolved(added, SuspicionModeEnabled)
    BY <1>5 DEF ReceiveMessage
  <2>. HIDE DEF added
  <2>4. buf' \in Msgs
    BY <2>2, <2>3, ResolvedType
  <2>. QED  BY <1>3, <1>5, <2>4 DEF ReceiveMessage, Listening
<1>6. ASSUME NEW q \in Peers, ReceiveAck(q) PROVE Uninvolved
  <2>1. buf' \in Msgs
    BY <1>1, <1>6, ResolvedType DEF ReceiveAck
  <2>2. /\ lis.pc = "read" /\ UNCHANGED <<signalled, hy, leader>>
        /\ lis' = Acting(buf') \/ lis' = [Reading EXCEPT !.pc = "ack", !.p = q]
    BY <1>6 DEF ReceiveAck, Listening
  <2>3. [Reading EXCEPT !.pc = "ack", !.p = q].pc = "ack"
    BY DEF Reading
  <2>. QED  BY <1>3, <2>1, <2>2, <2>3 DEF Uninvolved
<1>7. ASSUME HandOver PROVE Uninvolved
  BY <1>1, <1>3, <1>7 DEF HandOver
<1>8. ASSUME NEW q \in Peers, Act(q) PROVE Uninvolved \/ ActsOnFailure(q)
  <2>1. lis.pc = "act" /\ lis.todo[q] # <<>> /\ UNCHANGED <<signalled, hy, leader, ping>>
    BY <1>8 DEF Act
  <2>2. CASE Done(q)
    <3>1. [lis.todo EXCEPT ![q] = Tail(@)] \in Msgs
      BY <1>1, <2>1, DoneType
    <3>. QED  BY <1>3, <2>1, <2>2, <3>1 DEF Done
  <2>3. CASE ~Done(q)
    <3>1. /\ Head(lis.todo[q]) = "FAILED" /\ q \in Members /\ UNCHANGED list
          /\ lis' = [lis EXCEPT !.pc = "signal", !.p = q]
      BY <1>8, <2>3 DEF Act
    <3>2. lis'.pc = "signal" /\ lis'.p = q
      BY <1>1, <3>1 DEF LisRec
    <3>3. Head(lis.todo[q]) \in TypesIn(lis.todo, q)
      BY <1>1, <2>1, TalkDone
    <3>4. "FAILED" \in Talk(q)
      BY <3>1, <3>3 DEF Talk
    <3>. QED  BY <2>1, <3>1, <3>2, <3>4 DEF ActsOnFailure, Members
  <2>. QED  BY <2>2, <2>3
<1>9. ASSUME NEW c \in Pings, Pinger(c) PROVE Uninvolved \/ SignalByPing(c)
  BY <1>2, <1>9 DEF Pinger, Late, MarkAlive, MarkFailed, MarkFailedEnd, Suspect, SuspicionEnd, SuspectRemoved
<1>10. ASSUME Sender \/ PingFailure \/ SwitchSuspicion \/ (\E p \in Peers : Crash(p) \/ AckLost(p)) PROVE Uninvolved
  BY <1>2, <1>10 DEF Sender, PingFailure, PingFails, RoundBegin, RoundEnd, SendPing, SkipPing,
         SwitchSuspicion, Crash, AckLost
<1>. QED  BY <1>4, <1>5, <1>6, <1>7, <1>8, <1>9, <1>10 DEF Next, Listener, Receive

\* HyDFS and the leader wait for the first failure.
LEMMA HyFirst ==
  ASSUME First, ChainType,
         \/ Uninvolved \/ (\E c \in Pings : SignalByPing(c)) \/ SignalByListener \/ ActRemoved
         \/ Repairer \/ LeaderWakes \/ \E q \in Peers : ActsOnFailure(q)
  PROVE  First'
<1>1. ASSUME UNCHANGED <<signalled, hy, leader>> PROVE First'
  BY <1>1 DEF First
<1>2. ASSUME NEW p, HyReceive(p) PROVE First'
  BY <1>2 DEF HyReceive, First
<1>3. ASSUME Repairer \/ LeaderWakes PROVE First'
  <2>1. Forward => First'
    BY DEF Forward, First
  <2>2. LeaderWakes => First'
    BY DEF LeaderWakes, First
  <2>3. BatchBegin => First'
    BY DEF BatchBegin, First
  <2>4. BatchEnd => First'
    BY DEF BatchEnd, First
  <2>5. ASSUME NEW p \in Peers, BatchRanges(p) PROVE First'
    BY <2>5 DEF BatchRanges, First
  <2>. QED  BY <1>3, <2>1, <2>2, <2>3, <2>4, <2>5 DEF Repairer
<1>. QED  BY <1>1, <1>2, <1>3 DEF Uninvolved, SignalByPing, SignalByListener, ActRemoved, ActsOnFailure

Inside == mlm => \E c \in Pings : InMarkNodeFailed(c)

\* The invariant of a node that is calm: only the peer that does not answer is handled.
CalmInv ==
  /\ First /\ Inside
  /\ \A p \in Peers : (Answers(p) => Untouched(p)) /\ SaidOf(p) /\ Failing(p)

PromptInv ==
  /\ OneFailed /\ \A p \in Peers : OneWaits(p)
  /\ Calm => CalmInv

\* With one peer that does not answer, the listener is never held up.
LEMMA NeverHeldUp ==
  ASSUME Ind, CalmInv
  PROVE  ~HeldUp
<1>1. lis.p \in Peers /\ ackMap[lis.p] \in 0 .. MaxPings /\ ListenerInv
  BY IndParts DEF NodeInd, NodeType, LisRec
<1>2. ~Jammed
  <2>. SUFFICES ASSUME lis.pc = "ack" PROVE ping[<<lis.p, ackMap[lis.p]>>] = "wait"
    BY DEF Jammed, Awaiting
  <2>1. Answers(lis.p) /\ ackMap[lis.p] # 0
    BY <1>1 DEF Answers, Handing, ListenerInv
  <2>2. ackMap[lis.p] \in Slots
    BY <1>1, <2>1, Bounds DEF Slots
  <2>3. Of(lis.p)[ackMap[lis.p]] = "wait"
    BY <1>1, <2>1, <2>2 DEF CalmInv, Untouched
  <2>. QED  BY <2>2, <2>3 DEF Of
<1>3. lis.pc = "signal" => HyFree
  BY <1>1 DEF CalmInv, Failing
<1>. QED  BY <1>2, <1>3 DEF HeldUp, HyFree

\* The same of any state of the listener.
LEMMA NotAtFailure ==
  ASSUME NEW p \in Peers, NEW l \in LisRec, l.pc \in {"signal", "remove"} => l.todo[l.p] # <<>>,
         TypesIn(l.todo, p) = {}
  PROVE  ~(l.pc \in {"signal", "remove"} /\ l.p = p)
<1>1. l.todo \in Msgs
  BY DEF LisRec
<1>2. ASSUME l.todo[p] # <<>> PROVE FALSE
  <2>1. Head(l.todo[p]) \in TypesIn(l.todo, p)
    BY <1>1, <1>2, TalkDone
  <2>. QED  BY <2>1
<1>. QED  BY <1>2

\* The step of HyDFS, of the leader, and of the listener at a failure.
LEMMA FailingInvolved ==
  ASSUME Ind, ChainType, NEW p \in Peers, Failing(p), SaidOf(p), First,
         p \notin signalled => signalled = {},
         lis.pc \in {"signal", "remove"} => lis.p = p,
         \/ \E c \in Pings : c[1] = p /\ SignalByPing(c)
         \/ SignalByListener \/ ActRemoved \/ Repairer \/ LeaderWakes \/ ActsOnFailure(p)
  PROVE  Failing(p)'
<1>1. /\ ping \in [Pings -> PingStates] /\ list \in [Peers -> Statuses] /\ lis \in LisRec
      /\ lis.todo \in Msgs
  BY IndParts DEF NodeInd, NodeType, LisRec
<1>2. ASSUME p \in signalled, list[p] # "absent", lis.pc # "remove", NEW k \in Slots,
             Of(p)[k] \in {"signal", "tell"}
      PROVE  FALSE
  <2>1. PICK j \in Slots : Of(p)[j] \in {"remove", "told"}
    BY <1>2 DEF Failing, Has
  <2>2. Of(p)[j] \in Busy /\ Of(p)[k] \in Busy /\ j # k
    BY <1>2, <2>1 DEF Busy
  <2>. QED  BY <1>2, <2>2 DEF SaidOf
<1>3. ASSUME NEW c \in Pings, c[1] = p, SignalByPing(c) PROVE Failing(p)'
  <2>. DEFINE st == IF ping[c] = "signal" THEN "remove" ELSE "told"
              k  == c[2]
  <2>1. /\ hy.pc = "wait" /\ hy'.pc \in {"wait", "forward"} /\ UNCHANGED <<leader, list, lis>>
        /\ ping[c] \in {"signal", "tell"} /\ Becomes(c, st)
    BY <1>1, <1>3 DEF SignalByPing, HyReceive, ChainType
  <2>2. signalled = {} => HyFree'
    BY <2>1 DEF First, HyFree
  <2>3. k \in Slots /\ Moves(p, k, ping[c], st)
    BY <1>1, <1>3, <2>1, PingMove
  <2>4. Of(p)[k] \in {"signal", "tell"} /\ Of(p)'[k] \in {"remove", "told"}
    BY <2>1, <2>3 DEF Moves
  <2>5. Has(p, {"remove", "told"})' /\ Has(p, {"signal", "tell"})
    BY <2>3, <2>4 DEF Has
  <2>6. list'[p] # "absent" /\ lis'.pc # "remove" => HyFree'
    BY <1>2, <2>1, <2>2, <2>3, <2>4
  <2>7. ~Has(p, {"signal", "tell"})'
    <3>. SUFFICES ASSUME NEW j \in Slots, Of(p)'[j] \in {"signal", "tell"} PROVE FALSE
      BY DEF Has
    <3>1. j # k
      BY <2>4
    <3>2. Of(p)[j] \in {"signal", "tell"}
      BY <2>3, <3>1 DEF Moves
    <3>. QED  BY <2>3, <2>4, <3>1, <3>2 DEF SaidOf
  <2>8. lis'.pc = "signal" /\ lis'.p = p => HyFree'
    BY <2>1, <2>2, <2>5 DEF Failing
  <2>. HIDE DEF k, st
  <2>. QED  BY <2>5, <2>6, <2>7, <2>8 DEF Failing
<1>4. ASSUME SignalByListener PROVE Failing(p)'
  <2>1. lis.p = p /\ lis' = [lis EXCEPT !.pc = "remove"]
    BY <1>4 DEF SignalByListener
  <2>2. lis'.pc = "remove" /\ lis'.p = p
    BY <1>1, <2>1 DEF LisRec
  <2>. QED  BY <2>2 DEF Failing
<1>5. ASSUME ActRemoved PROVE Failing(p)'
  <2>1. lis.p = p /\ list' = [list EXCEPT ![p] = "absent"] /\ lis.todo[p] # <<>> /\ Done(p)
    BY <1>5, IndParts DEF ActRemoved, NodeInd, ListenerInv
  <2>2. [lis.todo EXCEPT ![p] = Tail(@)] \in Msgs
    BY <1>1, <2>1, DoneType
  <2>3. lis'.pc # "signal"
    BY <2>1, <2>2, ActingRests DEF Done
  <2>4. list'[p] = "absent"
    BY <1>1, <2>1
  <2>. QED  BY <2>3, <2>4 DEF Failing
<1>6. ASSUME Repairer \/ LeaderWakes PROVE Failing(p)'
  <2>1. UNCHANGED <<list, ping, lis, signalled>>
    BY <1>6 DEF Repairer, Forward, BatchBegin, BatchEnd, BatchRanges, LeaderWakes
  <2>2. \A states : Has(p, states)' <=> Has(p, states)
    BY <2>1 DEF Has, Of
  <2>3. CASE HyFree => HyFree'
    BY <2>1, <2>3, <2>2 DEF Failing
  <2>4. CASE ~(HyFree => HyFree')
    <3>1. BatchBegin
      <4>1. ASSUME Forward \/ BatchEnd PROVE HyFree'
        BY <1>1, <4>1 DEF Forward, BatchEnd, HyFree, ChainType
      <4>2. ASSUME LeaderWakes, HyFree PROVE HyFree'
        BY <4>2 DEF LeaderWakes, HyFree, ChainType
      <4>3. ASSUME NEW q \in Peers, BatchRanges(q) PROVE ~HyFree
        BY <4>3 DEF BatchRanges, HyFree
      <4>. QED  BY <1>6, <2>4, <4>1, <4>2, <4>3 DEF Repairer
    <3>2. lis.pc # "signal" /\ \A c \in Pings : ping[c] # "told"
      BY <3>1 DEF BatchBegin
    <3>3. ~Has(p, {"told"})
      BY <3>2 DEF Has, Of, Pings
    <3>. QED  BY <2>1, <2>2, <3>2, <3>3 DEF Failing
  <2>. QED  BY <2>3, <2>4
<1>7. ASSUME ActsOnFailure(p) PROVE Failing(p)'
  <2>1. /\ list[p] # "absent" /\ lis.pc = "act" /\ lis'.pc = "signal" /\ UNCHANGED <<ping, signalled>>
        /\ HyFree' <=> HyFree
    BY <1>7 DEF ActsOnFailure, HyFree
  <2>2. PICK k \in Slots : Of(p)[k] \in {"tell", "told"}
    BY <1>7 DEF ActsOnFailure, SaidOf, Has
  <2>3. \A j \in Slots : Of(p)[j] \in {"signal", "tell"} => p \notin signalled
    BY <1>2, <2>1
  <2>4. Has(p, {"signal", "tell"})' => p \notin signalled'
    BY <2>1, <2>3 DEF Has, Of
  <2>5. HyFree
    <3>1. CASE Of(p)[k] = "tell"
      BY <2>3, <3>1 DEF First, HyFree
    <3>2. CASE Of(p)[k] = "told"
      BY <2>1, <3>2 DEF Failing, Has
    <3>. QED  BY <2>2, <3>1, <3>2
  <2>6. p \in signalled' =>
          list'[p] = "absent" \/ Has(p, {"remove", "told"})' \/ (lis'.pc = "remove" /\ lis'.p = p)
    BY <1>7, <2>1 DEF ActsOnFailure, Failing, Has, Of
  <2>. QED  BY <2>1, <2>4, <2>5, <2>6 DEF Failing
<1>. QED  BY <1>3, <1>4, <1>5, <1>6, <1>7

-----------------------------------------------------------------------------
(* The whole step. *)

\* No step but that of the sender lets a ping wait.
LEMMA WaitForm ==
  ASSUME Ind, Next, ~RoundBegin, ~(\E p \in Peers, k \in Slots : SendPing(p, k))
  PROVE  /\ \A c \in Pings : ping'[c] = "wait" => ping[c] = "wait"
         /\ round'.pc = "send" => round.pc = "send" /\ round'.todo \subseteq round.todo
<1>1. ping \in [Pings -> PingStates] /\ round \in [pc : {"tick", "send"}, todo : SUBSET Peers]
  BY IndParts DEF NodeInd, NodeType, ChainType
<1>. DEFINE Goal == /\ \A c \in Pings : ping'[c] = "wait" => ping[c] = "wait"
                    /\ round'.pc = "send" => round.pc = "send" /\ round'.todo \subseteq round.todo
<1>2. ASSUME UNCHANGED ping, UNCHANGED round \/ round'.pc = "tick" PROVE Goal
  BY <1>2
<1>3. ASSUME NEW c \in Pings, NEW st, st # "wait", Becomes(c, st), UNCHANGED round PROVE Goal
  BY <1>1, <1>3 DEF Becomes
<1>4. ASSUME NEW p \in Peers, UNCHANGED ping, round' = [round EXCEPT !.todo = @ \ {p}] PROVE Goal
  BY <1>1, <1>4
<1>. HIDE DEF Goal
<1>5. ASSUME NEW c \in Pings, Pinger(c) PROVE Goal
  <2>1. UNCHANGED round
    BY <1>5 DEF Pinger, Late, MarkAlive, MarkFailed, MarkFailedEnd, Suspect, SuspicionEnd, SuspectRemoved,
           SignalByPing, HyReceive
  <2>2. PICK st : st # "wait" /\ Becomes(c, st)
    BY <1>5 DEF Pinger, Late, MarkAlive, MarkFailed, MarkFailedEnd, Suspect, SuspicionEnd, SuspectRemoved,
           SignalByPing, NoPing
  <2>. QED  BY <1>3, <2>1, <2>2
<1>6. ASSUME HandOver PROVE Goal
  <2>. DEFINE c == <<lis.p, ackMap[lis.p]>>
  <2>1. Becomes(c, "acked") /\ UNCHANGED round
    BY <1>6 DEF HandOver
  <2>. HIDE DEF c
  <2>. QED  BY <1>1, <2>1 DEF Becomes, Goal
<1>7. ASSUME NEW p \in Peers, SkipPing(p) \/ \E k \in Slots : PingFails(p, k) PROVE Goal
  BY <1>4, <1>7 DEF SkipPing, PingFails
<1>8. ASSUME RoundEnd PROVE Goal
  BY <1>1, <1>2, <1>8 DEF RoundEnd
<1>9. ASSUME \/ \E p \in Peers : Crash(p) \/ AckLost(p) \/ ReceiveAck(p) \/ Act(p)
             \/ \E m \in Gossip : ReceiveMessage(m)
             \/ ActRemoved \/ SignalByListener \/ ReceivePing \/ Repairer \/ LeaderWakes
             \/ SwitchSuspicion \/ ReceiveSwitch
      PROVE  Goal
  BY <1>2, <1>9 DEF Crash, AckLost, ReceiveAck, Act, ReceiveMessage, ActRemoved, SignalByListener, HyReceive,
         ReceivePing, Repairer, Forward, BatchBegin, BatchEnd, BatchRanges, LeaderWakes, SwitchSuspicion,
         ReceiveSwitch
<1>10. Goal
  BY <1>5, <1>6, <1>7, <1>8, <1>9 DEF Next, Sender, PingFailure, Listener, Receive
<1>. QED  BY <1>10 DEF Goal

LEMMA OneWaitsNext ==
  ASSUME Ind, Next, NEW q \in Peers, OneWaits(q)
  PROVE  OneWaits(q)'
<1>1. /\ ping \in [Pings -> PingStates] /\ round \in [pc : {"tick", "send"}, todo : SUBSET Peers]
      /\ \A k \in Slots : <<q, k>> \in Pings
  BY IndParts DEF NodeInd, NodeType, ChainType, Pings
<1>2. CASE RoundBegin
  <2>1. ping' = [c \in Pings |-> IF ping[c] = "wait" THEN "old" ELSE ping[c]]
    BY <1>2 DEF RoundBegin
  <2>2. \A k \in Slots : Of(q)'[k] # "wait"
    BY <1>1, <2>1 DEF Of
  <2>. QED  BY <2>2 DEF OneWaits
<1>3. ASSUME NEW p \in Peers, NEW k \in Slots, SendPing(p, k) PROVE OneWaits(q)'
  <2>. DEFINE c == <<p, k>>
  <2>1. c \in Pings /\ c[1] = p /\ c[2] = k
    BY DEF Pings
  <2>2. /\ ping[c] = "none" /\ Becomes(c, "wait") /\ round.pc = "send" /\ p \in round.todo
        /\ round' = [round EXCEPT !.todo = @ \ {p}]
    BY <1>3 DEF SendPing, PingTurn, NextPing, NoPing, Becomes
  <2>. HIDE DEF c
  <2>3. Moves(p, k, "none", "wait") /\ (q # p => Rests(q))
    BY <1>1, <2>1, <2>2, PingMove
  <2>4. round'.pc = "send" /\ round'.todo = round.todo \ {p}
    BY <1>1, <2>2
  <2>5. CASE q = p
    <3>1. \A j \in Slots : Of(q)[j] # "wait"
      BY <2>2, <2>5 DEF OneWaits
    <3>2. \A j \in Slots : Of(q)'[j] = "wait" => j = k
      BY <2>3, <2>5, <3>1 DEF Moves
    <3>3. ~(round'.pc = "send" /\ q \in round'.todo)
      BY <2>4, <2>5
    <3>4. \A i, j \in Slots : Of(q)'[i] = "wait" /\ Of(q)'[j] = "wait" => i = j
      BY <3>2
    <3>. QED  BY <3>3, <3>4 DEF OneWaits
  <2>6. CASE q # p
    BY <2>2, <2>3, <2>4, <2>6 DEF OneWaits, Rests
  <2>. QED  BY <2>5, <2>6
<1>4. CASE ~RoundBegin /\ ~(\E p \in Peers, k \in Slots : SendPing(p, k))
  <2>1. /\ \A k \in Slots : Of(q)'[k] = "wait" => Of(q)[k] = "wait"
        /\ round'.pc = "send" => round.pc = "send" /\ round'.todo \subseteq round.todo
    BY <1>1, <1>4, WaitForm DEF Of
  <2>. QED  BY <2>1 DEF OneWaits
<1>. QED  BY <1>2, <1>3, <1>4

\* When a round begins the listener is done, and 6 s were enough for what was done about the
\* peer that does not answer.
LEMMA RoundClean ==
  ASSUME Ind, CalmInv, RoundBegin, faults' = faults, faults \in Nat,
         \A p, q \in Peers \ alive : p = q
  PROVE  \A p \in Peers : /\ Answers(p) => p \in alive
                          /\ list[p] = "absent" \/ ~Has(p, Busy)
<1>1. ~HeldUp
  BY NeverHeldUp
<1>2. lis.pc = "read" /\ (\A p \in Peers : acks[p] = 0) /\ Settled
  BY <1>1 DEF RoundBegin, Fault, Listening
<1>3. mlm => \E q \in Peers, k \in Slots : Of(q)[k] \in {"signal", "remove"}
  <2>. SUFFICES ASSUME mlm PROVE \E q \in Peers, k \in Slots : Of(q)[k] \in {"signal", "remove"}
    OBVIOUS
  <2>1. PICK c \in Pings : ping[c] \in {"signal", "remove"}
    BY DEF CalmInv, Inside, InMarkNodeFailed
  <2>2. PICK q \in Peers, k \in Slots : c = <<q, k>>
    BY DEF Pings
  <2>3. Of(q)[k] = ping[c]
    BY <2>2 DEF Of
  <2>. QED  BY <2>1, <2>3
<1>4. ASSUME NEW q \in Peers, NEW k \in Slots, Of(q)[k] \in Busy PROVE ~Answers(q)
  <2>1. Of(q)[k] \notin {"none", "wait", "acked"}
    BY <1>4 DEF Busy
  <2>. QED  BY <2>1 DEF CalmInv, Untouched
<1>5. ASSUME NEW p \in Peers, NEW k \in Slots
      PROVE  /\ Of(p)[k] \notin {"old", "remove", "told"}
             /\ Of(p)[k] \in {"signal", "tell"} => hy.pc # "wait"
             /\ Of(p)[k] = "acked" => mlm
             /\ Of(p)[k] \in {"late", "sleep"} => mlm \/ signalled # {}
  <2>1. <<p, k>> \in Pings /\ Of(p)[k] = ping[<<p, k>>]
    BY DEF Of, Pings
  <2>. QED  BY <1>2, <2>1 DEF Settled
<1>6. ASSUME NEW p \in Peers, Answers(p) PROVE p \in alive
  <2>. SUFFICES ASSUME p \notin alive PROVE FALSE
    OBVIOUS
  <2>1. PICK k \in Slots : Of(p)[k] = "acked"
    BY <1>2, <1>6 DEF Answers, Handing, Has
  <2>2. mlm
    BY <1>5, <2>1
  <2>3. PICK q \in Peers, j \in Slots : Of(q)[j] \in {"signal", "remove"}
    BY <1>3, <2>2
  <2>4. ~Answers(q)
    BY <1>4, <2>3 DEF Busy
  <2>5. q \notin alive
    BY <2>4 DEF Answers
  <2>. QED  BY <1>6, <2>4, <2>5
<1>7. ASSUME NEW p \in Peers, list[p] # "absent", Has(p, Busy) PROVE FALSE
  <2>1. PICK k \in Slots : Of(p)[k] \in Busy
    BY <1>7 DEF Has
  <2>2. \A q \in Peers : q # p => Untouched(q)
    BY <1>4, <2>1 DEF CalmInv, Answers
  <2>3. p \notin signalled
    <3>1. ~Has(p, {"remove", "told"})
      BY <1>5 DEF Has
    <3>. QED  BY <1>2, <1>7, <3>1 DEF CalmInv, Failing
  <2>4. signalled = {}
    <3>1. signalled \subseteq Peers
      BY IndParts DEF NodeInd, NodeType
    <3>. QED  BY <2>2, <2>3, <3>1 DEF Untouched
  <2>5. hy.pc = "wait"
    BY <2>4 DEF CalmInv, First
  <2>6. Of(p)[k] \in {"late", "sleep"} /\ mlm
    BY <1>5, <2>1, <2>4, <2>5 DEF Busy
  <2>7. PICK q \in Peers, j \in Slots : Of(q)[j] \in {"signal", "remove"}
    BY <1>3, <2>6
  <2>8. q = p
    BY <2>2, <2>7 DEF Untouched
  <2>9. Of(p)[j] \in Busy /\ j # k
    BY <2>6, <2>7, <2>8 DEF Busy
  <2>. QED  BY <1>7, <2>1, <2>9 DEF CalmInv, SaidOf
<1>. QED  BY <1>6, <1>7

LEMMA PromptStep == Ind /\ Ind' /\ PromptInv /\ Next => PromptInv'
<1>. SUFFICES ASSUME Ind, Ind', PromptInv, Next
              PROVE  PromptInv'
  OBVIOUS
<1>1. EnvType /\ ChainType /\ ListenerInv /\ ListenerInv' /\ lis \in LisRec /\ lis' \in LisRec
      /\ acks \in [Peers -> Nat] /\ lis.p \in Peers /\ lis.todo \in Msgs
  BY IndParts DEF Ind, TypeOK, NodeInd, NodeType, EnvType, LisRec
<1>2. OneFailed' /\ \A p \in Peers : OneWaits(p)'
  BY <1>1, OneFailedNext, OneWaitsNext DEF PromptInv
<1>. SUFFICES ASSUME Calm'
              PROVE  CalmInv'
  BY <1>2 DEF PromptInv
<1>3. faults' = 0 /\ gossips' = 0 /\ crashes' <= 1
  BY DEF Calm, Undisturbed
<1>4. faults = 0 /\ gossips = 0
  BY <1>1, <1>3, BudgetsGrow
<1>5. crashes \in Nat /\ (UNCHANGED crashes \/ crashes' = crashes + 1)
  BY <1>1, BudgetsGrow, Bounds DEF Crash, EnvType
<1>6. crashes <= 1
  BY <1>3, <1>5
<1>7. CalmInv /\ \A p, q \in Peers \ alive : p = q
  <2>1. Calm
    BY <1>4, <1>6 DEF Calm, Undisturbed
  <2>. QED  BY <1>6, <2>1 DEF PromptInv, OneFailed
<1>8. /\ First /\ \A p \in Peers : (Answers(p) => Untouched(p)) /\ SaidOf(p) /\ Failing(p) /\ OneWaits(p)
      /\ \A p, q \in Peers : p # q => Answers(p) \/ Answers(q)
  BY <1>7 DEF CalmInv, PromptInv, Answers
<1>9. ~HeldUp
  BY <1>7, NeverHeldUp
<1>10. \A p \in Peers : RoundBegin => /\ Answers(p) => p \in alive
                                     /\ (list[p] = "absent" \/ ~Has(p, Busy))
  BY <1>1, <1>3, <1>4, <1>7, RoundClean, Bounds DEF EnvType
<1>11. \A p \in Peers : PeerStep(p) /\ AckStep(p)
  BY <1>3, PeerNext, AckNext
<1>12. ASSUME NEW p \in Peers PROVE SaidOf(p)'
  <2>1. Has(p, {"acked"}) => list[p] # "SUSPECTED"
    BY <1>8 DEF Answers, Untouched
  <2>. QED  BY <1>8, <1>9, <1>11, <1>10, <2>1, SaidNext DEF HeldUp
<1>13. ASSUME NEW c \in Pings PROVE ~(ping[c] = "late" /\ list[c[1]] = "SUSPECTED")
  <2>. SUFFICES ASSUME ping[c] = "late", list[c[1]] = "SUSPECTED" PROVE FALSE
    OBVIOUS
  <2>1. PICK p \in Peers, k \in Slots : c = <<p, k>>
    BY DEF Pings
  <2>2. Of(p)[k] = "late" /\ list[p] = "SUSPECTED"
    BY <2>1 DEF Of
  <2>3. PICK j \in Slots : Of(p)[j] \in Suspicion
    BY <1>8, <2>2 DEF SaidOf, Has
  <2>4. Of(p)[j] \in Busy /\ Of(p)[k] \in Busy /\ j # k
    BY <2>2, <2>3 DEF Busy, Suspicion
  <2>. QED  BY <1>8, <2>2, <2>4 DEF SaidOf
<1>14. Inside'
  BY <1>7, <1>13, MutexForm DEF CalmInv, Inside
<1>15. \/ Uninvolved \/ (\E c \in Pings : SignalByPing(c)) \/ SignalByListener \/ ActRemoved
       \/ Repairer \/ LeaderWakes \/ \E q \in Peers : ActsOnFailure(q)
  BY HyForm
<1>16. First'
  BY <1>1, <1>8, <1>15, HyFirst
<1>17. ASSUME NEW c \in Pings, SignalByPing(c)
       PROVE  c[1] \in Peers /\ ~Answers(c[1]) /\ signalled' = signalled \cup {c[1]}
  <2>1. PICK p \in Peers, k \in Slots : c = <<p, k>>
    BY DEF Pings
  <2>2. ping[c] \in {"signal", "tell"} /\ signalled' = signalled \cup {c[1]}
    BY <1>17 DEF SignalByPing, HyReceive
  <2>3. Of(p)[k] \in {"signal", "tell"}
    BY <2>1, <2>2 DEF Of
  <2>. QED  BY <1>8, <2>1, <2>2, <2>3 DEF Untouched
<1>18. lis.pc \in {"signal", "remove"} => ~Answers(lis.p)
  BY <1>1, <1>8, UntouchedListens DEF Untouched
<1>19. ASSUME NEW p \in Peers, Answers(p) PROVE p \notin signalled'
  <2>1. p \notin signalled
    BY <1>8, <1>19 DEF Untouched
  <2>2. SignalByListener => signalled' = signalled \cup {lis.p} /\ lis.pc = "signal"
    BY DEF SignalByListener, HyReceive
  <2>3. ActRemoved \/ Repairer \/ LeaderWakes => UNCHANGED signalled
    BY DEF ActRemoved, Repairer, Forward, BatchBegin, BatchEnd, BatchRanges, LeaderWakes
  <2>4. ASSUME NEW c \in Pings, SignalByPing(c) PROVE p \notin signalled'
    BY <1>17, <1>19, <2>1, <2>4
  <2>5. SignalByListener => p \notin signalled'
    BY <1>18, <1>19, <2>1, <2>2
  <2>6. CASE UNCHANGED signalled
    BY <2>1, <2>6
  <2>. QED  BY <1>15, <2>3, <2>4, <2>5, <2>6 DEF Uninvolved, ActsOnFailure
<1>20. ASSUME NEW p \in Peers, Answers(p) PROVE Untouched(p)'
  BY <1>1, <1>8, <1>9, <1>11, <1>19, <1>20, <1>10, UntouchedNext
<1>21. ASSUME NEW p \in Peers, Answers(p) PROVE Failing(p)'
  <2>1. Untouched(p)'
    BY <1>20, <1>21
  <2>2. TypesIn(lis'.todo, p) = {}
    BY <2>1 DEF Untouched, Talk, TypesIn
  <2>3. ~(lis'.pc \in {"signal", "remove"} /\ lis'.p = p)
    BY <1>1, <2>2, NotAtFailure DEF ListenerInv
  <2>. QED  BY <2>1, <2>3 DEF Untouched, Failing, Has
<1>22. ASSUME NEW p \in Peers, ~Answers(p) PROVE Failing(p)'
  <2>1. \A q \in Peers : q # p => Answers(q)
    BY <1>8, <1>22
  <2>2. p \notin signalled => signalled = {}
    <3>1. \A q \in Peers : q # p => q \notin signalled
      BY <1>8, <2>1 DEF Untouched
    <3>2. signalled \subseteq Peers
      BY IndParts DEF NodeInd, NodeType
    <3>. QED  BY <3>1, <3>2
  <2>3. lis.pc \in {"signal", "remove"} => lis.p = p
    BY <1>1, <1>18, <2>1
  <2>4. \A c \in Pings : SignalByPing(c) => c[1] = p
    BY <1>17, <2>1
  <2>5. \A q \in Peers : ActsOnFailure(q) => q = p
    BY <1>8, <2>1 DEF ActsOnFailure, Untouched
  <2>6. CASE Uninvolved
    BY <1>8, <1>11, <2>6, FailingRests DEF Uninvolved
  <2>7. CASE ~Uninvolved
    <3>1. \/ \E c \in Pings : c[1] = p /\ SignalByPing(c)
          \/ SignalByListener \/ ActRemoved \/ Repairer \/ LeaderWakes \/ ActsOnFailure(p)
      BY <1>15, <2>4, <2>5, <2>7
    <3>. QED  BY <1>1, <1>8, <1>11, <2>2, <2>3, <3>1, FailingInvolved
  <2>. QED  BY <2>6, <2>7
<1>23. ASSUME NEW p \in Peers, Answers(p)' PROVE Untouched(p)'
  BY <1>11, <1>20, <1>23, AnswersShrink
<1>. QED  BY <1>16, <1>21, <1>22, <1>23, <1>12, <1>14 DEF CalmInv

LEMMA PromptInit == Init => PromptInv
<1>. SUFFICES ASSUME Init PROVE PromptInv
  OBVIOUS
<1>1. ASSUME NEW p \in Peers PROVE Untouched(p) /\ SaidOf(p) /\ Failing(p) /\ OneWaits(p)
  <2>1. \A k \in Slots : Of(p)[k] = "none"
    BY DEF Init, NoPing, Of, Pings
  <2>2. list[p] = "ACTIVE" /\ ackMap[p] = 0 /\ signalled = {} /\ 0 \notin Slots
    BY DEF Init, Slots
  <2>3. Talk(p) = {} /\ lis.pc = "read"
    BY TalkNone DEF Talk, Init, Reading
  <2>. QED  BY <2>1, <2>2, <2>3 DEF Untouched, SaidOf, Failing, OneWaits, Has, Busy, Suspicion
<1>2. First /\ OneFailed /\ Inside
  BY DEF Init, First, OneFailed, Inside
<1>. QED  BY <1>1, <1>2 DEF PromptInv, CalmInv

LEMMA PromptStutter == UNCHANGED vars /\ PromptInv => PromptInv'
<1>. SUFFICES ASSUME UNCHANGED vars, PromptInv PROVE PromptInv'
  OBVIOUS
<1>1. UNCHANGED <<alive, acks, crashes, faults, gossips, list, mlm, buf, round, ackMap, ping, lis, hy, leader, signalled>>
  BY DEF vars, env
<1>2. OneFailed' /\ (First => First') /\ (Inside => Inside') /\ (Calm' => Calm)
  BY <1>1 DEF PromptInv, OneFailed, First, Inside, InMarkNodeFailed, Calm, Undisturbed
<1>3. ASSUME NEW p \in Peers
      PROVE  /\ (Answers(p)' => Answers(p)) /\ (Untouched(p) => Untouched(p)')
             /\ (SaidOf(p) => SaidOf(p)') /\ (Failing(p) => Failing(p)') /\ (OneWaits(p) => OneWaits(p)')
  <2>1. Of(p)' = Of(p) /\ Talk(p)' = Talk(p) /\ (HyFree' <=> HyFree) /\ (Handing(p)' <=> Handing(p))
    BY <1>1 DEF Of, Talk, TypesIn, HyFree, Handing
  <2>2. \A states : Has(p, states)' <=> Has(p, states)
    BY <2>1 DEF Has
  <2>3. (Answers(p)' => Answers(p)) /\ (Untouched(p) => Untouched(p)')
    BY <1>1, <2>1, <2>2 DEF Answers, Untouched
  <2>4. SaidOf(p) => SaidOf(p)'
    BY <1>1, <2>1, <2>2 DEF SaidOf
  <2>5. Failing(p) => Failing(p)'
    BY <1>1, <2>1, <2>2 DEF Failing
  <2>6. OneWaits(p) => OneWaits(p)'
    BY <1>1, <2>1 DEF OneWaits
  <2>. QED  BY <2>3, <2>4, <2>5, <2>6
<1>. QED  BY <1>2, <1>3 DEF PromptInv, CalmInv

\* What is true of a node in every reachable state.
THEOREM PromptInvariant == Spec => []PromptInv
<1>1. PromptInv /\ Ind /\ Ind' /\ [Next]_vars => PromptInv'
  BY PromptStep, PromptStutter
<1>. QED  BY <1>1, PromptInit, DetectorInvariant, PTL DEF Spec

\* No goroutine returns from markNodeFailed with the mutex: it is held only by one that is
\* inside, whatever number of pings of the peer that failed are outstanding, in either mode
\* of suspicion and though the mode is switched meanwhile.
THEOREM MutexIsReleased == Spec => []MutexReleased
<1>1. Ind /\ PromptInv => MutexReleased
  BY DEF Ind, MutexInv, PromptInv, CalmInv, Inside, Calm, MutexReleased, InMarkNodeFailed
<1>. QED  BY <1>1, PromptInvariant, DetectorInvariant, PTL

\* While no acknowledgement is late or lost and no other node speaks of a failure, a peer
\* that runs stays in the list whatever is done about the one that failed, by the goroutines
\* of its pings, the listener, HyDFS and the leader, and though the mode of suspicion is
\* switched meanwhile.
THEOREM PromptPeerStays == Spec => []PromptSurvives
<1>1. Ind /\ PromptInv => PromptSurvives
  <2>. SUFFICES ASSUME Ind, PromptInv, Calm, NEW p \in alive PROVE list[p] # "absent"
    BY DEF PromptSurvives, Calm
  <2>1. p \in Peers
    BY DEF Ind, TypeOK
  <2>. QED  BY <2>1 DEF PromptInv, CalmInv, Answers, Untouched
<1>. QED  BY <1>1, PromptInvariant, DetectorInvariant, PTL

================================================================================
