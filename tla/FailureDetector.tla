---------------------------- MODULE FailureDetector ----------------------------
(***************************************************************************)
(* The failure detector of one node (src/GroupMembership): the goroutines  *)
(* of process.go and who they wait for.  A sender pings the neighbours     *)
(* every 6 s, with one goroutine for each ping that waits 7 s for the      *)
(* acknowledgement; a listener reads the packets; failures go through an   *)
(* unbuffered channel to HyDFS, which collects them, and from there on to  *)
(* the leader if this node is the introducer.  MemberShipListMutex guards  *)
(* the membership list in some places, ackChanMapMutex the map of the      *)
(* channels on which pings get their acknowledgement.                      *)
(*                                                                         *)
(* Time is left out but for the order that the constants of the code       *)
(* imply.  6 s are enough for an acknowledgement unless a fault slows it   *)
(* down or the listener is held up.  A ping without one times out after    *)
(* 7 s, when the next has been sent and before the one after it, so that a *)
(* peer that failed has two outstanding.  Its suspicion (4 s) ends before  *)
(* the second times out.  A round of pings is sent in an instant unless    *)
(* the listener holds ackChanMapMutex.  Joins are not modelled.            *)
(***************************************************************************)
EXTENDS Naturals, Sequences, FiniteSets

CONSTANTS
  Peers,                 \* the other members, three at most: all are neighbours
  Introducer,            \* this node is the introducer and runs the leader
  Gossip,                \* the messages others may send, pairs of type and peer
  MaxPings,              \* bound on the goroutines there are for pings of a peer
  MaxCrashes,            \* bound on crashes of peers
  MaxFaults,             \* bound on late and lost acknowledgements
  MaxGossip,             \* bound on the messages received
  MaxSwitches,           \* bound on the switches of the mode
  MaxMishaps             \* bound on the faults, messages and switches together

Types == {"FAILED", "LEFT", "SUSPECTED", "ACTIVE"}
Slots == 1 .. MaxPings
Pings == Peers \X Slots

ASSUME DetectorAssumption ==
  /\ Peers # {} /\ Introducer \in BOOLEAN
  /\ Gossip \subseteq Types \X Peers
  /\ {MaxPings, MaxCrashes, MaxFaults, MaxGossip, MaxSwitches, MaxMishaps} \subseteq Nat

VARIABLES
  alive,     \* the peers that run
  acks,      \* acks[p]: acknowledgements of p on their way
  list,      \* MemberShipList: the status of each peer, "absent" if not in it
  mlm,       \* MemberShipListMutex is held
  buf,       \* currentMsgsInBuffer: the types of the messages about each peer
  round,     \* the sender: the neighbours still to ping
  ackMap,    \* ackChanMap[p]: the ping whose channel it holds, 0 for none
  ping,      \* the goroutines of the pings, and of the suspicions they raise
  lis,       \* the listener
  hy,        \* getFailedNodeSignal of HyDFS
  leader,    \* getFailedNodeSignal of the leader
  SuspicionModeEnabled,                \* suspicion.go:12
  crashes, faults, gossips, switches,  \* budget used so far
  signalled, \* history: the peers of whose failure HyDFS was told
  wasOn      \* history: suspicion was enabled at some time

mode == <<SuspicionModeEnabled, switches, wasOn>>
env == <<alive, acks, mode, crashes, faults, gossips>>
vars == <<env, list, mlm, buf, round, ackMap, ping, lis, hy, leader, signalled>>

NoMsgs == [p \in Peers |-> <<>>]
Reading == [pc |-> "read", p |-> CHOOSE p \in Peers : TRUE, todo |-> NoMsgs]
NoPing == "none"
Awaiting == {"wait", "old"}   \* for the ping of this round, of the last one

Init ==
  /\ alive = Peers /\ acks = [p \in Peers |-> 0]
  /\ list = [p \in Peers |-> "ACTIVE"] /\ mlm = FALSE
  /\ buf = NoMsgs
  /\ round = [pc |-> "tick", todo |-> {}]
  /\ ackMap = [p \in Peers |-> 0]
  /\ ping = [c \in Pings |-> NoPing]
  /\ lis = Reading
  /\ hy = [pc |-> "wait", failed |-> {}, todo |-> {}, last |-> CHOOSE p \in Peers : TRUE]
  /\ leader = [pc |-> "wait", got |-> {}]
  /\ SuspicionModeEnabled = FALSE /\ wasOn = FALSE
  /\ crashes = 0 /\ faults = 0 /\ gossips = 0 /\ switches = 0
  /\ signalled = {}

Members == {p \in Peers : list[p] # "absent"}
Mishap == faults + gossips + switches < MaxMishaps
Fault == Mishap /\ faults < MaxFaults /\ faults' = faults + 1
NoFault == faults' = faults
Say(p, type) == buf' = [buf EXCEPT ![p] = Append(@, type)]
Becomes(c, st) == ping' = [ping EXCEPT ![c] = st]

(***************************************************************************)
(* The network.                                                            *)
(***************************************************************************)
Crash(p) ==
  /\ p \in alive /\ crashes < MaxCrashes
  /\ alive' = alive \ {p} /\ crashes' = crashes + 1
  /\ UNCHANGED <<acks, mode, faults, gossips, list, mlm, buf, round, ackMap, ping, lis, hy,
                 leader, signalled>>

AckLost(p) ==
  /\ acks[p] > 0 /\ Fault
  /\ acks' = [acks EXCEPT ![p] = @ - 1]
  /\ UNCHANGED <<alive, mode, crashes, gossips, list, mlm, buf, round, ackMap, ping, lis, hy,
                 leader, signalled>>

(***************************************************************************)
(* The sender: sendSignalsToNeighbors.                                     *)
(***************************************************************************)
Listening == lis.pc = "read"
\* The listener waits for a goroutine that is not there to serve it.
Jammed == lis.pc = "ack" /\ ping[<<lis.p, ackMap[lis.p]>>] \notin Awaiting
HeldUp ==
  \/ lis.pc = "signal" /\ (hy.pc = "batch" \/ (hy.pc = "forward" /\ leader.pc = "sleep"))
  \/ Jammed

\* 6 s are enough for goroutines that nobody holds up: for pings to time out, for
\* suspicions to end, for a signal that HyDFS or the leader is there to receive.  Only
\* a signal sent before can have kept them from the mutex.
Settled ==
  /\ \A c \in Pings :
       /\ ping[c] \notin {"old", "remove", "told"}
       /\ ping[c] \in {"signal", "tell"} => hy.pc # "wait"
       /\ ping[c] = "acked" => mlm
       /\ ping[c] \in {"late", "sleep"} => mlm \/ signalled # {}
  /\ hy.pc = "forward" => leader.pc = "sleep"

\* The ticker: the neighbours and the messages are copied for the round.
RoundBegin ==
  /\ round.pc = "tick" /\ Settled
  /\ \/ NoFault /\ (HeldUp \/ (Listening /\ \A p \in Peers : acks[p] = 0))
     \/ Fault
  /\ round' = [pc |-> "send", todo |-> Members]
  /\ ping' = [c \in Pings |-> IF ping[c] = "wait" THEN "old" ELSE ping[c]]
  /\ UNCHANGED <<alive, acks, mode, crashes, gossips, list, mlm, buf, ackMap, lis, hy,
                 leader, signalled>>

\* The goroutine for the next ping of p: the first slot that is free.
NextPing(p, k) == ping[<<p, k>>] = NoPing /\ \A j \in 1 .. k - 1 : ping[<<p, j>>] # NoPing

\* Its turn in the round, which takes ackChanMapMutex.
PingTurn(p) == round.pc = "send" /\ p \in round.todo /\ lis.pc # "ack"

\* A new channel takes the place of the one of the last ping, answered or not.
SendPing(p, k) ==
  /\ PingTurn(p) /\ NextPing(p, k)
  /\ ackMap' = [ackMap EXCEPT ![p] = k]
  /\ ping' = [ping EXCEPT ![<<p, k>>] = "wait"]
  /\ acks' = IF p \in alive /\ acks[p] < MaxPings THEN [acks EXCEPT ![p] = @ + 1] ELSE acks
  /\ round' = [round EXCEPT !.todo = @ \ {p}]
  /\ UNCHANGED <<alive, mode, crashes, faults, gossips, list, mlm, buf, lis, hy, leader, signalled>>

\* The address or the connection fails: pingNode returns and leaves the channel behind.
PingFails(p, k) ==
  /\ PingTurn(p) /\ NextPing(p, k) /\ Fault
  /\ ackMap' = [ackMap EXCEPT ![p] = k]
  /\ round' = [round EXCEPT !.todo = @ \ {p}]
  /\ UNCHANGED <<alive, acks, mode, crashes, gossips, list, mlm, buf, ping, lis, hy, leader,
                 signalled>>

\* The bound MaxPings: no further ping while so many goroutines are there.  With two of
\* them one is not awaiting its ping any more, and the mutex or HyDFS holds it up.
SkipPing(p) ==
  /\ PingTurn(p) /\ \A k \in Slots : ping[<<p, k>>] # NoPing
  /\ round' = [round EXCEPT !.todo = @ \ {p}]
  /\ UNCHANGED <<env, list, mlm, buf, ackMap, ping, lis, hy, leader, signalled>>

\* The buffer is emptied, with all that came in since it was copied.
RoundEnd ==
  /\ round.pc = "send" /\ round.todo = {}
  /\ round' = [round EXCEPT !.pc = "tick"]
  /\ buf' = NoMsgs
  /\ UNCHANGED <<env, list, mlm, ackMap, ping, lis, hy, leader, signalled>>

(***************************************************************************)
(* The goroutine of one ping: pingNode, markNodeAlive, markNodeFailed.     *)
(***************************************************************************)

\* 7 s are over: the next round was sent, or does not end as its mutex is held.
Late(c) ==
  /\ \/ ping[c] = "old" /\ (round.pc = "tick" \/ Jammed)
     \/ ping[c] = "wait" /\ round.pc = "send" /\ Jammed
  /\ Becomes(c, "late")
  /\ UNCHANGED <<env, list, mlm, buf, round, ackMap, lis, hy, leader, signalled>>

MarkAlive(c) ==
  LET p == c[1] IN
  /\ ping[c] = "acked" /\ ~mlm
  /\ IF list[p] = "SUSPECTED"
       THEN Say(p, "ACTIVE") /\ list' = [list EXCEPT ![p] = "ACTIVE"]
       ELSE UNCHANGED <<buf, list>>
  /\ Becomes(c, NoPing)
  /\ UNCHANGED <<env, mlm, round, ackMap, lis, hy, leader, signalled>>

\* Suspicion off: with the mutex held HyDFS is told, if the peer is listed.
MarkFailed(c) ==
  LET p == c[1] IN
  /\ ping[c] = "late" /\ ~SuspicionModeEnabled /\ ~mlm
  /\ IF p \in Members
       THEN mlm' = TRUE /\ Becomes(c, "signal") /\ UNCHANGED buf
       ELSE Say(p, "FAILED") /\ Becomes(c, NoPing) /\ UNCHANGED mlm
  /\ UNCHANGED <<env, list, round, ackMap, lis, hy, leader, signalled>>

\* Mutant of MarkFailedEnd: the peer gets a status and stays in the list.
MarkFailedEndKeeps(c) ==
  LET p == c[1] IN
  /\ ping[c] = "remove"
  /\ list' = [list EXCEPT ![p] = "FAILED"] /\ Say(p, "FAILED") /\ mlm' = FALSE
  /\ Becomes(c, NoPing)
  /\ UNCHANGED <<env, round, ackMap, lis, hy, leader, signalled>>

\* Mutant of MarkFailedEnd: the mutex is not released.
MarkFailedEndLocked(c) ==
  LET p == c[1] IN
  /\ ping[c] = "remove"
  /\ list' = [list EXCEPT ![p] = "absent"] /\ Say(p, "FAILED")
  /\ Becomes(c, NoPing)
  /\ UNCHANGED <<env, mlm, round, ackMap, lis, hy, leader, signalled>>

MarkFailedEnd(c) ==
  LET p == c[1] IN
  /\ ping[c] = "remove"
  /\ list' = [list EXCEPT ![p] = "absent"] /\ Say(p, "FAILED") /\ mlm' = FALSE
  /\ Becomes(c, NoPing)
  /\ UNCHANGED <<env, round, ackMap, lis, hy, leader, signalled>>

\* Mutant of Suspect: no timer is started.
SuspectUntimed(c) ==
  LET p == c[1] IN
  /\ ping[c] = "late" /\ SuspicionModeEnabled /\ ~mlm
  /\ list' = [list EXCEPT ![p] = IF p \in Members THEN "SUSPECTED" ELSE @]
  /\ Say(p, "SUSPECTED") /\ Becomes(c, NoPing)
  /\ UNCHANGED <<env, mlm, round, ackMap, lis, hy, leader, signalled>>

\* Suspicion on: the peer is suspected for 4 s.  If it is already the function
\* returns without releasing the mutex.
Suspect(c) ==
  LET p == c[1] IN
  /\ ping[c] = "late" /\ SuspicionModeEnabled /\ ~mlm
  /\ IF list[p] = "SUSPECTED"
       THEN mlm' = TRUE /\ Becomes(c, NoPing) /\ UNCHANGED <<buf, list>>
       ELSE /\ list' = [list EXCEPT ![p] = IF p \in Members THEN "SUSPECTED" ELSE @]
            /\ Say(p, "SUSPECTED") /\ Becomes(c, "sleep") /\ UNCHANGED mlm
  /\ UNCHANGED <<env, round, ackMap, lis, hy, leader, signalled>>

\* Mutant of SuspicionEnd: HyDFS is not told.
SuspicionEndSilent(c) ==
  LET p == c[1] IN
  /\ ping[c] = "sleep" /\ (round.pc = "tick" \/ Jammed)
  /\ IF list[p] = "SUSPECTED"
       THEN Say(p, "FAILED") /\ Becomes(c, "told")
       ELSE Becomes(c, NoPing) /\ UNCHANGED buf
  /\ UNCHANGED <<env, list, mlm, round, ackMap, lis, hy, leader, signalled>>

\* The end of the 4 s, without any mutex.
SuspicionEnd(c) ==
  LET p == c[1] IN
  /\ ping[c] = "sleep" /\ (round.pc = "tick" \/ Jammed)
  /\ IF list[p] = "SUSPECTED"
       THEN Say(p, "FAILED") /\ Becomes(c, "tell")
       ELSE Becomes(c, NoPing) /\ UNCHANGED buf
  /\ UNCHANGED <<env, list, mlm, round, ackMap, lis, hy, leader, signalled>>

SuspectRemoved(c) ==
  /\ ping[c] = "told"
  /\ list' = [list EXCEPT ![c[1]] = "absent"]
  /\ Becomes(c, NoPing)
  /\ UNCHANGED <<env, mlm, buf, round, ackMap, lis, hy, leader, signalled>>

(***************************************************************************)
(* The listener: listenUdpSignals, processSignal, PerformActionOnMessage.  *)
(***************************************************************************)

\* RemoveConflictMessages leaves one message for each peer: the latest, or with
\* suspicion on the first in the buffer.
Resolved(b, on) ==
  {r \in [Peers -> {<<>>} \cup {<<type>> : type \in Types}] :
     \A p \in Peers :
       IF b[p] = <<>> THEN r[p] = <<>>
       ELSE IF on THEN r[p] = <<b[p][1]>>
       ELSE \E i \in 1 .. Len(b[p]) : r[p] = <<b[p][i]>>}

\* What is left to do after the buffer was settled to b: every message in it.
Acting(b) == IF b = NoMsgs THEN Reading ELSE [Reading EXCEPT !.pc = "act", !.todo = b]

\* Messages that would change nothing are dropped.
Needed(type, p) ==
  /\ type = "FAILED" => p \in Members
  /\ type = "SUSPECTED" => list[p] # "SUSPECTED"

\* A PING with a message of another node, or with none.
ReceiveMessage(m) ==
  /\ Listening /\ Mishap /\ gossips < MaxGossip /\ gossips' = gossips + 1
  /\ LET added == IF Needed(m[1], m[2]) THEN [buf EXCEPT ![m[2]] = Append(@, m[1])] ELSE buf
     IN buf' \in Resolved(added, SuspicionModeEnabled)
  /\ lis' = Acting(buf')
  /\ UNCHANGED <<alive, acks, mode, crashes, faults, list, mlm, round, ackMap, ping, hy, leader,
                 signalled>>

ReceivePing ==
  /\ Listening /\ buf # NoMsgs
  /\ buf' \in Resolved(buf, SuspicionModeEnabled)
  /\ lis' = Acting(buf')
  /\ UNCHANGED <<env, list, mlm, round, ackMap, ping, hy, leader, signalled>>

\* enable_sus or disable_sus at the console of this node.
Switch ==
  /\ Mishap /\ switches < MaxSwitches /\ switches' = switches + 1
  /\ SuspicionModeEnabled' = ~SuspicionModeEnabled
  /\ wasOn' = TRUE
SwitchSuspicion ==
  /\ Switch
  /\ UNCHANGED <<alive, acks, crashes, faults, gossips, list, mlm, buf, round, ackMap, ping,
                 lis, hy, leader, signalled>>

\* Or at that of another one: the mode is set by another goroutine while the listener
\* goes on with the packet as one without a message.
ReceiveSwitch ==
  /\ Listening /\ Switch
  /\ \E on \in BOOLEAN : buf' \in Resolved(buf, on)
  /\ lis' = Acting(buf')
  /\ UNCHANGED <<alive, acks, crashes, faults, gossips, list, mlm, round, ackMap, ping, hy,
                 leader, signalled>>

\* Mutant of ReceiveAck: with messages to act on, the ACK itself is forgotten.
ReceiveAckForgotten(p) ==
  /\ Listening /\ acks[p] > 0
  /\ acks' = [acks EXCEPT ![p] = @ - 1]
  /\ buf' \in Resolved(buf, SuspicionModeEnabled)
  /\ lis' = IF ackMap[p] = 0 \/ buf # NoMsgs
              THEN Acting(buf') ELSE [Reading EXCEPT !.pc = "ack", !.p = p]
  /\ UNCHANGED <<alive, mode, crashes, faults, gossips, list, mlm, round, ackMap, ping, hy, leader,
                 signalled>>

\* An ACK: the listener takes ackChanMapMutex and, if there is a channel for the
\* peer, sends on it, which lasts until the goroutine of the ping receives.
ReceiveAck(p) ==
  /\ Listening /\ acks[p] > 0
  /\ acks' = [acks EXCEPT ![p] = @ - 1]
  /\ buf' \in Resolved(buf, SuspicionModeEnabled)
  /\ lis' = IF ackMap[p] = 0 THEN Acting(buf') ELSE [Reading EXCEPT !.pc = "ack", !.p = p]
  /\ UNCHANGED <<alive, mode, crashes, faults, gossips, list, mlm, round, ackMap, ping, hy, leader,
                 signalled>>

\* The channel is closed and its entry removed, the mutex released.
HandOver ==
  LET c == <<lis.p, ackMap[lis.p]>> IN
  /\ lis.pc = "ack" /\ ping[c] \in Awaiting
  /\ Becomes(c, "acked")
  /\ ackMap' = [ackMap EXCEPT ![lis.p] = 0]
  /\ lis' = Acting(buf)
  /\ UNCHANGED <<env, list, mlm, buf, round, hy, leader, signalled>>

\* The first message about p that is left is done.
Done(p) ==
  LET todo == [lis.todo EXCEPT ![p] = Tail(@)] IN
  lis' = Acting(todo)

Act(p) ==
  LET type == Head(lis.todo[p]) IN
  /\ lis.pc = "act" /\ lis.todo[p] # <<>>
  /\ \/ /\ type = "FAILED" /\ p \in Members
        /\ lis' = [lis EXCEPT !.pc = "signal", !.p = p] /\ UNCHANGED list
     \/ /\ type = "FAILED" /\ p \notin Members
        /\ Done(p) /\ UNCHANGED list
     \/ /\ type = "LEFT"
        /\ Done(p) /\ list' = [list EXCEPT ![p] = "absent"]
     \/ /\ type = "SUSPECTED"
        /\ Done(p)
        /\ list' = [list EXCEPT ![p] = IF p \in Members THEN "SUSPECTED" ELSE @]
     \/ /\ type = "ACTIVE"
        /\ Done(p) /\ list' = [list EXCEPT ![p] = "ACTIVE"]
  /\ UNCHANGED <<env, mlm, buf, round, ackMap, ping, hy, leader, signalled>>

ActRemoved ==
  /\ lis.pc = "remove"
  /\ list' = [list EXCEPT ![lis.p] = "absent"]
  /\ Done(lis.p)
  /\ UNCHANGED <<env, mlm, buf, round, ackMap, ping, hy, leader, signalled>>

(***************************************************************************)
(* FailNodeSignalChan and its readers in HyDFS and in the leader.          *)
(***************************************************************************)
HyReceive(p) ==
  /\ hy.pc = "wait"
  /\ hy' = [hy EXCEPT !.pc = IF Introducer THEN "forward" ELSE "wait", !.last = p,
                      !.failed = @ \cup {p}]
  /\ signalled' = signalled \cup {p}
  /\ UNCHANGED <<env, list, mlm, buf, round, ackMap, leader>>

SignalByPing(c) ==
  /\ ping[c] \in {"signal", "tell"} /\ HyReceive(c[1])
  /\ Becomes(c, IF ping[c] = "signal" THEN "remove" ELSE "told")
  /\ UNCHANGED lis

SignalByListener ==
  /\ lis.pc = "signal" /\ HyReceive(lis.p)
  /\ lis' = [lis EXCEPT !.pc = "remove"]
  /\ UNCHANGED ping

\* The leader takes note and does nothing else for 15 s.
Forward ==
  /\ hy.pc = "forward" /\ leader.pc = "wait"
  /\ hy' = [hy EXCEPT !.pc = "wait"]
  /\ leader' = [pc |-> "sleep", got |-> leader.got \cup {hy.last}]
  /\ UNCHANGED <<env, list, mlm, buf, round, ackMap, ping, lis, signalled>>

LeaderWakes ==
  /\ leader.pc = "sleep"
  /\ leader' = [leader EXCEPT !.pc = "wait"]
  /\ UNCHANGED <<env, list, mlm, buf, round, ackMap, ping, lis, hy, signalled>>

\* 20 s without anyone who had a failure to tell: the ranges of each failed peer
\* are worked out under MemberShipListMutex, then the files are sent.
BatchBegin ==
  /\ hy.pc = "wait" /\ hy.failed # {}
  /\ lis.pc \notin {"signal", "remove"}
  /\ \A c \in Pings : ping[c] \notin {"signal", "remove", "tell", "told"}
  /\ hy' = [hy EXCEPT !.pc = "batch", !.todo = hy.failed]
  /\ UNCHANGED <<env, list, mlm, buf, round, ackMap, ping, lis, leader, signalled>>

BatchRanges(p) ==
  /\ hy.pc = "batch" /\ p \in hy.todo /\ ~mlm
  /\ hy' = [hy EXCEPT !.todo = @ \ {p}]
  /\ UNCHANGED <<env, list, mlm, buf, round, ackMap, ping, lis, leader, signalled>>

BatchEnd ==
  /\ hy.pc = "batch" /\ hy.todo = {}
  /\ hy' = [hy EXCEPT !.pc = "wait", !.failed = {}]
  /\ UNCHANGED <<env, list, mlm, buf, round, ackMap, ping, lis, leader, signalled>>

-----------------------------------------------------------------------------
Sender == RoundBegin \/ RoundEnd \/ \E p \in Peers : SkipPing(p) \/ \E k \in Slots : SendPing(p, k)
PingFailure == \E p \in Peers, k \in Slots : PingFails(p, k)
Pinger(c) ==
  \/ Late(c) \/ MarkAlive(c) \/ MarkFailed(c) \/ MarkFailedEnd(c)
  \/ Suspect(c) \/ SuspicionEnd(c) \/ SuspectRemoved(c) \/ SignalByPing(c)
Listener == HandOver \/ ActRemoved \/ SignalByListener \/ \E p \in Peers : Act(p)
Receive == \E p \in Peers : ReceiveAck(p)
Repairer == Forward \/ BatchBegin \/ BatchEnd \/ \E p \in Peers : BatchRanges(p)

Next ==
  \/ \E p \in Peers : Crash(p) \/ AckLost(p)
  \/ \E m \in Gossip : ReceiveMessage(m)
  \/ Sender \/ PingFailure \/ Listener \/ Receive \/ ReceivePing \/ Repairer \/ LeaderWakes
  \/ SwitchSuspicion \/ ReceiveSwitch
  \/ \E c \in Pings : Pinger(c)

Spec == Init /\ [][Next]_vars

(***************************************************************************)
(* Fairness: goroutines run, mutexes and channels serve those who wait,    *)
(* tickers and timers go off, acknowledgements arrive.  The timeout of a   *)
(* ping goes off between two rounds, hence the strong fairness.            *)
(***************************************************************************)
FairSpec ==
  /\ Spec
  /\ WF_vars(Sender) /\ WF_vars(Receive \/ Listener) /\ WF_vars(Repairer \/ LeaderWakes)
  /\ \A p \in Peers : SF_vars(\E k \in Slots : Pinger(<<p, k>>))

-----------------------------------------------------------------------------
Statuses == {"absent", "ACTIVE", "SUSPECTED"}
Msgs == [Peers -> Seq(Types)]

\* The types of the variables (membershipList.go:17-45, process.go:13-33).
TypeOK ==
  /\ alive \subseteq Peers /\ acks \in [Peers -> Nat]
  /\ list \in [Peers -> Statuses] /\ mlm \in BOOLEAN /\ buf \in Msgs
  /\ round \in [pc : {"tick", "send"}, todo : SUBSET Peers]
  /\ ackMap \in [Peers -> 0 .. MaxPings]
  /\ ping \in [Pings -> {"none", "wait", "old", "acked", "late", "signal", "remove", "sleep",
                         "tell", "told"}]
  /\ lis \in [pc : {"read", "ack", "act", "signal", "remove"}, p : Peers, todo : Msgs]
  /\ hy \in [pc : {"wait", "forward", "batch"}, failed : SUBSET Peers, todo : SUBSET Peers,
             last : Peers]
  /\ leader \in [pc : {"wait", "sleep"}, got : SUBSET Peers]
  /\ crashes \in 0 .. MaxCrashes /\ faults \in 0 .. MaxFaults /\ gossips \in 0 .. MaxGossip
  /\ SuspicionModeEnabled \in BOOLEAN /\ wasOn \in BOOLEAN /\ switches \in 0 .. MaxSwitches
  /\ signalled \subseteq Peers

Undisturbed == faults = 0 /\ gossips = 0

\* MemberShipListMutex is held only by a goroutine inside markNodeFailed.  With suspicion
\* one that finds the peer suspected already returns with the mutex (process.go:297-300).
\* A message of another node can do that, and so can a second failure: the report of the
\* first suspicion then waits for HyDFS or the leader while the next ping times out.
\* With one failure, two pings outstanding, no ping comes upon the suspicion of the other.
MutexReleased ==
  (mlm /\ (wasOn => Undisturbed /\ crashes <= 1)) =>
    \E c \in Pings : ping[c] \in {"signal", "remove"}

\* No peer is dropped from the list before HyDFS has got its failure, unless it
\* left (process.go:323-327,339-344, membershipList.go:188-192): the repair
\* cannot miss it.
DroppedIsSignalled ==
  \A p \in Peers : list[p] = "absent" => p \in signalled \/ <<"LEFT", p>> \in Gossip

\* A peer that runs and answers before the next ping stays a member, however
\* the failure of another one is handled and the mode is switched meanwhile
\* (process.go:84-96,152-190,222-239).
PromptSurvives == (Undisturbed /\ crashes <= 1) => \A p \in alive : list[p] # "absent"

\* "Failed process will be detected by the nodes monitoring the process" and
\* removed (GroupMembership/Readme.md:42,44).
FailedRemoved == \A p \in Peers : p \notin alive ~> list[p] = "absent"

\* A peer that failed is removed, reported to the leader and its files are repaired in
\* the end, in either mode and though the mode is switched meanwhile
\* (process.go:271-347, hydfs.go:72-80,146-157, leader.go:429-456).
FailureHandled ==
  \A p \in Peers : p \notin alive ~>
    \/ list[p] = "absent" /\ p \in leader.got /\ hy.pc = "wait" /\ hy.failed = {}
    \/ ~Undisturbed
=============================================================================
