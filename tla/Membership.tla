------------------------------ MODULE Membership ------------------------------
(***************************************************************************)
(* The membership lists of all nodes (src/GroupMembership) and how joins,  *)
(* leaves and failures spread: every node pings three neighbours every 6 s *)
(* and sends with the pings the messages it has buffered; the receiver     *)
(* keeps those that tell it something new, acts on them, and sends them on *)
(* with its own next pings.  Suspicion is off.  What goes on within one    *)
(* node, its mutexes and channels, is the matter of FailureDetector.       *)
(*                                                                         *)
(* Nodes are their peer ids, by which the lists are sorted.  A message is  *)
(* dated by whether it is older or younger than each join of its node: the *)
(* clocks of the nodes agree.  From the constants of the code: a round     *)
(* (6 s) is over before the next one, so that a node has at most two pings *)
(* of a peer unanswered (7 s); a request to join is answered in an instant.*)
(***************************************************************************)
EXTENDS Naturals, Sequences, FiniteSets, SequencesExt, FiniteSetsExt

CONSTANTS
  Nodes,         \* the peer ids
  Introducer,    \* the introducer, which neither fails nor leaves
  Members,       \* the members to begin with
  KNeighbors,    \* constants.go:13
  MaxJoins, MaxCrashes, MaxLeaves, MaxFaults,   \* bounds on what happens
  MaxSlow,       \* bound on rounds in the midst of which something else happens
  MaxEvents      \* bound on all of it together

ASSUME MembershipAssumption ==
  /\ Nodes \subseteq Nat /\ IsFiniteSet(Nodes)
  /\ Introducer \in Members /\ Members \subseteq Nodes
  /\ KNeighbors \in Nat \ {0}
  /\ {MaxJoins, MaxCrashes, MaxLeaves, MaxFaults, MaxSlow, MaxEvents} \subseteq Nat

VARIABLES
  up,        \* the processes that run
  list,      \* list[n]: MemberShipList of n, the node of each entry
  buf,       \* buf[n]: its currentMsgsInBuffer
  copied,    \* copied[n]: {the messages it copied for a round it is in the midst of}, or {}
  packet,    \* packet[n]: the pings of its round on their way and their messages
  waiting,   \* waiting[n][m]: pings to m that time out
  joined,    \* joined[m]: how often m joined
  crashes,   \* crashes and restarts so far
  leaves, faults, slow,
  odd,       \* history: the nodes that failed, left, were not heard, or joined twice
  swept      \* history: the nodes a message about which was dropped unsent

budget == <<joined, crashes, leaves, faults, slow>>
vars == <<up, list, buf, copied, packet, waiting, budget, odd, swept>>

Alone == <<Introducer>>
NoPacket == [to |-> {}, msgs |-> {}]
NoneWaiting == [m \in Nodes |-> 0]

\* A list in the order of the peer ids, and the list of a set.
Ordered(l) == \A i, j \in 1 .. Len(l) : i <= j => l[i] <= l[j]
Sorted(S) == CHOOSE l \in SetToSeqs(S) : Ordered(l)

Init ==
  /\ up = [n \in Nodes |-> TRUE]
  /\ list = [n \in Nodes |-> IF n \in Members THEN Sorted(Members) ELSE Alone]
  /\ buf = [n \in Nodes |-> {}]
  /\ copied = [n \in Nodes |-> {}] /\ packet = [n \in Nodes |-> NoPacket]
  /\ waiting = [n \in Nodes |-> NoneWaiting]
  /\ joined = [m \in Nodes |-> 0]
  /\ crashes = 0 /\ leaves = 0 /\ faults = 0 /\ slow = 0
  /\ odd = {} /\ swept = {}

joins == SumFunction(joined)
Event == joins + crashes + leaves + faults + slow < MaxEvents
Fault == Event /\ faults < MaxFaults /\ faults' = faults + 1
NoFault == faults' = faults

(***************************************************************************)
(* The list and the messages.                                              *)
(***************************************************************************)
In(m, l) == m \in Range(l)

\* Mutant of Add: the list is not sorted again.
AddUnsorted(l, m) == Append(l, m)

\* Add appends and sorts, whether the node is listed or not.
Add(l, m) == InsertAt(l, Cardinality({i \in 1 .. Len(l) : l[i] <= m}) + 1, m)
AddOrUpdate(m, l) == IF In(m, l) THEN l ELSE Add(l, m)

\* Mutant of Neighbours: counted from the node itself.
NeighboursFromSelf(n, l) ==
  {l[((SelectInSeq(l, LAMBDA x : x = n) + j - 2) % Len(l)) + 1] :
     j \in IF In(n, l) THEN 1 .. KNeighbors ELSE {}} \ {n}

\* GetNeighbours: the next entries around the list, none if n is not in it.
Neighbours(n, l) ==
  {l[((SelectInSeq(l, LAMBDA x : x = n) + j - 1) % Len(l)) + 1] :
     j \in IF In(n, l) THEN 1 .. KNeighbors ELSE {}} \ {n}

About(m) == {msg \in UNION {buf[n] \cup packet[n].msgs : n \in Nodes} : msg.node = m}
Message(type, m) == [type |-> type, node |-> m, at |-> joined[m]]

\* Mutant of Needed: failures that are known already are passed on and on.
NeededAlways(msg, l) == msg.type = "JOIN" => ~In(msg.node, l)

\* RemoveMsgIfNoActionNeeded drops what changes nothing, of a leave it never does.
Needed(msg, l) ==
  /\ msg.type = "FAILED" => In(msg.node, l)
  /\ msg.type = "JOIN" => ~In(msg.node, l)

\* A message is later than another about its node, or may be.
Later(msg, other) ==
  \/ msg.at > other.at
  \/ msg.at = other.at /\ msg.type # "JOIN"

\* RemoveConflictMessages: of the messages about a node the latest.
Resolved(msgs) ==
  {kept \in SUBSET msgs :
     \A m \in {msg.node : msg \in msgs} : \E msg \in kept :
       /\ {x \in kept : x.node = m} = {msg}
       /\ \A other \in msgs \ {msg} : other.node = m => Later(msg, other)}

\* PerformActionOnMessage for every message in the buffer; they are about different
\* nodes, so that their order does not matter.
Perform(l, msgs) ==
  LET gone == {msg.node : msg \in {x \in msgs : x.type \in {"FAILED", "LEFT"}}}
      new == {msg.node : msg \in {x \in msgs : x.type = "JOIN"}}
      removed == FoldSet(LAMBDA m, x : RemoveFirst(x, m), l, gone)
  IN FoldSet(AddOrUpdate, removed, new)

(***************************************************************************)
(* Rounds of pings: sendSignalsToNeighbors, processSignal, pingNode.       *)
(***************************************************************************)
\* A round without messages that finds all neighbours running changes nothing and is
\* left out, like the pings without messages to those that run.  The round copies the
\* buffer and in the end empties it, with the mutex of the channels to wait for in
\* between: either nothing happens meanwhile, or it is one of the slow rounds.
Round(n) ==
  LET to == Neighbours(n, list[n])
      down == {m \in to : ~up[m]}
  IN
  /\ up[n] /\ copied[n] = {} /\ packet[n].to = {} /\ \A m \in Nodes : waiting[n][m] < 2
  /\ packet' = [packet EXCEPT ![n] = IF buf[n] = {} \/ to \subseteq down THEN NoPacket
                                      ELSE [to |-> to \ down, msgs |-> buf[n]]]
  /\ waiting' = [waiting EXCEPT ![n] = [m \in Nodes |-> IF m \in down THEN @[m] + 1 ELSE @[m]]]
  /\ \/ /\ buf[n] # {} \/ down # {}
        /\ buf' = [buf EXCEPT ![n] = {}] /\ UNCHANGED <<copied, slow>>
     \/ /\ Event /\ slow < MaxSlow /\ slow' = slow + 1
        /\ copied' = [copied EXCEPT ![n] = {buf[n]}] /\ UNCHANGED buf
  /\ UNCHANGED <<up, list, joined, crashes, leaves, faults, odd, swept>>

\* The end of a slow round: what came into the buffer since the copy goes unsent.
RoundEnd(n) ==
  /\ up[n] /\ copied[n] # {}
  /\ copied' = [copied EXCEPT ![n] = {}]
  /\ buf' = [buf EXCEPT ![n] = {}]
  /\ swept' = swept \cup {msg.node : msg \in buf[n] \ UNION copied[n]}
  /\ UNCHANGED <<up, list, packet, waiting, budget, odd>>

\* processSignal: what a packet with these messages does to m.
Process(m, msgs) ==
  \E kept \in Resolved(buf[m] \cup {msg \in msgs : Needed(msg, list[m])}) :
    /\ buf' = [buf EXCEPT ![m] = kept]
    /\ list' = [list EXCEPT ![m] = Perform(@, kept)]

Delivered(n, m) ==
  LET to == packet[n].to \ {m} IN
  packet' = [packet EXCEPT ![n] = IF to = {} THEN NoPacket ELSE [@ EXCEPT !.to = to]]
Awaits(n, m) == waiting' = [waiting EXCEPT ![n][m] = @ + 1]
Unheard(n, m) == Awaits(n, m) /\ odd' = odd \cup {m}

\* The ping arrives; its acknowledgement does too or not.
Receive(n, m) ==
  /\ m \in packet[n].to /\ up[m]
  /\ Delivered(n, m) /\ Process(m, packet[n].msgs)
  /\ \/ NoFault /\ UNCHANGED <<waiting, odd>>
     \/ Fault /\ Unheard(n, m)
  /\ UNCHANGED <<up, copied, joined, crashes, leaves, slow, swept>>

Unanswered(n, m) ==
  /\ m \in packet[n].to /\ Delivered(n, m)
  /\ \/ ~up[m] /\ NoFault /\ Awaits(n, m) /\ UNCHANGED odd
     \/ up[m] /\ Fault /\ Unheard(n, m)
  /\ UNCHANGED <<up, list, buf, copied, joined, crashes, leaves, slow, swept>>

\* So is one of a round without messages, or its acknowledgement.
Lost(n, m) ==
  /\ up[n] /\ up[m] /\ m \in Neighbours(n, list[n]) /\ Fault
  /\ packet[n].to = {} /\ waiting[n][m] < 2
  /\ Unheard(n, m)
  /\ UNCHANGED <<up, list, buf, copied, packet, joined, crashes, leaves, slow, swept>>

\* An acknowledgement or a ping without news: n acts on all that is in its buffer.
ActOnBuffer(n) ==
  /\ up[n] /\ buf[n] # {}
  /\ \E m \in Nodes : up[m] /\ (m \in Neighbours(n, list[n]) \/ n \in Neighbours(m, list[m]))
  /\ Process(n, {})
  /\ UNCHANGED <<up, copied, packet, waiting, budget, odd, swept>>

\* Mutant of TimeOut: nobody else is told.
TimeOutSilent(n, m) ==
  /\ up[n] /\ waiting[n][m] > 0
  /\ waiting' = [waiting EXCEPT ![n][m] = @ - 1]
  /\ list' = [list EXCEPT ![n] = RemoveFirst(@, m)]
  /\ UNCHANGED <<up, buf, copied, packet, budget, odd, swept>>

\* markNodeFailed, 7 s after the ping, whatever came of the node meanwhile.
TimeOut(n, m) ==
  /\ up[n] /\ waiting[n][m] > 0
  /\ waiting' = [waiting EXCEPT ![n][m] = @ - 1]
  /\ list' = [list EXCEPT ![n] = RemoveFirst(@, m)]
  /\ buf' = [buf EXCEPT ![n] = @ \cup {Message("FAILED", m)}]
  /\ UNCHANGED <<up, copied, packet, budget, odd, swept>>

(***************************************************************************)
(* Joining, leaving and failing.                                           *)
(***************************************************************************)
\* Something of an earlier membership of m is left.
Remembered(m) ==
  \/ About(m) # {}
  \/ \E n \in Nodes : up[n] /\ (In(m, list[n]) \/ waiting[n][m] > 0)

\* The console command join, which only the introducer refuses: the introducer lists m
\* once more, whether it is listed or not, and answers with its list, which m takes and
\* then acts on its buffer.  The answer may be lost.
Join(m) ==
  LET longer == Add(list[Introducer], m)
      told == buf[Introducer] \cup {[Message("JOIN", m) EXCEPT !.at = @ + 1]}
  IN
  /\ up[m] /\ m # Introducer /\ Event
  /\ joins < MaxJoins /\ joined' = [joined EXCEPT ![m] = @ + 1]
  /\ \/ /\ NoFault /\ odd' = odd \cup {x \in {m} : Remembered(x)}
        /\ \E kept \in Resolved(buf[m]) :
             /\ list' = [list EXCEPT ![Introducer] = longer, ![m] = Perform(longer, kept)]
             /\ buf' = [buf EXCEPT ![Introducer] = told, ![m] = kept]
     \/ /\ Fault /\ odd' = odd \cup {m}
        /\ list' = [list EXCEPT ![Introducer] = longer]
        /\ buf' = [buf EXCEPT ![Introducer] = told]
  /\ UNCHANGED <<up, copied, packet, waiting, crashes, leaves, slow, swept>>

\* The command leave: the node goes on as before until it acts on its own message.
Leave(m) ==
  /\ up[m] /\ m # Introducer /\ In(m, list[m]) /\ Event
  /\ leaves < MaxLeaves /\ leaves' = leaves + 1
  /\ buf' = [buf EXCEPT ![m] = @ \cup {Message("LEFT", m)}]
  /\ odd' = odd \cup {m}
  /\ UNCHANGED <<up, list, copied, packet, waiting, joined, crashes, faults, slow, swept>>

Crash(m) ==
  /\ up[m] /\ m # Introducer /\ Event
  /\ crashes < MaxCrashes /\ crashes' = crashes + 1
  /\ up' = [up EXCEPT ![m] = FALSE]
  /\ list' = [list EXCEPT ![m] = Alone] /\ buf' = [buf EXCEPT ![m] = {}]
  /\ copied' = [copied EXCEPT ![m] = {}] /\ packet' = [packet EXCEPT ![m] = NoPacket]
  /\ waiting' = [waiting EXCEPT ![m] = NoneWaiting]
  /\ odd' = odd \cup {m}
  /\ UNCHANGED <<joined, leaves, faults, slow, swept>>

Restart(m) ==
  /\ ~up[m] /\ up' = [up EXCEPT ![m] = TRUE] /\ Event
  /\ crashes < MaxCrashes /\ crashes' = crashes + 1
  /\ UNCHANGED <<list, buf, copied, packet, waiting, joined, leaves, faults, slow, odd, swept>>

-----------------------------------------------------------------------------
Next ==
  \/ \E n \in Nodes : Round(n) \/ RoundEnd(n)
  \/ \E n \in Nodes : ActOnBuffer(n)
  \/ \E n, m \in Nodes : Receive(n, m) \/ Unanswered(n, m) \/ Lost(n, m) \/ TimeOut(n, m)
  \/ \E m \in Nodes : Join(m) \/ Leave(m) \/ Crash(m) \/ Restart(m)

Spec == Init /\ [][Next]_vars

(***************************************************************************)
(* Fairness: every node has its rounds, and pings arrive or time out.      *)
(***************************************************************************)
FairSpec ==
  /\ Spec
  /\ \A n \in Nodes : WF_vars(\/ Round(n) \/ RoundEnd(n)
                             \/ \E m \in Nodes : \/ Receive(n, m) \/ Unanswered(n, m)
                                                  \/ TimeOut(n, m))

-----------------------------------------------------------------------------
MessageRec == [type : {"JOIN", "LEFT", "FAILED"}, node : Nodes, at : Nat]
IsMember(n) == up[n] /\ In(n, list[n])

\* The types of the variables (membershipList.go:17-45, messages.go:29-40): lists stay
\* in the order of the peer ids that the neighbours are taken from.
TypeOK ==
  /\ up \in [Nodes -> BOOLEAN]
  /\ list \in [Nodes -> Seq(Nodes)] /\ \A n \in Nodes : Ordered(list[n])
  /\ buf \in [Nodes -> SUBSET MessageRec] /\ copied \in [Nodes -> SUBSET SUBSET MessageRec]
  /\ packet \in [Nodes -> [to : SUBSET Nodes, msgs : SUBSET MessageRec]]
  /\ waiting \in [Nodes -> [Nodes -> 0 .. 2]]
  /\ joined \in [Nodes -> 0 .. MaxJoins] /\ crashes \in 0 .. MaxCrashes
  /\ leaves \in 0 .. MaxLeaves /\ faults \in 0 .. MaxFaults /\ slow \in 0 .. MaxSlow
  /\ odd \subseteq Nodes /\ swept \subseteq Nodes

\* All members come to know each other (introducer.go:51-106, process.go:152-244).  Only
\* a node to which a join is news passes it on; whoever has failed, has left or knows
\* the new node from the introducer does not, the new node itself for one.  So it holds
\* while these are fewer than a node has neighbours, of every node no message about which
\* came into a buffer between the copy for a round and its end (process.go:168-185).
JoinSpreads ==
  <>[](joins + Cardinality(odd) < KNeighbors =>
         \A m, n \in Nodes \ odd :
           IsMember(m) /\ IsMember(n) /\ m \notin swept => In(m, list[n]))

\* A node that has failed and stays down is removed by every member, whoever of its
\* neighbours fails, leaves or misses an acknowledgement meanwhile (process.go:247-352,
\* membershipList.go:185-192).  For a node that had just joined it need not be: its JOIN
\* may follow its FAILED around the ring and list it again, and so on for ever.
FailSpreads ==
  \A m \in Nodes : <>[](~up[m] /\ joined[m] = 0 =>
    \A n \in Nodes : IsMember(n) => ~In(m, list[n]))

\* The messages die out: what all have heard is passed on by nobody
\* (membershipList.go:213-233, messages.go:144-175).  Of a leave nothing is ever filtered,
\* and of a node that failed or was not heard and joins again the two messages may chase
\* each other.
GossipDies ==
  <>[](leaves = 0 /\ (\A m \in odd : joined[m] = 0) => \A n \in Nodes : buf[n] = {})
=============================================================================
