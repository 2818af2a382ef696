------------------------------ MODULE HydfsRing ------------------------------
(***************************************************************************)
(* The ring of HyDFS: which nodes hold a file, and who sends what to whom  *)
(* when a node failed.  Nodes are their peer ids; a membership list, which *)
(* the code keeps sorted by them, is the set of the peer ids in it, and an *)
(* index modulo its length a walk around the ring.                         *)
(***************************************************************************)
EXTENDS Naturals, FiniteSets, FiniteSetsExt

\* The next peer above h, and the next one below, around the ring.
Succ(h, members) ==
  LET above == {p \in members : p > h} IN Min(IF above = {} THEN members ELSE above)
Pred(h, members) ==
  LET below == {p \in members : p < h} IN Max(IF below = {} THEN members ELSE below)

\* The first peer above the file's hash, or else the first of all, and the two
\* that follow it: the primary and the replicas of the file.
FileRouting(hash, members) ==
  LET first  == Succ(hash, members)
      second == Succ(first, members)
  IN <<first, second, Succ(second, members)>>

\* HypotheticalNeighborsForPeerId: the three peers before and the three behind
\* a failed one, which is put into the list once more for the purpose.
PrecedingPeers(members, failed) ==
  LET all == members \cup {failed}
      p1 == Pred(failed, all)
      p2 == Pred(p1, all)
  IN <<p1, p2, Pred(p2, all)>>
SucceedingPeers(members, failed) == FileRouting(failed, members \cup {failed})

\* Mutant of TransferRanges: what the failed peer was primary of goes to its second
\* successor.
TransferRangesShifted(members, failed) ==
  LET prev == PrecedingPeers(members, failed)
      next == SucceedingPeers(members, failed)
  IN {[from |-> prev[3], to |-> prev[2], sender |-> prev[1], receiver |-> next[1]],
      [from |-> prev[2], to |-> prev[1], sender |-> prev[1], receiver |-> next[2]],
      [from |-> prev[1], to |-> failed,  sender |-> next[1], receiver |-> next[2]]}

\* The three transfers that make up for a failed peer.
TransferRanges(members, failed) ==
  LET prev == PrecedingPeers(members, failed)
      next == SucceedingPeers(members, failed)
  IN {[from |-> prev[3], to |-> prev[2], sender |-> prev[1], receiver |-> next[1]],
      [from |-> prev[2], to |-> prev[1], sender |-> prev[1], receiver |-> next[2]],
      [from |-> prev[1], to |-> failed,  sender |-> next[1], receiver |-> next[3]]}

\* GetFilesInRange: does a range of hashes select a file?  With start below
\* end every file is; else the ones outside, but for start and end themselves.
InRange(hash, start, end) ==
  \/ hash >= start /\ hash <= end
  \/ hash > end /\ hash > start
  \/ hash <= start /\ hash < end

\* To whom a peer sends a file it has when the failed ones are gone; a
\* receiver that is not in the list is dropped (TransferFilesOnFailure).
Receivers(sender, hash, members, failed) ==
  {x.receiver : x \in {y \in UNION {TransferRanges(members, f) : f \in failed} :
                         y.sender = sender /\ InRange(hash, y.from, y.to)}}
    \cap members
=============================================================================
