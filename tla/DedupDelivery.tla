---------------------------- MODULE DedupDelivery ----------------------------
(***************************************************************************)
(* What the tuple exchange promises, without senders, receivers or calls.  *)
(* A log is one life of one worker's duplicate log (the aol).  An id is    *)
(* taken at most once under a log; a taken id is delivered to the output   *)
(* at most once, and may fail, before or after its delivery; an id may be  *)
(* acknowledged once it was delivered or failed under some log.  That a    *)
(* failed id may be acknowledged is the weakness of the code, and the      *)
(* reason why this is not exactly-once delivery.                           *)
(***************************************************************************)
EXTENDS Naturals, Sequences

CONSTANTS Ids, Logs

VARIABLES taken, failed, delivered, acked

dvars == <<taken, failed, delivered, acked>>

InOutput(x) == \E i \in 1 .. Len(delivered) : delivered[i] = x

Init ==
  /\ taken = {}
  /\ failed = {}
  /\ delivered = <<>>
  /\ acked = {}

Take(id, log) ==
  /\ <<id, log>> \notin taken
  /\ taken' = taken \cup {<<id, log>>}
  /\ failed' \in {failed, failed \cup {<<id, log>>}}
  /\ UNCHANGED <<delivered, acked>>

Deliver(id, log) ==
  /\ <<id, log>> \in taken \ failed
  /\ ~InOutput(<<id, log>>)
  /\ delivered' = Append(delivered, <<id, log>>)
  /\ failed' \in {failed, failed \cup {<<id, log>>}}
  /\ UNCHANGED <<taken, acked>>

Fail(id, log) ==
  /\ <<id, log>> \in taken \ failed
  /\ failed' = failed \cup {<<id, log>>}
  /\ UNCHANGED <<taken, delivered, acked>>

Acknowledge(id) ==
  /\ \E log \in Logs : <<id, log>> \in failed \/ InOutput(<<id, log>>)
  /\ acked' = acked \cup {id}
  /\ UNCHANGED <<taken, failed, delivered>>

Next ==
  \/ \E id \in Ids, log \in Logs : Take(id, log) \/ Deliver(id, log) \/ Fail(id, log)
  \/ \E id \in Ids : Acknowledge(id)

Spec == Init /\ [][Next]_dvars
=============================================================================
