--------------------------- MODULE AppendOnlyFile ---------------------------
(***************************************************************************)
(* What HyDFS promises of a file while no node fails: the accepted writes  *)
(* stand in one order, none twice; only an accepted write is acknowledged; *)
(* a reader sees a prefix of them that never gets shorter.  That a reader  *)
(* need not see what was acknowledged before it began is the code's.       *)
(***************************************************************************)
EXTENDS Naturals, Sequences, SequencesExt

CONSTANTS Reqs

VARIABLES content, acked, seen

fvars == <<content, acked, seen>>

Init == content = <<>> /\ acked = {} /\ seen = <<>>

Accept(q) ==
  /\ q \notin Range(content)
  /\ content' = Append(content, q)
  /\ UNCHANGED <<acked, seen>>

Acknowledge(q) ==
  /\ q \in Range(content)
  /\ acked' = acked \cup {q}
  /\ UNCHANGED <<content, seen>>

Read ==
  /\ IsPrefix(seen', content)
  /\ IsPrefix(seen, seen')
  /\ UNCHANGED <<content, acked>>

Next == Read \/ \E q \in Reqs : Accept(q) \/ Acknowledge(q)

Spec == Init /\ [][Next]_fvars
=============================================================================
