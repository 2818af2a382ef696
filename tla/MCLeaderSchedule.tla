---------------------------- MODULE MCLeaderSchedule ----------------------------
(* Small instances of LeaderSchedule for TLC. *)
EXTENDS LeaderSchedule

CONSTANTS n0, n1, n2, n3, n4
=============================================================================
