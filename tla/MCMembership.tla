----------------------------- MODULE MCMembership -----------------------------
(***************************************************************************)
(* Four nodes for TLC, one of them not yet a member, each with two         *)
(* neighbours: nobody reaches all the others.                              *)
(***************************************************************************)
EXTENDS Membership

MCNodes == {10, 20, 30, 40}
MCMembers == {10, 20, 30}
=============================================================================
