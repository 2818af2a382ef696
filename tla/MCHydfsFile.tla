----------------------------- MODULE MCHydfsFile -----------------------------
(* Small instances of HydfsFile for TLC. *)
EXTENDS HydfsFile, TLC

CONSTANTS q1, q2

\* Rings of three and of five nodes.
Three == {10, 20, 30}
Five  == {10, 20, 30, 40, 50}

Nothing == <<>>
First   == <<q1>>

=============================================================================
