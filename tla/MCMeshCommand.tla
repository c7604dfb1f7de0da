---------------------------- MODULE MCMeshCommand ----------------------------
(* A mutating command that is sent twice and a read-only one. *)
EXTENDS MeshCommand

CONSTANTS write, read

MCCommands == {write, read}
OnlyRead == {read}
WriteTwice == [c \in Commands |-> IF c = write THEN 2 ELSE 1]
Nothing == {}
=============================================================================
