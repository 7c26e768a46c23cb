---------------------------- MODULE MCDiskWrite ----------------------------
(***************************************************************************)
(* DiskWrite with two tracks of one side in a drive with a spare position, *)
(* signals at every point, and a second program after the first.           *)
(***************************************************************************)
EXTENDS DiskWrite

MCSettings    == {[reset |-> b, by_side |-> ~b] : b \in BOOLEAN}
MCMedia       == MediaType
MCSignals     == {"INT", "TERM"}

\* One SIGTERM.
Plain     == {[reset |-> TRUE, by_side |-> FALSE]}
Writable  == {"writable"}
Terminate == {"TERM"}
=============================================================================
