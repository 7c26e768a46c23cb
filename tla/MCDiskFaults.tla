---------------------------- MODULE MCDiskFaults ----------------------------
(***************************************************************************)
(* DiskRead with failing device and file operations.                       *)
(***************************************************************************)
EXTENDS DiskRead

MCSettings ==
    { [usr_sides |-> -1, usr_steps |-> -1, usr_tracks |-> 2, kind |-> 2,
       compat |-> TRUE, join |-> j, alternate |-> 1, retries |-> 1,
       min_retries |-> 0, min_sectors |-> 2, menu_intr |-> FALSE,
       menu_err |-> TRUE, replay |-> FALSE] : j \in BOOLEAN }

MCDisks ==
    { [cyls |-> 40, heads |-> 2, pitch |-> p, last |-> 82, bad |-> b,
       size |-> [i \in {0, 1} |-> 256]] : p \in {1, 2}, b \in {{}, {0}, {1}} }

MCLogs == {<<>>}
MCSignals == {"TERM"}
=============================================================================
