---------------------------- MODULE MCDiskControl ----------------------------
(***************************************************************************)
(* DiskRead on the first tracks of a disk, with noise, retries, the menu   *)
(* and signals at every point of the loop.                                 *)
(***************************************************************************)
EXTENDS DiskRead

Command(sd, st, tr, k) ==
    [usr_sides |-> sd, usr_steps |-> st, usr_tracks |-> tr, kind |-> k,
     compat |-> TRUE, join |-> TRUE, alternate |-> 0, retries |-> 1,
     min_retries |-> 0, min_sectors |-> 0, menu_intr |-> TRUE,
     menu_err |-> TRUE, replay |-> FALSE]

MCSettings == { Command(-1, -1, 2, 1), Command(-1, -1, 2, 2),
                Command(2, 1, 1, 2) }

MCDisks ==
    { [cyls |-> 80, heads |-> n, pitch |-> 1, last |-> 82, bad |-> {},
       size |-> [i \in {0, 1} |-> 512]] : n \in {1, 2} }
    \cup
    { [cyls |-> 40, heads |-> 2, pitch |-> 2, last |-> 82, bad |-> {},
       size |-> [i \in {0, 1} |-> 256]] }

MCLogs == {<<>>}
MCSignals == {"INT", "TERM"}
=============================================================================
