-------------------------- MODULE MCDiskDivergence --------------------------
(***************************************************************************)
(* DiskRead in the situations in which gw2dmk does something else than its *)
(* documentation says.                                                     *)
(***************************************************************************)
EXTENDS DiskRead

Default ==
    [usr_sides |-> 2, usr_steps |-> 1, usr_tracks |-> 1, kind |-> 2,
     compat |-> TRUE, join |-> TRUE, alternate |-> 0, retries |-> 1,
     min_retries |-> 0, min_sectors |-> 0, menu_intr |-> FALSE,
     menu_err |-> FALSE, replay |-> FALSE]

Disk(cyls, heads, pitch, z) ==
    [cyls |-> cyls, heads |-> heads, pitch |-> pitch, last |-> 82, bad |-> {},
     size |-> [i \in {0, 1} |-> z]]

\* -m 2 -a 2
AlternateSettings == {[Default EXCEPT !.usr_steps = 2, !.alternate = 2]}
DoubleStepDisk    == {Disk(40, 2, 2, 256)}

\* -M e
MenuSettings == {[Default EXCEPT !.menu_err = TRUE, !.retries = 0]}

\* -t 1 -s 2
PlainSettings == {Default}

\* -R of a capture made with -m 2
ReplaySettings ==
    {[Default EXCEPT !.usr_sides = -1, !.usr_steps = -1, !.usr_tracks = -1,
                     !.replay = TRUE]}
DoubleStepLog ==
    {[p \in { 2 * i : i \in 0 .. 40 } \X {0, 1} |-> 1]}

PlainDisk == {Disk(80, 2, 1, 256)}
NoLog     == {<<>>}
NoSignal  == {}
Terminate == {"TERM"}
=============================================================================
