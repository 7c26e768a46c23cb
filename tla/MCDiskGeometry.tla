--------------------------- MODULE MCDiskGeometry ---------------------------
(***************************************************************************)
(* DiskRead with the real track counts: clean disks in every kind of drive *)
(* whose geometry gw2dmk has to find out by itself, and replayed logs:     *)
(* whole captures of guessing runs, and captures that end early or hold    *)
(* spare passes.                                                           *)
(***************************************************************************)
EXTENDS DiskRead

Guessing(kind, replay, minr) ==
    [usr_sides |-> -1, usr_steps |-> -1, usr_tracks |-> -1, kind |-> kind,
     compat |-> TRUE, join |-> TRUE, alternate |-> 0, retries |-> 0,
     min_retries |-> minr, min_sectors |-> 0, menu_intr |-> FALSE,
     menu_err |-> FALSE, replay |-> replay]

MCSettings == { Guessing(k, FALSE, 0) : k \in {1, 2} }
              \cup { Guessing(2, TRUE, n) : n \in {0, 2} }

SideSizes == { [i \in {0, 1} |-> 256],
               [i \in {0, 1} |-> IF i = 0 THEN 256 ELSE 512] }

Of(cyls, pitch, last) ==
    { [cyls |-> c, heads |-> n, pitch |-> pitch, last |-> last, bad |-> {}, size |-> z] :
        c \in cyls, n \in {1, 2}, z \in SideSizes }

MCDisks == Of({77, 80}, 1, 82)       \* 80-track disks in an 80-track drive
      \cup Of({80}, 1, 79)           \* whose heads stop at the last track
      \cup Of({35, 40}, 2, 82)       \* 40-track disks in an 80-track drive
      \cup Of({35, 40}, 1, 39)       \* 40-track disks in a 40-track drive

\* A capture of a run that tried single steps first: side 0 of position 1
\* was blank, and positions 0 were read twice.
Captured(positions, passes) ==
    [p \in { <<n, side>> : n \in positions, side \in {0, 1} } \cup {<<1, 0>>} |->
       IF p = <<1, 0>> THEN 1 ELSE IF p[1] = 0 THEN 1 + passes ELSE passes]

Even(n) == { 2 * i : i \in 0 .. n }

\* One side of the last position lost.
Cut(f, p) == [q \in DOMAIN f \ {p} |-> f[q]]

MCLogs == { Captured(Even(40), 1), Captured(Even(40), 2),
            Captured(Even(5), 1), Cut(Captured(Even(5), 2), <<10, 1>>) }
MCSignals == {}
=============================================================================
