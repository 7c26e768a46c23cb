---------------------------- MODULE TrackWriter ----------------------------
(***************************************************************************)
(* What dmk2gw promises of the diskette it writes.  Tracks are written one *)
(* after the other; while one is being written its place may hold          *)
(* anything; the program goes on only when it holds the track; no other    *)
(* place changes.                                                          *)
(***************************************************************************)
EXTENDS Naturals, Sequences

CONSTANTS
    Places,    \* places of the diskette
    Order,     \* the places of the image's tracks, in the order of writing
    Data,      \* the recording each of those places is to hold
    Before     \* what the diskette held at first

VARIABLES
    disk,      \* the recording at each place
    told       \* what the user may conclude from dmk2gw's progress

twVars == <<disk, told>>

Init ==
    /\ disk = [p \in Places |-> Before[p]]
    /\ told = [p \in Places |-> "untouched"]

Begin(i) ==
    /\ \A j \in 1 .. i - 1 : told[Order[j]] = "written"
    /\ told' = [told EXCEPT ![Order[i]] = "begun"]
    /\ UNCHANGED disk

Write(i) ==
    /\ told[Order[i]] = "begun"
    /\ disk' = [disk EXCEPT ![Order[i]] = disk'[Order[i]]]
    /\ UNCHANGED told

Finish(i) ==
    /\ told[Order[i]] = "begun"
    /\ disk[Order[i]] = Data[Order[i]]
    /\ told' = [told EXCEPT ![Order[i]] = "written"]
    /\ UNCHANGED disk

Next == \E i \in 1 .. Len(Order) : Begin(i) \/ Write(i) \/ Finish(i)

Spec == Init /\ [][Next]_twVars

-----------------------------------------------------------------------------

\* A track reported as written is on the diskette, and a place no track of
\* the image was sent to keeps what it held.
Kept ==
    \A p \in Places :
        /\ told[p] = "written" => disk[p] = Data[p]
        /\ told[p] = "untouched" => disk[p] = Before[p]
=============================================================================
