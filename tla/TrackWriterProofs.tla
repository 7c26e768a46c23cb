------------------------- MODULE TrackWriterProofs -------------------------
(***************************************************************************)
(* What follows from the promise of TrackWriter, for every set of places,  *)
(* every image and every order of its tracks.  DiskWrite implements that   *)
(* promise (checked by TLC), so it holds of dmk2gw too.                    *)
(***************************************************************************)
EXTENDS TrackWriter, TLAPS

\* Kept, and the domains of disk and told: without them a step that changes
\* one place would say nothing of the others.
KeptInv ==
    /\ DOMAIN disk = Places /\ disk = [p \in Places |-> disk[p]]
    /\ told \in [Places -> {"untouched", "begun", "written"}]
    /\ Kept

\* Before the first track nothing is reported and nothing has changed.
LEMMA InitKept == Init => KeptInv
  BY DEF Init, KeptInv, Kept

\* Beginning, writing and finishing a track (write_track()) keep every other
\* place, whatever the order of tracks is.
LEMMA StepKept == KeptInv /\ [Next]_twVars => KeptInv'
<1> SUFFICES ASSUME KeptInv, [Next]_twVars PROVE KeptInv'
  OBVIOUS
<1>1. CASE UNCHANGED twVars
  BY <1>1 DEF KeptInv, Kept, twVars
<1>2. ASSUME NEW i \in 1 .. Len(Order), Begin(i) PROVE KeptInv'
  BY <1>2 DEF KeptInv, Kept, Begin
<1>3. ASSUME NEW i \in 1 .. Len(Order), Write(i) PROVE KeptInv'
  <2> DEFINE q == Order[i]
  <2>1. told' = told /\ told[q] = "begun"
    BY <1>3 DEF Write
  <2>2. disk' = [disk EXCEPT ![q] = disk'[q]]
    BY <1>3 DEF Write
  <2>3. DOMAIN disk' = Places /\ disk' = [p \in Places |-> disk'[p]]
    BY <2>2 DEF KeptInv
  <2>4. \A p \in Places : p # q => disk'[p] = disk[p]
    BY <2>2 DEF KeptInv
  <2>5. Kept'
    BY <2>1, <2>4 DEF KeptInv, Kept
  <2> QED
    BY <2>1, <2>3, <2>5 DEF KeptInv
<1>4. ASSUME NEW i \in 1 .. Len(Order), Finish(i) PROVE KeptInv'
  BY <1>4 DEF KeptInv, Kept, Finish
<1> QED
  BY <1>1, <1>2, <1>3, <1>4 DEF Next

\* A track that dmk2gw has reported as written stays on the diskette, and a
\* place that no track was sent to keeps what it held, however often tracks
\* are written again: dmk2gw() and write_track().
THEOREM WrittenTracksKept == Spec => []Kept
<1>1. KeptInv => Kept
  BY DEF KeptInv
<1> QED
  BY InitKept, StepKept, <1>1, PTL DEF Spec
=============================================================================
