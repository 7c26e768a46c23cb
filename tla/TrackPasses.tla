---------------------------- MODULE TrackPasses ----------------------------
(***************************************************************************)
(* The passes of read_track() over one track: each is decoded byte by byte *)
(* (TrackDecoder), merged with the passes before it (DmkMerge), and judged *)
(* for a retry.  Menu, signals and guesses are DiskRead's subject.         *)
(*                                                                         *)
(* The track is a ring of cells, what the bit level makes of the flux when *)
(* nothing disturbs it.  A cell is a byte v with its mark; last says that  *)
(* it ends a field with a CRC.  Noise damages some cells of every pass.    *)
(***************************************************************************)
EXTENDS Integers, Sequences, FiniteSets, SequencesExt, FiniteSetsExt

CONSTANTS
    Hdr, MaxIdams, Gap1Plus, WrapMin, Sec128, Sec16,   \* see TrackDecoder
    TrackMax,   \* see DmkMerge
    Stale,
    Cases,      \* a sequence of records: settings o, the track's cells, the sectors
                \* on it as an image holds them, where a pass may begin, and how
                \* many cells noise may damage in a pass
    NoiseBytes  \* what a damaged byte may read as

ASSUME TrackPassesAssumption ==
    /\ {Hdr, MaxIdams, Sec128, Sec16, TrackMax} \subseteq Nat \ {0}
    /\ {Gap1Plus, WrapMin, Stale} \subseteq Nat

VARIABLES
    case,       \* which of the Cases
    pc,         \* "pass", "read", "judge" or "done"
    retry,      \* passes before this one
    pos,        \* next cell under the head
    d,          \* the decoder (and the working track in it)
    merged,     \* dmkf->track[track][side]
    stats,      \* dts: the statistics of the merged track
    noise,      \* cells that may still be damaged in this pass
    slipped     \* the cell before was lost

vars == <<case, pc, retry, pos, d, merged, stats, noise, slipped>>

o     == Cases[case].o
cells == Cases[case].cells
N     == Len(cells)

\* A CRC comes to zero where a field ends that was read as it was written.
CrcStep(crc, b) ==
    IF crc # "open" \/ ~b.ok THEN "bad" ELSE IF b.last THEN "zero" ELSE "open"
IsZero(crc) == crc = "zero"

Crc == INSTANCE TrackDecoder WITH
    CrcStart <- "open", CrcAfterA1 <- "open", CrcNext <- CrcStep, CrcIsZero <- IsZero

Marks    == {"none", "fm", "a1", "c2"}
CellType == [v : 0 .. 255, mark : Marks, last : BOOLEAN]

OptionType ==
    [ usr_encoding : Crc!Encodings, first_encoding : Crc!Encodings, mark : Marks,
      hole : BOOLEAN, join : BOOLEAN, iam_pos : Nat \cup {-1}, ignore : Int,
      quirk : SUBSET Crc!Quirks, sden : BOOLEAN, maxsecsize : Nat,
      tracklen : Hdr .. TrackMax, retries : Nat, min_retries : Nat, min_sectors : Nat ]

ASSUME CasesAssumption ==
    /\ NoiseBytes \subseteq 0 .. 255
    /\ \A i \in DOMAIN Cases :
          /\ Cases[i].o \in OptionType
          /\ Cases[i].cells \in Seq(CellType)
          /\ Cases[i].begin \subseteq 1 .. Len(Cases[i].cells)
          /\ Cases[i].noise \in Nat

M == INSTANCE DmkMerge

Init ==
    /\ case \in DOMAIN Cases
    /\ pc = "pass" /\ retry = 0 /\ pos = 1
    /\ d = Crc!NewDecoder(o, o.first_encoding, FALSE)
    /\ merged = M!NoTrack /\ stats = M!NoStats
    /\ noise = 0 /\ slipped = FALSE

\* With use_hole all is ignored until the index hole.
BeginPass ==
    /\ pc = "pass"
    /\ \E begin \in Cases[case].begin :
          /\ pos' = IF o.hole THEN 1 ELSE begin
          /\ LET new == Crc!NewDecoder(o, o.first_encoding, FALSE)
             IN d' = IF o.hole THEN Crc!DecodeIndex(o, new) ELSE new
    /\ pc' = "read" /\ slipped' = FALSE /\ noise' = Cases[case].noise
    /\ UNCHANGED <<case, retry, merged, stats>>

-----------------------------------------------------------------------------
(* The stream, from the index hole or from anywhere to the second index.   *)

AtHole    == pos > N
PassEnded == d.full \/ d.index_edge = 2

Encoded(mark) == IF mark = "fm" THEN "FM" ELSE "MFM"

Deliver(cell, ok) ==
    LET b  == [v |-> cell.v, ok |-> ok, last |-> cell.last]
        at == [d EXCEPT !.enc = IF cell.mark = "none" THEN @ ELSE Encoded(cell.mark),
                        !.splice = FALSE]
    IN d' = Crc!DecodeByte(o, at, b, cell.mark)

ReadCell ==
    /\ pc = "read" /\ ~PassEnded /\ ~AtHole
    /\ Deliver(cells[pos], ~slipped)
    /\ pos' = pos + 1 /\ slipped' = FALSE
    /\ UNCHANGED <<case, pc, retry, merged, stats, noise>>

Index ==
    /\ pc = "read" /\ ~PassEnded /\ AtHole
    /\ d' = Crc!DecodeIndex(o, d)
    /\ pos' = 1
    /\ UNCHANGED <<case, pc, retry, merged, stats, noise, slipped>>

\* What noise makes of a cell: another byte, with a mark or without one.
Damaged(cell) ==
    LET mark == IF cell.mark = "none" THEN o.mark ELSE cell.mark
    IN {[cell EXCEPT !.mark = to[1], !.v = to[2]] : to \in {"none", mark} \X NoiseBytes}
          \ {cell}

NoisyCell ==
    /\ pc = "read" /\ ~PassEnded /\ ~AtHole
    /\ noise > 0 /\ noise' = noise - 1
    /\ \E cell \in Damaged(cells[pos]) : Deliver(cell, FALSE)
    /\ pos' = pos + 1 /\ slipped' = FALSE
    /\ UNCHANGED <<case, pc, retry, merged, stats>>

LostCell ==
    /\ pc = "read" /\ ~PassEnded /\ ~AtHole
    /\ noise > 0 /\ noise' = noise - 1
    /\ pos' = pos + 1 /\ slipped' = TRUE
    /\ UNCHANGED <<case, pc, retry, d, merged, stats>>

-----------------------------------------------------------------------------
(* The end of a pass.                                                      *)

InsideSector == d.ibyte # -1 \/ d.awaiting_dam \/ d.dbyte > 0

\* What gw_post_process_track() finds is not in the track merged by then.
Working ==
    [idams |-> IF InsideSector THEN Crc!CutOff(d).idams ELSE d.idams,
     data  |-> d.data]

WorkingStats == [good |-> d.good, errcount |-> d.errcount, reused |-> 0]

EndPass ==
    /\ pc = "read" /\ PassEnded
    /\ \E best \in {IF retry > 0 /\ o.join
                   THEN M!Merge(merged, stats, Working, WorkingStats)
                   ELSE [track |-> Working, stats |-> WorkingStats]} :
          /\ merged' = best.track
          /\ stats'  = [best.stats EXCEPT !.errcount = @ + Crc!LateErrors(o, d)]
    /\ pc' = "judge"
    /\ UNCHANGED <<case, retry, pos, d, noise, slipped>>

Failing ==
    /\ \/ stats.errcount > 0
       \/ retry < o.min_retries
       \/ stats.good < o.min_sectors
    /\ retry < o.retries

Retry ==
    /\ pc = "judge" /\ Failing
    /\ retry' = retry + 1 /\ pc' = "pass"
    /\ pos' = 1 /\ d' = Crc!NewDecoder(o, o.first_encoding, FALSE)
    /\ noise' = 0 /\ slipped' = FALSE
    /\ UNCHANGED <<case, merged, stats>>

\* leave: the sectors reused count as good.
Accept ==
    /\ pc = "judge" /\ ~Failing
    /\ pc' = "done"
    /\ stats' = [stats EXCEPT !.good = @ + stats.reused]
    /\ UNCHANGED <<case, retry, pos, d, merged, noise, slipped>>

Next ==
    \/ BeginPass \/ ReadCell \/ Index \/ NoisyCell \/ LostCell
    \/ EndPass \/ Retry \/ Accept

Spec == Init /\ [][Next]_vars

-----------------------------------------------------------------------------
(* Properties.                                                             *)

\* Types.
TypeOK ==
    /\ pc \in {"pass", "read", "judge", "done"}
    /\ retry \in 0 .. o.retries /\ pos \in 1 .. N + 1 /\ noise \in 0 .. Cases[case].noise
    /\ slipped \in BOOLEAN
    /\ d.ibyte \in -1 .. 18 /\ d.dbyte >= -1 /\ d.ebyte \in -1 .. 6
    /\ d.enc \in Crc!Encodings /\ d.crc \in {"open", "zero", "bad"}
    /\ \A e \in ToSet(merged.idams) \cup ToSet(d.idams) :
          e.off \in Hdr .. TrackMax /\ {e.bad, e.cut} \subseteq BOOLEAN
    /\ stats \in [good : Nat, errcount : Nat, reused : Nat]

BadSectors(track) == {i \in DOMAIN track.idams : track.idams[i].bad}

\* errcount, which decides on retries, and the flags, which decide what is
\* replaced, are counted in different places: there is an error for every
\* flagged sector, in a pass and in the merged track.
FlagsAreErrors ==
    /\ Cardinality(BadSectors(merged)) <= stats.errcount
    /\ Cardinality(BadSectors(d)) <= d.errcount

\* A further pass never makes the track worse, once there is a track to make worse:
\* one of which nothing at all was read has no errors and is always replaced.
ErrorsNeverRise ==
    [][pc = "read" /\ pc' = "judge" /\ retry > 0 /\ o.join /\ merged.data # <<>>
          => stats'.errcount <= stats.errcount + Crc!LateErrors(o, d)]_vars

\* A sector that is not flagged, and that neither a mark inside its ID nor the end
\* of a pass has cut off, is as it was written, in every pass and however passes
\* are merged: its ID, and its data from the first byte behind the ID on that looks
\* like a data address mark (dmk2gw goes by that).
AsWritten(track, e) ==
    LET Has(bytes, off) == M!Bytes(track, off, Len(bytes)) = bytes
    IN \E sector \in Cases[case].sectors :
          LET after == {off \in e.off + Len(sector.id) .. Hdr + Len(track.data) :
                           M!Bytes(track, off, 1)[1] \in Crc!DamLike}
          IN /\ Has(sector.id, e.off)
             /\ after # {} /\ Has(sector.data, Min(after))

SectorsAsWritten ==
    pc \in {"judge", "done"} =>
        \A e \in ToSet(merged.idams) : e.bad \/ e.cut \/ AsWritten(merged, e)

\* The good sectors reported, those reused among them, are sectors of the image that
\* are not flagged; where flags are set at all (join), no sector of the image that is
\* neither flagged nor cut off is left out.  One that has been cut off may be among
\* them: a later pass can have reused it.
Good(idams)  == {i \in DOMAIN idams : ~idams[i].bad}
Whole(idams) == {i \in DOMAIN idams : ~idams[i].bad /\ ~idams[i].cut}

ReportedGood ==
    pc = "done" /\ "EXTRA_CRC" \notin o.quirk =>
        /\ stats.good <= Cardinality(Good(merged.idams))
        /\ o.join => stats.good >= Cardinality(Whole(merged.idams))

\* The IDAM table stays in order and within the track, and an ID that may be taken
\* back has an entry.  Only when the track is full but for its last byte, which
\* dmk_data() leaves free, can marks that are no longer stored get the same pointer.
TableInOrder ==
    /\ \A track \in {merged, d} :
          \A i, j \in DOMAIN track.idams :
              i < j => \/ track.idams[i].off < track.idams[j].off
                       \/ {track.idams[i].off, track.idams[j].off} = {o.tracklen - 1}
    /\ d.ibyte # -1 => d.idams # <<>>
=============================================================================
