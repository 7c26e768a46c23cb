------------------------------ MODULE DmkMerge ------------------------------
(***************************************************************************)
(* merge_sectors(): sectors read with errors are replaced by copies from   *)
(* the track merged so far, and the best of the tracks at hand is kept.    *)
(*                                                                         *)
(* A track is its IDAM table (entries with off, bad and enc) and its data; *)
(* statistics are the good sectors, the errors and the reused sectors.     *)
(***************************************************************************)
EXTENDS Integers, Sequences, FiniteSetsExt

CONSTANTS
    Hdr,        \* DMK_TKHDR_SIZE
    TrackMax,   \* DMKRD_TRACKLEN_MAX
    Stale       \* what the memory behind a track's data holds

LOCAL Pos(off) == off - Hdr + 1

NoTrack == [idams |-> <<>>, data |-> <<>>]
NoStats == [good |-> 0, errcount |-> 0, reused |-> 0]

Length(track) == IF track.data = <<>> THEN 0 ELSE Hdr + Len(track.data)

\* memcpy() of n bytes at an offset into a track.
Bytes(track, off, n) ==
    [i \in 1 .. n |-> LET p == Pos(off) + i - 1
                      IN IF p \in DOMAIN track.data THEN track.data[p] ELSE Stale]

\* dmk_get_phys_sector(): the sectors whose pointers are within bounds.
Sectors(track) ==
    LET wrong == {i \in DOMAIN track.idams : track.idams[i].off > TrackMax - 10}
    IN IF wrong = {} THEN DOMAIN track.idams ELSE 1 .. Min(wrong) - 1

\* dmk_get_phys_sector_len(): -1 when the next sector lies before this one.
SectorLen(track, n, tracklen) ==
    LET off == track.idams[n].off
    IN IF n + 1 \in Sectors(track)
       THEN LET next == track.idams[n + 1].off IN IF off >= next THEN -1 ELSE next - off
       ELSE tracklen - (off - Hdr)

\* dmk_get_sector_num(): FM bytes are stored twice.
SectorNum(track, n) ==
    LET id == Bytes(track, track.idams[n].off, 7)
    IN IF id[2] = 254 THEN id[7] ELSE id[4]

\* copy_preamble()
HasPreamble(track) == 1 \in Sectors(track) /\ track.idams[1].off > Hdr
Preamble(track)    == SubSeq(track.data, 1, track.idams[1].off - Hdr)

\* Mutant: the pointer of the track it comes from.
Copied_OldOffset(tmp, track, n, len) ==
    [tmp EXCEPT !.data  = @ \o Bytes(track, track.idams[n].off, len),
                !.idams = Append(@, track.idams[n])]

Copied(tmp, track, n, len) ==
    [tmp EXCEPT !.data  = @ \o Bytes(track, track.idams[n].off, len),
                !.idams = Append(@, [track.idams[n] EXCEPT !.off = Hdr + Len(tmp.data)])]

Fits(tmp, len) == Hdr + Len(tmp.data) + len <= TrackMax

(***************************************************************************)
(* Sector cur of the track just read goes to tmp, or in its place the      *)
(* first good one of the same number merged so far; the first sector can   *)
(* only be replaced by the first, along with the bytes before it.          *)
(***************************************************************************)
PreviousLen(merged, p) == SectorLen(merged, p, Length(merged))

Alternatives(merged, working, cur) ==
    {p \in Sectors(merged) :
        /\ SectorNum(merged, p) = SectorNum(working, cur)
        /\ ~merged.idams[p].bad
        /\ cur = 1 => p = 1 /\ HasPreamble(merged)}

MergeSector(merged, working, tmp, cur) ==
    LET alts  == IF working.idams[cur].bad THEN Alternatives(merged, working, cur) ELSE {}
        begun == IF cur = 1 /\ alts # {} THEN [tmp EXCEPT !.data = @ \o Preamble(merged)]
                 ELSE tmp
        usable == {p \in alts : PreviousLen(merged, p) > 0
                                /\ Fits(begun, PreviousLen(merged, p))}
        own    == IF cur = 1 /\ HasPreamble(working)
                  THEN [begun EXCEPT !.data = @ \o Preamble(working)] ELSE begun
        len    == SectorLen(working, cur, Length(working) - Hdr)
    IN IF usable # {}
       THEN LET p == Min(usable)
            IN [Copied(begun, merged, p, PreviousLen(merged, p)) EXCEPT
                   !.reused = @ + 1,
                   !.errcount = IF @ > 0 THEN @ - 1 ELSE @]
       ELSE IF (cur = 1 /\ ~HasPreamble(working)) \/ len < 0 \/ ~Fits(own, len)
            THEN [own EXCEPT !.overflow = TRUE]
            ELSE Copied(own, working, cur, len)

\* Each sector adds to what those before it have left.  (The arguments are
\* bound, here and below, so that TLC evaluates them once.)
MergedSectors(merged, working, errcount) ==
    LET n == Cardinality(Sectors(working))
        upto[k \in 0 .. n] ==
            IF k = 0
            THEN [idams |-> <<>>, data |-> <<>>, overflow |-> FALSE, reused |-> 0,
                  errcount |-> errcount]
            ELSE CHOOSE t \in {MergeSector(merged, working, before, k)
                                : before \in {upto[k - 1]}} : TRUE
    IN upto[n]

\* The better one of the track just read and what became of it in tmp.
Better(working, wstats, tmp) ==
    IF ~tmp.overflow /\ tmp.errcount < wstats.errcount
    THEN [track |-> [idams |-> tmp.idams, data |-> tmp.data],
          stats |-> [good |-> wstats.good, errcount |-> tmp.errcount,
                     reused |-> tmp.reused]]
    ELSE [track |-> working, stats |-> [wstats EXCEPT !.reused = 0]]

\* Mutant: the track with fewer reused sectors is kept.
KeepsMerged_Reused(merged, mstats, best) ==
    Length(merged) > 0 /\ mstats.reused < best.stats.reused

KeepsMerged(merged, mstats, best) ==
    /\ Length(merged) > 0
    /\ \/ mstats.errcount < best.stats.errcount
       \/ /\ mstats.errcount = best.stats.errcount
          /\ mstats.reused < best.stats.reused

Kept(merged, mstats, best) ==
    IF KeepsMerged(merged, mstats, best) THEN [track |-> merged, stats |-> mstats] ELSE best

Merge(merged, mstats, working, wstats) ==
    IF wstats.errcount = 0
    THEN [track |-> working, stats |-> [wstats EXCEPT !.reused = 0]]
    ELSE CHOOSE t \in {Kept(merged, mstats, Better(working, wstats, tmp))
                        : tmp \in {MergedSectors(merged, working, wstats.errcount)}} : TRUE
=============================================================================
