----------------------------- MODULE BitDecoder -----------------------------
(***************************************************************************)
(* The bit level of the flux decoder: pulses become half-cells, these are  *)
(* shifted into an accumulator, address marks are looked for at every one  *)
(* of them, and bytes go to the byte level (TrackDecoder).                 *)
(*                                                                         *)
(* The accumulators are tuples of 64 half-cells, the oldest first.         *)
(***************************************************************************)
EXTENDS TrackDecoder

CONSTANT WriteSplice  \* half-cells after a field in which no mark is looked for

Front64 == 1 .. 64

NewBits(d) ==
    [ acc |-> [i \in Front64 |-> 0], tacc |-> [i \in Front64 |-> 0],
      cnt |-> 0, mark_after |-> -1, premark |-> 0, splice |-> 0,
      adj |-> 0,    \* thresh_adj, doubled
      d |-> d ]

\* Half-cells from hexadecimal digits.
Halfcells(digits) ==
    [i \in 1 .. 4 * Len(digits) |->
        (digits[(i - 1) \div 4 + 1] \div 2^(3 - ((i - 1) % 4))) % 2]

QuirkyIam == Halfcells(<<8, 10, 10, 2, 2, 2, 10, 8, 8>>)
FmMarks   == {Halfcells(<<8, 10, 10, 2, 10, 2, 10, 8, 8>>)}
             \cup {Halfcells(<<8, 10, 10, 2, 2, 2>> \o low) :
                      low \in {<<10, 10, 8>>, <<8, 8, 8>>, <<8, 8, 10>>, <<8, 10, 8>>,
                               <<8, 10, 10>>, <<10, 8, 10>>}}
BackwardDam == Halfcells(<<10, 2, 2, 2, 10, 8, 8, 8, 8>>)

TwoC2      == Halfcells(<<5, 2, 2, 4, 5, 2, 2, 4>>)
TwoA1      == Halfcells(<<4, 4, 8, 9, 4, 4, 8, 9>>)
QuirkyA1   == Halfcells(<<4, 4, 8, 9, 4, 4, 10, 9>>)
GapOf00    == [i \in 1 .. 32 |-> (i + 1) % 2]
GapOf4E    == Halfcells(<<9, 2, 5, 4, 9, 2, 5, 4>>)

InField(d) == d.ibyte # NoCount \/ d.dbyte # NoCount \/ d.ebyte # NoCount

-----------------------------------------------------------------------------
(* Marks, looked for at every half-cell; finding one aligns the bytes.     *)

MaybeFmMark(o, f) ==
    /\ o.usr_encoding # "MFM" /\ f.cnt >= 36 /\ f.splice = 0
    /\ f.d.enc = "MFM" => ~InField(f.d) /\ f.mark_after = -1

DetectFmMark(o, f) ==
    LET last == SubSeq(f.acc, 29, 64)
    IN CASE ~MaybeFmMark(o, f) -> f
         [] MaybeFmMark(o, f) /\ (last \in FmMarks \/ (last = QuirkyIam /\ "IAM" \in o.quirk)) ->
              [f EXCEPT !.d.enc = "FM", !.mark_after = 32, !.premark = 0,
                        !.cnt = IF @ \in 48 .. 63 THEN 64 ELSE IF @ \in 33 .. 47 THEN 32 ELSE @]
         [] MaybeFmMark(o, f) /\ last = BackwardDam /\ f.mark_after <= 0 /\ f.d.good = 0 ->
              [f EXCEPT !.d.enc = "FM", !.d.backward = @ + 1]
         [] OTHER -> f

Premark(f, value) ==
    LET cnt == IF f.cnt \in 49 .. 63 THEN 64 ELSE f.cnt
    IN [f EXCEPT !.d.enc = "MFM", !.premark = value, !.cnt = cnt, !.mark_after = cnt]

DetectPremark(o, f) ==
    LET last == SubSeq(f.acc, 33, 64)
        gap  == "EXTRA" \notin o.quirk /\ f.mark_after < 0 /\ ~InField(f.d)
    IN CASE o.usr_encoding \in {"FM", "RX02"} \/ f.cnt < 32 \/ f.splice > 0 -> f
         [] OTHER ->
              CASE last = TwoC2 -> Premark(f, 194)
                [] last = TwoA1 \/ (last = QuirkyA1 /\ "PREMARK" \in o.quirk) -> Premark(f, 161)
                [] last = GapOf00 /\ gap /\ f.d.enc = "MFM" /\ f.cnt % 2 = 0 ->
                     [f EXCEPT !.cnt = @ - 1]
                [] last = GapOf4E /\ gap ->
                     [f EXCEPT !.d.enc = "MFM",
                               !.cnt = IF @ \in 49 .. 63 THEN 48 ELSE @]
                [] OTHER -> f

\* Mutant: wherever the pattern lies in the byte.
UndoTransform_Anywhere(f) ==
    IF f.cnt >= 4 /\ SubSeq(f.acc, 61, 64) = <<1, 0, 0, 0>>
    THEN [f EXCEPT !.tacc = SubSeq(@, 1, 60) \o <<0, 1, 0, 1>>]
    ELSE f

\* RX02's transform of 11110 is undone four half-cells at a time.
UndoTransform(f) ==
    IF f.cnt >= 4 /\ f.cnt % 2 = 0 /\ SubSeq(f.acc, 61, 64) = <<1, 0, 0, 0>>
    THEN [f EXCEPT !.tacc = SubSeq(@, 1, 60) \o <<0, 1, 0, 1>>]
    ELSE f

-----------------------------------------------------------------------------
(* A byte.                                                                 *)

\* Eight FM clocks at their places, or i half-cells late.
FmClocks(acc, i) ==
    \A n \in 0 .. 7 : acc[4*n + 1 + i] = 1 /\ acc[4*n + 2 + i] = 0 /\ acc[4*n + 4 + i] = 0

Shifts(f) == {i \in 1 .. 3 : FmClocks(f.acc, i)}

Byte(bits) == 128 * bits[1] + 64 * bits[2] + 32 * bits[3] + 16 * bits[4]
              + 8 * bits[5] + 4 * bits[6] + 2 * bits[7] + bits[8]

FmLikeEnc(f) == f.d.enc \in {"FM", "MIXED"}

Value(f) ==
    CASE FmLikeEnc(f)     -> Byte([k \in 1 .. 8 |-> f.acc[4 * k - 1]])
      [] f.d.enc = "MFM"  -> Byte([k \in 1 .. 8 |-> f.acc[2 * k]])
      [] f.d.enc = "RX02" -> Byte([k \in 1 .. 8 |-> f.tacc[2 * k]])

MarkOf(f) ==
    CASE f.mark_after # 0                   -> "none"
      [] f.mark_after = 0 /\ f.premark = 161 -> "a1"
      [] f.mark_after = 0 /\ f.premark = 194 -> "c2"
      [] OTHER                              -> "fm"

\* mfm_valid_clock() of the 17 half-cells from the i-th.
ValidMfmClock(acc, i) ==
    \A k \in {2 * n : n \in 1 .. 8} :
        acc[14 + i + k] = 1 <=> acc[13 + i + k] = 0 /\ acc[15 + i + k] = 0

\* A wrong MFM clock pattern is seen before the byte is put out.
PredetectClock(f) ==
    IF /\ f.d.enc = "MFM" /\ f.cnt = 48
       /\ ~ValidMfmClock(f.acc, 1) /\ ValidMfmClock(f.acc, 2)
    THEN [f EXCEPT !.cnt = @ - 1] ELSE f

PutByte(o, f) ==
    LET b    == [v |-> Value(f)]
        mark == MarkOf(f)
        cnt  == IF FmLikeEnc(f) THEN 32 ELSE 48
        isMark == IsIam(f.d, b, mark) \/ IsIdam(f.d, b, mark) \/ IsDam(o, f.d, b, mark)
    IN CHOOSE g \in {IF isMark THEN after ELSE PredetectClock(after) :
          after \in {[f EXCEPT !.cnt = cnt,
                               !.mark_after = IF @ = 0 THEN -1 ELSE @,
                               !.splice = IF d.splice THEN WriteSplice ELSE @,
                               !.d = d] :
          d \in {DecodeByte(o, [f.d EXCEPT !.splice = FALSE], b, mark)}}} : TRUE

\* With 64 half-cells there is a byte, unless the FM clocks are a bit late.
TakeByte(o, f) ==
    CASE f.cnt < 64 -> f
      [] f.cnt >= 64 /\ FmLikeEnc(f) /\ f.mark_after # 0 /\ ~FmClocks(f.acc, 0)
         /\ Shifts(f) # {} -> [f EXCEPT !.cnt = @ - (CHOOSE i \in Shifts(f) :
                                                        \A j \in Shifts(f) : i <= j)]
      [] OTHER -> PutByte(o, f)

Shift(f, bit) ==
    [f EXCEPT !.acc = Tail(@) \o <<bit>>, !.tacc = Tail(@) \o <<bit>>,
              !.cnt = @ + 1,
              !.mark_after = IF @ >= 0 THEN @ - 1 ELSE @,
              !.splice = IF @ > 0 THEN @ - 1 ELSE @]

\* gwflux_decode_bit()  (The intermediate records are bound for TLC.)
DecodeBit(o, f, bit) ==
    IF f.d.full THEN f
    ELSE CHOOSE g \in {TakeByte(o, undone) :
            undone \in {UndoTransform(found) :
            found \in {DetectPremark(o, fm) :
            fm \in {DetectFmMark(o, shifted) :
            shifted \in {Shift(f, bit)}}}}} : TRUE

DecodeBits(o, f, bits) ==
    LET upto[n \in 0 .. Len(bits)] ==
            IF n = 0 THEN f
            ELSE CHOOSE g \in {DecodeBit(o, before, bits[n]) : before \in {upto[n - 1]}} : TRUE
    IN upto[Len(bits)]

-----------------------------------------------------------------------------
(* Pulses, by the thresholds of a media encoding gme.                      *)

Below(f, pulse, thresh) == 2 * pulse + f.adj <= 2 * thresh

\* Half-cells of a pulse; the next one is judged by what this one was off.
PulseCells(o, f, pulse, gme) ==
    IF o.usr_encoding = "FM"
    THEN IF Below(f, pulse, gme.fm) THEN 2 ELSE 4
    ELSE CASE "MFM_CLOCK" \in o.quirk /\ Below(f, pulse, gme.mfm0) -> 1
           [] Below(f, pulse, gme.mfm1)
              /\ ~("MFM_CLOCK" \in o.quirk /\ Below(f, pulse, gme.mfm0)) -> 2
           [] ~Below(f, pulse, gme.mfm1) /\ Below(f, pulse, gme.mfm2) -> 3
           [] OTHER -> 4

\* gwflux_decode_pulse(): nothing before the index hole that a pass is cued by.
DecodePulse(o, f, pulse, gme) ==
    LET len == PulseCells(o, f, pulse, gme)
    IN IF o.hole /\ f.d.index_edge = 0 THEN f
       ELSE DecodeBits(o, [f EXCEPT !.adj = pulse - len * gme.mfmshort],
                       [i \in 1 .. len |-> IF i = 1 THEN 1 ELSE 0])

\* gw_decode_flush()
Flush(o, f) == DecodeBits(o, f, [i \in Front64 |-> i % 2])
=============================================================================
