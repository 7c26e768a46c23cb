---------------------------- MODULE TrackEncoder ----------------------------
(***************************************************************************)
(* dmk2pulses(): the bytes of a DMK track are given their encodings and    *)
(* cleaned up, then turned into half-cells and the ticks between flux      *)
(* transitions.                                                            *)
(*                                                                         *)
(* A track is its IDAM table (entries with off and enc) and its data from  *)
(* the end of the table on; what extra_track_info says is a record eti.    *)
(***************************************************************************)
EXTENDS SecSize, Sequences

CONSTANTS
    Hdr,      \* DMK_TKHDR_SIZE
    MfmGap3z, \* zeros before a mark in MFM
    FmGap3z   \* and in FM

LOCAL Never == 32767

FmLike  == {"FM", "FM_IAM", "FM_AM"}
MfmLike == {"MFM", "MFM_IAM", "MFM_AM"}
IamByte  == 252
IdamByte == 254
DamBytes == (248 .. 251) \cup {253}

-----------------------------------------------------------------------------
(* The encodings, byte by byte, in a record s.                             *)

Pointer(track, n) ==
    IF n \in DOMAIN track.idams
    THEN [off |-> track.idams[n].off,
          enc |-> IF track.idams[n].enc = "MFM" THEN "MFM" ELSE "FM"]
    ELSE [off |-> Never, enc |-> "FM"]

NewClean(track) ==
    LET p == Pointer(track, 1)
    IN [ data  |-> track.data,
         encs  |-> [i \in DOMAIN track.data |-> "SKIP"],
         datap |-> Hdr,
         idams |-> 1, idamp |-> 0,
         first_idamp |-> IF p.off = Never THEN 0 ELSE p.off,
         next_idamp  |-> p.off, encoding |-> p.enc, next_encoding |-> p.enc,
         dam_min |-> 0, dam_max |-> 0, got_iam |-> 0,
         skip |-> FALSE, rx02_data |-> 0, sector_data |-> 0 ]

At(s, off) == IF off - Hdr + 1 \in DOMAIN s.data THEN s.data[off - Hdr + 1] ELSE 0

\* The pointer reached at datap is the current one, and the next is looked up.
NextPointer(s, track, eti) ==
    LET p     == Pointer(track, s.idams + 1)
        times == IF s.next_encoding = "FM" THEN eti.fmtimes ELSE 1
        min   == s.next_idamp + 7 * times
    IN IF s.datap < s.next_idamp THEN s
       ELSE [s EXCEPT !.idams = @ + 1, !.idamp = s.next_idamp,
                      !.encoding = s.next_encoding,
                      !.next_idamp = p.off,
                      !.next_encoding = IF p.off = Never THEN s.next_encoding ELSE p.enc,
                      !.dam_min = min,
                      !.dam_max = min + (IF s.next_encoding = "FM" THEN 30 * times ELSE 43)]

\* Clean up: FM zeros before a mark; in MFM three premark bytes, and zeros
\* before them.
Before(s, from, to) == {i \in DOMAIN s.data : i + Hdr - 1 \in s.datap - from .. s.datap - to}

\* Mutant: both copies of a zero are encoded.
MarkFM_NoSkip(s, mark, eti) ==
    LET zeros == Before(s, FmGap3z * eti.fmtimes, 1)
    IN [s EXCEPT
          !.data = [i \in DOMAIN @ |-> IF i \in zeros THEN 0 ELSE @[i]],
          !.encs = [i \in DOMAIN @ |-> CASE i = s.datap - Hdr + 1 -> mark
                                         [] i \in zeros           -> "FM"
                                         [] OTHER                 -> @[i]],
          !.skip = TRUE]

MarkFM(s, mark, eti) ==
    LET zeros == Before(s, FmGap3z * eti.fmtimes, 1)
        here  == s.datap - Hdr + 1
    IN [s EXCEPT
          !.data = [i \in DOMAIN @ |-> IF i \in zeros THEN 0 ELSE @[i]],
          !.encs = [i \in DOMAIN @ |->
                       CASE i = here    -> mark
                         [] i \in zeros -> IF eti.fmtimes = 2 /\ (i + Hdr - 1) % 2 = 1
                                           THEN "SKIP" ELSE "FM"
                         [] OTHER       -> @[i]],
          !.skip = TRUE]

MarkMFM(s, premark, byte) ==
    LET marks == Before(s, 3, 1)
        zeros == Before(s, 3 + MfmGap3z, 4)
        here  == s.datap - Hdr + 1
    IN [s EXCEPT
          !.data = [i \in DOMAIN @ |-> CASE i \in marks -> byte
                                         [] i \in zeros -> 0
                                         [] OTHER       -> @[i]],
          !.encs = [i \in DOMAIN @ |-> CASE i \in marks -> premark
                                         [] i \in zeros \cup {here} -> "MFM"
                                         [] OTHER       -> @[i]],
          !.skip = TRUE]

AddressMark(s, eti) ==
    IF s.encoding = "FM" THEN MarkFM(s, "FM_AM", eti) ELSE MarkMFM(s, "MFM_AM", 161)

\* The size code is taken four bytes after the mark, doubled or not.  RX02 data
\* are followed by one byte FF.
DataAddressMark(s, eti) ==
    LET s1   == [AddressMark(s, eti) EXCEPT !.dam_max = 0]
        size == SecSizeOf(At(s, s.idamp + 4), "RX02", 3, eti.quirks) + 2
        ffp  == eti.fmtimes + s.datap + size - Hdr + 1
    IN IF eti.rx02 /\ At(s, s.datap) \in {249, 253}
       THEN [s1 EXCEPT !.rx02_data = size + 1,
                       !.data = [i \in DOMAIN @ |-> IF i = ffp THEN 255 ELSE @[i]]]
       ELSE s1

IndexAddressMark(s, eti) ==
    [(IF s.encoding = "FM" THEN MarkFM(s, "FM_IAM", eti) ELSE MarkMFM(s, "MFM_IAM", 194))
        EXCEPT !.got_iam = s.datap]

IsIdam(s) == s.datap = s.idamp /\ At(s, s.datap) = IdamByte
IsDam(s)  == s.datap \in s.dam_min .. s.dam_max /\ At(s, s.datap) \in DamBytes
IsIam(s, eti) ==
    /\ s.datap <= s.first_idamp /\ s.got_iam = 0
    /\ At(s, s.datap) = IamByte
    /\ \/ s.encoding = "MFM" /\ At(s, s.datap - 1) = 194
       \/ s.encoding = "FM" /\ At(s, s.datap - eti.fmtimes) \in {0, 255}

Plain(s, encoding) == [s EXCEPT !.encs[s.datap - Hdr + 1] = encoding]

Classify(s, eti) ==
    CASE IsIdam(s)                                -> AddressMark(s, eti)
      [] ~IsIdam(s) /\ IsDam(s)                   -> DataAddressMark(s, eti)
      [] ~IsIdam(s) /\ ~IsDam(s) /\ IsIam(s, eti) -> IndexAddressMark(s, eti)
      [] OTHER ->
           CASE s.rx02_data > 0 /\ eti.fmtimes = 2 /\ s.skip ->
                  [Plain(s, "SKIP") EXCEPT !.skip = FALSE]
             [] s.rx02_data > 0 /\ ~(eti.fmtimes = 2 /\ s.skip) ->
                  [Plain(s, "RX02") EXCEPT !.rx02_data = @ - 1]
             [] s.rx02_data <= 0 /\ s.encoding = "FM" /\ eti.fmtimes = 2 /\ s.skip ->
                  [Plain(s, "SKIP") EXCEPT !.skip = FALSE]
             [] OTHER -> [Plain(s, s.encoding) EXCEPT !.skip = ~@]

CleanByte(s, track, eti) ==
    CHOOSE t \in {[Classify(u, eti) EXCEPT !.datap = @ + 1]
                  : u \in {NextPointer(s, track, eti)}} : TRUE

-----------------------------------------------------------------------------
(* encode_bit(): half-cells into the ticks between transitions, in a       *)
(* record e, with write precompensation.                                   *)

NewEncoder == [len |-> 0, next_len |-> -1, prev_adj |-> 0, prev_bit |-> 0,
               rx |-> [accum |-> 0, cnt |-> 0], out |-> <<>>]

Adjust(e, eti) ==
    CASE e.len = 2 /\ e.next_len > 2 -> -eti.precomp
      [] e.len > 2 /\ e.next_len = 2 -> eti.precomp
      [] OTHER -> 0

EncodeBit(e0, bit, eti) ==
    LET e   == [e0 EXCEPT !.next_len = @ + 1]
        adj == Adjust(e, eti)
        e1  == IF e.len > 0
               THEN [e EXCEPT !.out = Append(@, e.len * eti.mult - e.prev_adj + adj),
                              !.prev_adj = adj]
               ELSE e
    IN IF bit = 0 THEN e ELSE [e1 EXCEPT !.len = e.next_len, !.next_len = 0]

EncodeBits(e, bits, eti) ==
    LET upto[n \in 0 .. Len(bits)] ==
            IF n = 0 THEN e
            ELSE CHOOSE t \in {EncodeBit(before, bits[n], eti) : before \in {upto[n - 1]}} : TRUE
    IN upto[Len(bits)]

Bit(byte, i) == (byte \div 2^(8 - i)) % 2     \* the i-th, from the most significant

MfmBits(byte, missing_clock, prev_bit) ==
    [k \in 1 .. 16 |->
        LET i    == (k + 1) \div 2
            prev == IF i = 1 THEN prev_bit ELSE Bit(byte, i - 1)
        IN IF k % 2 = 0 THEN Bit(byte, i)
           ELSE IF prev = 0 /\ Bit(byte, i) = 0 /\ i - 1 # missing_clock THEN 1 ELSE 0]

FmBits(byte, clock) ==
    [k \in 1 .. 32 |-> LET i == (k + 3) \div 4
                       IN CASE k % 4 = 1 -> Bit(clock, i)
                            [] k % 4 = 3 -> Bit(byte, i)
                            [] OTHER     -> 0]

MfmByte(e, byte, missing_clock, eti) ==
    [EncodeBits(e, MfmBits(byte, missing_clock, e.prev_bit), eti) EXCEPT
        !.prev_bit = byte % 2]

FmByte(e, byte, clock, eti) ==
    [EncodeBits(e, FmBits(byte, clock), eti) EXCEPT !.prev_bit = 0]

\* rx02_bitpair(): four bits are held back; (0)11110 has a pattern of its own.
Rx02Pair(accum, cnt) ==
    <<IF (accum \div 2^cnt) % 4 = 0 THEN 1 ELSE 0, (accum \div 2^cnt) % 2>>

Rx02Bit(e, bit, eti) ==
    LET accum == (2 * e.rx.accum + bit) % 64
        cnt   == e.rx.cnt + 1
    IN CASE cnt = 5 /\ accum = 30 ->
              [EncodeBits(e, <<1, 0, 0, 0, 1, 0, 0, 0, 1, 0>>, eti) EXCEPT
                  !.rx = [accum |-> accum, cnt |-> 0]]
         [] cnt = 5 /\ accum # 30 ->
              [EncodeBits(e, Rx02Pair(accum, 4), eti) EXCEPT
                  !.rx = [accum |-> accum, cnt |-> 4]]
         [] OTHER -> [e EXCEPT !.rx = [accum |-> accum, cnt |-> cnt]]

Rx02Flush(e, eti) ==
    LET n == e.rx.cnt
        held == [k \in 1 .. 2 * n |-> Rx02Pair(e.rx.accum, n - ((k + 1) \div 2))[2 - (k % 2)]]
    IN [EncodeBits(e, held, eti) EXCEPT !.rx.cnt = 0]

Rx02Byte(e, byte, first, last, eti) ==
    LET start == IF first THEN [e EXCEPT !.rx = [accum |-> 0, cnt |-> 0]] ELSE e
        upto[n \in 0 .. 8] ==
            IF n = 0 THEN start
            ELSE CHOOSE t \in {Rx02Bit(before, Bit(byte, n), eti) : before \in {upto[n - 1]}} : TRUE
        whole == [upto[8] EXCEPT !.prev_bit = byte % 2]
    IN IF last THEN Rx02Flush(whole, eti) ELSE whole

-----------------------------------------------------------------------------
(* The second loop of dmk2pulses() and the fill after it.                  *)

EncodeStart(s, eti) ==
    IF eti.iam_pos >= 0 /\ s.got_iam # 0 THEN s.got_iam - eti.iam_pos ELSE Hdr

EncAt(s, off) == IF off - Hdr + 1 \in DOMAIN s.encs THEN s.encs[off - Hdr + 1] ELSE "SKIP"

\* Bytes before the start of the track are gap bytes.
EncodeByte(e, s, datap, eti) ==
    LET enc  == EncAt(s, IF datap >= Hdr THEN datap ELSE Hdr)
        byte == IF datap >= Hdr THEN At(s, datap)
                ELSE IF enc \in MfmLike THEN 78 ELSE 255
    IN CASE enc = "SKIP"    -> e
         [] enc = "FM"      -> FmByte(e, byte, 255, eti)
         [] enc = "FM_IAM"  -> FmByte(e, byte, 215, eti)
         [] enc = "FM_AM"   -> FmByte(e, byte, 199, eti)
         [] enc = "MFM"     -> MfmByte(e, byte, -1, eti)
         [] enc = "MFM_IAM" -> MfmByte(e, byte, 4, eti)
         [] enc = "MFM_AM"  -> MfmByte(e, byte, 5, eti)
         [] enc = "RX02"    -> Rx02Byte(e, byte, EncAt(s, datap - 1) # "RX02",
                                        EncAt(s, datap + 1) # "RX02", eti)

\* One turn of the fill: gap bytes (0), a given byte (in MFM from 512 on), or no
\* bytes at all (1 to 3).
FillByte(e, s, eti) ==
    IF eti.fill \div 256 = 2 \/ (eti.fill = 0 /\ s.encs[Len(s.encs)] \in MfmLike)
    THEN MfmByte(e, IF eti.fill = 0 THEN 78 ELSE eti.fill % 256, -1, eti)
    ELSE FmByte(e, IF eti.fill = 0 THEN 255 ELSE eti.fill % 256, 255, eti)

FillStep(s, eti) ==
    IF eti.fill \div 256 = 2 \/ (eti.fill = 0 /\ s.encs[Len(s.encs)] \in MfmLike)
    THEN 1 ELSE eti.fmtimes

FillsBytes(eti) == eti.fill \notin {1, 2, 3}

\* After the fill: the last transition, which a fill with gap bytes leaves out,
\* and no transitions for the rest of the track, very long ones, or none.
FillEnd(e, datap, eti) ==
    LET final == EncodeBit(e, 1, eti)
        rest  == IF eti.fill_len > datap THEN (eti.fill_len - datap) * 16 * eti.mult ELSE 0
    IN CASE eti.fill = 0 -> e
         [] eti.fill = 1 /\ rest > 0 -> [final EXCEPT !.out = Append(@, rest)]
         [] eti.fill = 2 -> [final EXCEPT !.out = @ \o
                [i \in 1 .. (rest + eti.long - 1) \div eti.long |-> eti.long]]
         [] OTHER -> final
=============================================================================
