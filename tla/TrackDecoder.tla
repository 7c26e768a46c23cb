---------------------------- MODULE TrackDecoder ----------------------------
(***************************************************************************)
(* The byte level of the flux decoder: what gwflux_decode_bit() does with  *)
(* each byte it has put together, the IDAM table and the track buffer.     *)
(*                                                                         *)
(* A decoder is a record d, the parts of struct fdecoder and of struct     *)
(* dmk_track_sm that matter here; settings are a record o.  A byte comes   *)
(* as a record b whose field v is its value: what else it holds concerns   *)
(* the CRC operators only.                                                 *)
(***************************************************************************)
EXTENDS SecSize, Sequences, SequencesExt

CONSTANTS
    Hdr,        \* DMK_TKHDR_SIZE: the bytes of the IDAM table
    MaxIdams,   \* entries of the IDAM table
    Gap1Plus,   \* bytes before the first IDAM of a track not cued by its hole
    WrapMin,    \* bytes after which an ID like the first one is the first one
    CrcStart,   \* CRC before the mark of a field
    CrcAfterA1, \* CRC after the three premark bytes
    CrcNext(_, _),
    CrcIsZero(_)

IAM       == 252
IDAM      == 254
NotADam   == 240
DamMarks  == {248, 249, 250, 251, 253}  \* data address marks, deleted or not
DamLike   == 248 .. 253
NoCount   == -1
Quirks    == {"ID_CRC", "DATA_CRC", "PREMARK", "EXTRA", "EXTRA_CRC", "EXTRA_DATA",
              "IAM", "MFM_CLOCK"}
Encodings == {"MIXED", "FM", "MFM", "RX02"}

\* An entry of the IDAM table: the pointer, which counts from the start of the
\* table, its EXTRA flag and the encoding in enc_sec.  History: another mark has
\* come inside this ID, or the stream has ended inside this sector.
Entry(off, encoding) == [off |-> off, bad |-> FALSE, enc |-> encoding, cut |-> FALSE]

\* fdecoder_init(), dmk_track_sm_init() and what read_track() sets after.
NewDecoder(o, first_encoding, rx02_seen) ==
    [ enc        |-> first_encoding,
      ibyte      |-> NoCount, dbyte |-> NoCount, ebyte |-> NoCount,
      awaiting_iam |-> o.iam_pos >= 0,
      awaiting_dam |-> FALSE,
      valid_id   |-> FALSE,
      crc        |-> CrcStart,
      sizecode   |-> 0, curcyl |-> 0, cyl_seen |-> -1,
      backward   |-> 0,
      splice     |-> FALSE,        \* the byte level has just set write_splice
      index_edge |-> 0, ignored |-> 0, full |-> FALSE,
      first_encoding |-> first_encoding,
      rx02_seen  |-> rx02_seen,
      idams      |-> <<>>, data |-> <<>>,
      good |-> 0, errcount |-> 0 ]

DoubledFM(o, encoding) == encoding = "FM" /\ ~o.sden

-----------------------------------------------------------------------------
(* Bytes and marks into the track buffer.                                  *)

AwaitingTrackStart(o, d) ==
    IF o.iam_pos = -1 THEN ~o.hole /\ d.idams = <<>> ELSE d.awaiting_iam

Ignoring(o, d)   == d.ignored < o.ignore
PastIndex(o, d)  == /\ o.hole /\ d.index_edge >= 3
                    /\ d.dbyte = NoCount /\ d.ebyte = NoCount
InRange(o, d)    == ~d.full /\ ~Ignoring(o, d) /\ ~PastIndex(o, d)

\* dmk_in_range() counts the bytes ignored and notices the end of the track.
Checked(o, d) ==
    CASE d.full         -> d
      [] Ignoring(o, d)  -> [d EXCEPT !.ignored = @ + 1]
      [] PastIndex(o, d) -> [d EXCEPT !.full = TRUE]
      [] OTHER           -> d

\* Mutant: a byte that looks like a DAM is stored as it is.
Data_NoKludge(o, d, v) ==
    IF ~InRange(o, d) THEN Checked(o, d)
    ELSE [d EXCEPT !.data = @ \o IF DoubledFM(o, d.enc) THEN <<v, v>> ELSE <<v>>]

\* dmk_data(): between an ID and its DAM nothing may look like a DAM.
Data(o, d, v) ==
    LET w == IF d.awaiting_dam /\ v \in DamLike THEN NotADam ELSE v
    IN IF ~InRange(o, d) THEN Checked(o, d)
       ELSE [d EXCEPT !.data =
                IF Hdr + Len(@) > o.tracklen - 2 THEN @
                ELSE @ \o IF DoubledFM(o, d.enc) THEN <<w, w>> ELSE <<w>>]

\* The bytes read so far, moved or cut so that there are pos of them.
Placed(data, pos, encoding) ==
    IF Len(data) < pos
    THEN [i \in 1 .. pos - Len(data) |-> IF encoding = "MFM" THEN 78 ELSE 255] \o data
    ELSE SubSeq(data, Len(data) - pos + 1, Len(data))

Room(o, d) == Hdr + Len(d.data) < o.tracklen

\* dmk_idam()
Idam(o, d, b) ==
    LET start == ~d.awaiting_iam /\ AwaitingTrackStart(o, d)
        d1 == [d EXCEPT !.data = IF start THEN Placed(@, Gap1Plus, d.enc) ELSE @,
                        !.awaiting_dam = FALSE,
                        !.valid_id = FALSE]
    IN CASE ~InRange(o, d)            -> Checked(o, d)
         [] InRange(o, d) /\ ~Room(o, d1) -> d1
         [] InRange(o, d) /\ Room(o, d1) /\ Len(d.idams) >= MaxIdams ->
              [d1 EXCEPT !.errcount = @ + 1]
         [] OTHER ->
              Data(o, [d1 EXCEPT !.idams = Append(@, Entry(Hdr + Len(d1.data), d.enc)),
                                 !.ibyte = 0], b.v)

\* dmk_iam()
Iam(o, d, b) ==
    LET pos   == IF DoubledFM(o, d.enc) THEN 2 * o.iam_pos ELSE o.iam_pos
        first == d.awaiting_iam \/ d.idams = <<>>
        round == 100 * Len(d.data) > 95 * (o.tracklen - Hdr)
        d1    == IF o.iam_pos >= 0 /\ first
                 THEN [d EXCEPT !.data = Placed(@, pos, d.enc), !.awaiting_iam = FALSE]
                 ELSE d
    IN CASE ~InRange(o, d) -> Checked(o, d)
         [] InRange(o, d) /\ o.iam_pos >= 0 /\ ~first /\ round -> [d EXCEPT !.full = TRUE]
         [] OTHER -> Data(o, [d1 EXCEPT !.awaiting_dam = FALSE, !.valid_id = FALSE], b.v)

-----------------------------------------------------------------------------
(* Errors.                                                                 *)

Flagged(d) == d.idams # <<>> /\ Last(d.idams).bad

Flag(o, d) ==
    IF o.join /\ d.idams # <<>>
    THEN [d EXCEPT !.idams = ReplaceAt(@, Len(@), [Last(@) EXCEPT !.bad = TRUE])]
    ELSE d

\* Mutant: the error taken back whether or not the sector is flagged.
CountedOnce_NoTest(o, d) ==
    Flag(o, [d EXCEPT !.errcount = IF o.join THEN @ ELSE @ + 1])

\* Both a header and a data error count once for a sector.
CountedOnce(o, d) ==
    Flag(o, [d EXCEPT !.errcount = IF o.join /\ Flagged(d) THEN @ ELSE @ + 1])

\* check_missing_dam()
CheckMissingDam(o, d) ==
    IF ~d.awaiting_dam /\ d.dbyte <= 0 THEN d
    ELSE Flag(o, [d EXCEPT !.awaiting_dam = FALSE, !.valid_id = FALSE,
                           !.ibyte = NoCount, !.dbyte = NoCount, !.ebyte = NoCount,
                           !.errcount = @ + 1])

\* dmk_check_wraparound(): the same ID once more.
Cell(data, i) == IF i <= Len(data) THEN data[i] ELSE 0

Wrapped(o, d) ==
    LET first == Head(d.idams)
        last  == Last(d.idams)
    IN /\ Len(d.data) >= WrapMin
       /\ first # last
       /\ (first.enc = "MFM") = (last.enc = "MFM")
       /\ \A i \in 1 .. (IF DoubledFM(o, first.enc) THEN 10 ELSE 5) :
             Cell(d.data, first.off - Hdr + i) = Cell(d.data, last.off - Hdr + i)

CheckWraparound(o, d) ==
    IF Wrapped(o, d)
    THEN [d EXCEPT !.idams = Front(@), !.awaiting_dam = FALSE,
                   !.ibyte = NoCount, !.full = TRUE]
    ELSE d

-----------------------------------------------------------------------------
(* A byte put together by the bit level: the second half of                *)
(* gwflux_decode_bit().  Its mark is "none", or what mark_after says was   *)
(* before it: the missing clocks of an FM mark, or a premark A1 or C2.     *)

A1Crc(o, d, quirk) ==
    IF d.enc = "MFM" /\ quirk \notin o.quirk THEN CrcAfterA1 ELSE CrcStart

\* The premark that makes v a mark in MFM.
MarkedBy(d, mark, premark) == d.enc = "MFM" => mark = premark

CutOff(d) == [d EXCEPT !.idams = IF @ = <<>> THEN @ ELSE
                                 ReplaceAt(@, Len(@), [Last(@) EXCEPT !.cut = TRUE])]
CutId(d)  == IF d.ibyte \in 0 .. 6 THEN CutOff(d) ELSE d

IndexMark(o, d, b) ==
    [Iam(o, CheckMissingDam(o, CutId(d)), b) EXCEPT
        !.ibyte = NoCount, !.dbyte = NoCount, !.ebyte = NoCount]

IdMark(o, d, b) ==
    [Idam(o, CheckMissingDam(o, CutId(d)), b) EXCEPT
        !.crc = CrcNext(A1Crc(o, d, "ID_CRC"), b),
        !.dbyte = NoCount, !.ebyte = NoCount]

\* RX02 data after an FM ID.
SwitchesToRX02(o, d, v) ==
    /\ o.usr_encoding \in {"MIXED", "RX02"}
    /\ v = 253 \/ (v = 249 /\ (d.rx02_seen \/ o.usr_encoding = "RX02"))

DataMark(o, d, b) ==
    LET d1 == Data(o, [d EXCEPT !.awaiting_dam = FALSE], b.v)
        d2 == [d1 EXCEPT !.enc = IF SwitchesToRX02(o, d, b.v) THEN "RX02" ELSE @]
    IN [d2 EXCEPT !.crc = CrcNext(A1Crc(o, d2, "DATA_CRC"), b),
                  !.ibyte = NoCount,
                  !.dbyte = SecSizeOf(d2.sizecode, d2.enc, o.maxsecsize, o.quirk) + 2,
                  !.ebyte = NoCount]

IsIam(d, b, mark)     == mark # "none" /\ b.v = IAM /\ MarkedBy(d, mark, "c2")
IsIdam(d, b, mark)    == /\ mark # "none" /\ b.v = IDAM /\ MarkedBy(d, mark, "a1")
                         /\ ~d.awaiting_iam
MayBeDam(o, d, b, mark) == /\ mark # "none" /\ b.v \in DamMarks
                           /\ ~AwaitingTrackStart(o, d)
IsDam(o, d, b, mark)  == /\ MayBeDam(o, d, b, mark) /\ InRange(o, d)
                         /\ MarkedBy(d, mark, "a1") /\ d.awaiting_dam

\* What is left of a mark that is none: an error, a hint at a disk read
\* backward, or a premark alone, whose byte is stored twice.
NoMark(o, d, b, mark) ==
    CASE mark = "none" -> d
      [] MayBeDam(o, d, b, mark) ->
           IF InRange(o, d) /\ MarkedBy(d, mark, "a1")
           THEN [d EXCEPT !.errcount = @ + 1] ELSE Checked(o, d)
      [] mark # "none" /\ b.v = 128 ->
           IF d.enc = "MFM" /\ mark = "c2" THEN [d EXCEPT !.backward = @ + 1] ELSE d
      [] mark # "none" /\ b.v \notin DamMarks \cup {IAM, IDAM, 128} -> Data(o, d, b.v)
      [] OTHER -> d

\* The bytes of an ID; its CRC is judged with the byte after it.
IdByte(o, d, b) ==
    CASE d.ibyte = 0 -> [d EXCEPT !.curcyl = b.v]
      [] d.ibyte = 3 -> [d EXCEPT !.sizecode = b.v]
      [] d.ibyte = 6 ->
           LET judged == IF CrcIsZero(d.crc)
                         THEN [d EXCEPT !.valid_id = TRUE]
                         ELSE [Flag(o, d) EXCEPT !.errcount = @ + 1, !.ibyte = NoCount]
           IN CheckWraparound(o, [judged EXCEPT !.awaiting_dam = TRUE])
      [] d.ibyte = 18 -> [d EXCEPT !.ibyte = NoCount]
      [] OTHER -> d

\* Mutant: dbyte counts down all the time.
Counted_NoLimit(o, d, b) ==
    [Data(o, d, b.v) EXCEPT
        !.ibyte = IF @ >= 0 THEN @ + 1 ELSE @, !.dbyte = @ - 1,
        !.ebyte = IF @ > 0 THEN @ - 1 ELSE @,  !.crc   = CrcNext(@, b)]

\* Store the byte and count it.
Counted(o, d, b) ==
    [Data(o, d, b.v) EXCEPT
        !.ibyte = IF @ >= 0 THEN @ + 1 ELSE @,
        !.dbyte = IF @ > 0 THEN @ - 1 ELSE @,
        !.ebyte = IF @ > 0 THEN @ - 1 ELSE @,
        !.crc   = CrcNext(@, b)]

\* Mutant: good although its ID was not.
GoodSector_AnyId(d) == [d EXCEPT !.good = @ + 1]

\* A sector counts as good when its ID was valid, too.
GoodSector(d) ==
    IF ~d.valid_id THEN d
    ELSE [d EXCEPT !.first_encoding = IF d.good = 0 THEN d.enc ELSE @,
                   !.good = @ + 1,
                   !.rx02_seen = @ \/ d.enc = "RX02",
                   !.cyl_seen = d.curcyl]

DataEnd(o, d) ==
    IF d.dbyte # 0 THEN d
    ELSE LET judged == IF CrcIsZero(d.crc) THEN GoodSector(d) ELSE CountedOnce(o, d)
             extra  == "EXTRA_CRC" \in o.quirk
         IN [judged EXCEPT !.dbyte = NoCount, !.valid_id = FALSE, !.splice = TRUE,
                           !.enc   = IF @ = "RX02" THEN "FM" ELSE @,
                           !.ebyte = IF extra THEN 6 ELSE @,
                           !.crc   = IF extra THEN CrcStart ELSE @]

ExtraEnd(o, d) ==
    IF d.ebyte # 0 THEN d
    ELSE [(IF CrcIsZero(d.crc) THEN d ELSE CountedOnce(o, d)) EXCEPT
             !.ebyte = NoCount, !.splice = TRUE]

\* A byte that is no mark, and what it may end.  (The intermediate records are
\* bound so that TLC evaluates each of them once.)
PlainByte(o, d, b, mark) ==
    CHOOSE new \in {ExtraEnd(o, ended) :
        ended \in {DataEnd(o, counted) :
        counted \in {Counted(o, at, b) :
        at \in {IdByte(o, unmarked, b) :
        unmarked \in {NoMark(o, d, b, mark)}}}}} : TRUE

DecodeByte(o, d, b, mark) ==
    CASE IsIam(d, b, mark)    -> IndexMark(o, d, b)
      [] IsIdam(d, b, mark)   -> IdMark(o, d, b)
      [] IsDam(o, d, b, mark) -> DataMark(o, d, b)
      [] OTHER                -> PlainByte(o, d, b, mark)

\* gwflux_decode_index()
DecodeIndex(o, d) ==
    [d EXCEPT !.index_edge = @ + 1,
              !.data = IF d.index_edge = 0 /\ o.ignore < 0
                       THEN @ \o [i \in 1 .. -o.ignore |-> 255] ELSE @]

\* gw_post_process_track(): an ID that the track's end cut off is dropped.
PostProcess(o, d) ==
    LET d1 == CheckMissingDam(o, d)
    IN IF d1.ibyte # NoCount THEN [d1 EXCEPT !.idams = Front(@)] ELSE d1

\* The errors that gw_post_process_track() adds to the merged track's.
LateErrors(o, d) ==
    LET post == PostProcess(o, d)
    IN (IF post.dbyte # NoCount THEN 1 ELSE 0) + (IF post.ebyte # NoCount THEN 1 ELSE 0)
=============================================================================
