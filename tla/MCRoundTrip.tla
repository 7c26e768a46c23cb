---------------------------- MODULE MCRoundTrip ----------------------------
(***************************************************************************)
(* Tracks of one or two short sectors, for TLC.                            *)
(***************************************************************************)
EXTENDS RoundTrip

Times(n, v) == [i \in 1 .. n |-> v]
Twice(b)    == FlattenSeq([i \in DOMAIN b |-> <<b[i], b[i]>>])

\* A field with its CRC: the premark bytes count in MFM.
WithCrc(crc, bytes) ==
    LET c == CalcCrc(crc, bytes) IN bytes \o <<c \div 256, c % 256>>
Mfm(bytes) == WithCrc(52660, bytes)
Fm(bytes)  == WithCrc(65535, bytes)

\* A track from its parts: gaps, and fields that may be sectors' IDs.
Gap(bytes)    == [bytes |-> bytes, id |-> "no"]
Id(bytes, c)  == [bytes |-> bytes, id |-> c]

TrackOf(parts) ==
    LET start(k) == Hdr + Len(FlattenSeq([i \in 1 .. k - 1 |-> parts[i].bytes]))
        ids == SelectSeq([k \in DOMAIN parts |-> k], LAMBDA k : parts[k].id # "no")
    IN [ idams |-> [i \in DOMAIN ids |->
                       [off |-> start(ids[i]), bad |-> FALSE, enc |-> parts[ids[i]].id,
                        cut |-> FALSE]],
         data  |-> FlattenSeq([k \in DOMAIN parts |-> parts[k].bytes]) ]

MfmId(num)   == Mfm(<<254, 1, 0, num, 0>>)
MfmData(num) == Mfm(<<251, 16 * num, 247>>)
MfmSync      == Times(8, 0) \o Times(3, 161)

MfmSector(num) == <<Gap(MfmSync), Id(MfmId(num), "MFM"), Gap(<<78>> \o MfmSync),
                    Gap(MfmData(num) \o Times(3, 78))>>
MfmWritten(num) == [id |-> MfmId(num), data |-> MfmData(num)]

\* dmk2gw's settings, and those of the simulator's encoder.
DefaultEti ==
    [ fmtimes |-> 2, quirks |-> {}, rx02 |-> FALSE, iam_pos |-> -1, fill |-> 0,
      fill_len |-> 0, mult |-> 144, precomp |-> 10, long |-> 7200 ]

Options ==
    [ usr_encoding |-> "MIXED", first_encoding |-> "MIXED", hole |-> TRUE, join |-> TRUE,
      iam_pos |-> -1, ignore |-> 0, quirk |-> {}, sden |-> FALSE, maxsecsize |-> 3,
      tracklen |-> 0 ]

CaseOf(parts, sectors, room) ==
    LET track == TrackOf(parts)
        len   == Hdr + Len(track.data)
    IN [ track |-> track, tracklen |-> len,
         eti |-> DefaultEti, sim_eti |-> [DefaultEti EXCEPT !.precomp = 0],
         sim_o |-> [Options EXCEPT !.tracklen = len + room, !.hole = FALSE],
         o |-> [Options EXCEPT !.tracklen = len + room],
         sectors |-> sectors, eighths |-> {0, 5} ]

Room == 26

MfmCase == CaseOf(<<Gap(Times(4, 78))>> \o MfmSector(1) \o MfmSector(2) \o <<Gap(Times(4, 78))>>,
                  <<MfmWritten(1), MfmWritten(2)>>, Room)

\* FM, each byte twice.
FmId(num)     == Twice(Fm(<<254, 1, 0, num, 0>>))
FmData(num)   == Twice(Fm(<<248, 254, 17 * num>>))
FmSector(num) == <<Gap(Times(8, 0)), Id(FmId(num), "FM"), Gap(Times(4, 255) \o Times(8, 0)),
                   Gap(FmData(num) \o Times(6, 255))>>
FmWritten(num) == [id |-> FmId(num), data |-> FmData(num)]

FmCase == CaseOf(<<Gap(Times(4, 255))>> \o FmSector(1) \o FmSector(2), <<FmWritten(1), FmWritten(2)>>, 2 * Room)

\* An FM sector and an MFM sector on one track.
MixedCase == CaseOf(<<Gap(Times(8, 255))>> \o FmSector(1) \o <<Gap(Times(12, 78))>> \o MfmSector(2)
                    \o <<Gap(Times(4, 78))>>,
                    <<FmWritten(1), MfmWritten(2)>>, 2 * Room)

\* RX02: data not doubled, with bits that the transform treats specially.
Rx02Data(num)   == LET b == Fm(<<253, 15, 60, 240, num>>)
                   IN <<253>> \o b
Rx02Sector(num) == <<Gap(Times(8, 0)), Id(FmId(num), "FM"), Gap(Times(4, 255) \o Times(8, 0)),
                     Gap(Rx02Data(num) \o Times(8, 255))>>
Rx02Written(num) == [id |-> FmId(num), data |-> Rx02Data(num)]

Rx02Base == CaseOf(<<Gap(Times(8, 255))>> \o Rx02Sector(1) \o Rx02Sector(2) \o <<Gap(Times(4, 255))>>,
                   <<Rx02Written(1), Rx02Written(2)>>, 2 * Room)
Rx02Case == [Rx02Base EXCEPT !.eti.rx02 = TRUE, !.sim_eti.rx02 = TRUE]

\* FM in a single-density image: each byte once, FM thresholds, and a size in units of
\* 16 bytes.
SdenId   == Fm(<<254, 1, 0, 1, 4>>)
SdenData == Fm(<<251, 199, 0, 18, 52>>)
SdenBase == CaseOf(<<Gap(Times(4, 255) \o Times(4, 0)), Id(SdenId, "FM"),
                     Gap(Times(2, 255) \o Times(4, 0)), Gap(SdenData \o Times(3, 255))>>,
                   <<[id |-> SdenId, data |-> SdenData]>>, Room)
SdenCase == [SdenBase EXCEPT
    !.eti.fmtimes = 1, !.sim_eti.fmtimes = 1, !.sim_o.sden = TRUE, !.o.sden = TRUE,
    !.o.usr_encoding = "FM", !.o.first_encoding = "FM"]

\* One MFM sector behind an index mark, which dmk2gw and gw2dmk put at a place.
IamBase == CaseOf(<<Gap(Times(6, 78) \o Times(8, 0) \o Times(3, 194) \o <<252>> \o Times(2, 78))>>
                  \o MfmSector(1) \o <<Gap(Times(4, 78))>>, <<MfmWritten(1)>>, Room)
IamCase == [IamBase EXCEPT !.eti.iam_pos = 20, !.o.iam_pos = 14]

\* One FM sector behind an index mark.
FmIamBase == CaseOf(<<Gap(Times(4, 255) \o Times(8, 0) \o <<252, 252>> \o Times(4, 255))>>
                    \o FmSector(1), <<FmWritten(1)>>, Room)
FmIamCase == [FmIamBase EXCEPT !.eti.iam_pos = 8, !.o.iam_pos = 6]

\* The rest of the track filled in each way dmk2gw knows.
OneMfm == CaseOf(<<Gap(Times(4, 78))>> \o MfmSector(1) \o <<Gap(Times(4, 78))>>,
                 <<MfmWritten(1)>>, Room)
OneFm  == CaseOf(<<Gap(Times(4, 255))>> \o FmSector(1), <<FmWritten(1)>>, Room)
Filled(c, fill, n) == [c EXCEPT !.eti.fill = fill, !.eti.fill_len = c.tracklen + n]

\* Not cued by the hole: one revolution and the rest of another, from anywhere.
NoHoleCase == [Filled(OneMfm, 0, 10) EXCEPT !.o.hole = FALSE, !.o.tracklen = @ + 60,
                                              !.eighths = 0 .. 7]

\* A medium that turns faster or slower than the thresholds were chosen for.
AtSpeed(c, mult) == [c EXCEPT !.sim_eti.mult = mult]

\* CRCs that leave out the premark, and the extra CRC after the data.
QuirkBase == CaseOf(<<Gap(Times(4, 78) \o MfmSync), Id(Fm(<<254, 1, 0, 1, 0>>), "MFM"),
                      Gap(<<78>> \o MfmSync),
                      Gap(Fm(<<251, 16, 247>>) \o Fm(<<1, 2, 3, 4>>) \o Times(4, 78))>>,
                    <<[id |-> Fm(<<254, 1, 0, 1, 0>>),
                       data |-> Fm(<<251, 16, 247>>) \o Fm(<<1, 2, 3, 4>>)]>>, Room)
QuirkCase ==
    LET q == {"ID_CRC", "DATA_CRC", "EXTRA_CRC"}
    IN [QuirkBase EXCEPT !.eti.quirks = q, !.sim_eti.quirks = q,
                         !.sim_o.quirk = q, !.o.quirk = q]

MCCases == {MfmCase, FmCase, MixedCase, Rx02Case, SdenCase, IamCase, FmIamCase,
            Filled(OneFm, 1, 6), Filled(OneMfm, 2, 4), Filled(OneFm, 0, 6),
            Filled(OneMfm, 3, 0), Filled(OneMfm, 741, 3), NoHoleCase,
            AtSpeed(OneMfm, 134), AtSpeed(OneMfm, 154), QuirkCase}
MCGme == [fm |-> 432, mfm0 |-> 216, mfm1 |-> 360, mfm2 |-> 504, mfmshort |-> 144]
=============================================================================
