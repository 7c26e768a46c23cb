--------------------------- MODULE MCTrackPasses ---------------------------
(***************************************************************************)
(* Tracks of one or two sectors of a byte or two, for TLC.                 *)
(***************************************************************************)
EXTENDS TrackPasses

Settings ==
    [ usr_encoding |-> "MIXED", first_encoding |-> "MIXED", mark |-> "a1",
      hole |-> TRUE, join |-> TRUE, iam_pos |-> -1, ignore |-> 0, quirk |-> {},
      sden |-> FALSE, maxsecsize |-> 3, tracklen |-> TrackMax,
      retries |-> 1, min_retries |-> 0, min_sectors |-> 0 ]

Gap(n) == [i \in 1 .. n |-> [v |-> 78, mark |-> "none", last |-> FALSE]]

Field(bytes, mark) ==
    [i \in DOMAIN bytes |-> [v    |-> bytes[i],
                             mark |-> IF i = 1 THEN mark ELSE "none",
                             last |-> i = Len(bytes)]]

Id(num)   == <<254, 1, 0, num, 0, 91, 92>>
Twice(s)  == FlattenSeq([i \in DOMAIN s |-> <<s[i], s[i]>>])

\* A sector of one byte.
Sector(num, mark) ==
    Field(Id(num), mark) \o Gap(1) \o Field(<<251, 10 * num, 93, 94>>, mark) \o Gap(2)

Written(num)  == [id |-> Id(num), data |-> <<251, 10 * num, 93, 94>>]
WrittenFM(num) == [id |-> Twice(Id(num)), data |-> Twice(<<251, 10 * num, 93, 94>>)]

\* Two MFM sectors, read from the hole; a damaged cell in each of two passes.
MfmCase ==
    [ o |-> Settings, cells |-> Gap(1) \o Sector(1, "a1") \o Sector(2, "a1"),
      sectors |-> {Written(1), Written(2)}, begin |-> {1}, noise |-> 1 ]

\* An FM sector, doubled in the image, and three passes.
FmCase ==
    [ o |-> [Settings EXCEPT !.mark = "fm", !.retries = 2, !.ignore = -1],
      cells |-> Gap(1) \o Sector(1, "fm"),
      sectors |-> {WrittenFM(1)}, begin |-> {1}, noise |-> 1 ]

\* Without the hole, a pass begins anywhere: before the sector, in its ID or in its
\* data.
NoHoleCase ==
    [ o |-> [Settings EXCEPT !.hole = FALSE],
      cells |-> Sector(1, "a1"),
      sectors |-> {Written(1)}, begin |-> {1, 3, 10, 12}, noise |-> 1 ]

\* An index mark that is given its place, a sector with extra bytes and a CRC.
IamCase ==
    [ o |-> [Settings EXCEPT !.hole = FALSE, !.iam_pos = 2, !.quirk = {"EXTRA_CRC"}],
      cells |-> Gap(1) \o Field(<<252>>, "c2") \o Field(Id(1), "a1") \o Gap(1)
                \o Field(<<251, 10, 93, 94>>, "a1") \o Field(<<1, 2, 3, 4, 95, 96>>, "none")
                \o Gap(2),
      sectors |-> {Written(1)}, begin |-> {1, 5, 11}, noise |-> 1 ]

\* An RX02 sector: its ID and its mark in FM, its two data bytes not doubled.
Rx02Case ==
    [ o |-> [Settings EXCEPT !.mark = "fm", !.ignore = 1],
      cells |-> Gap(2) \o Field(Id(1), "fm") \o Gap(1)
                \o Field(<<253, 10, 11, 93, 94>>, "fm") \o Gap(2),
      sectors |-> {[id |-> Twice(Id(1)), data |-> <<253, 253, 10, 11, 93, 94>>]},
      begin |-> {1}, noise |-> 1 ]

MCCases == <<MfmCase, FmCase, NoHoleCase, IamCase, Rx02Case>>

MCNoiseBytes == {78, 251, 254}
=============================================================================
