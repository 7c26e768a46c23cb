------------------------- MODULE TrackPassesProofs -------------------------
(***************************************************************************)
(* Theorems about TrackPasses, for all tracks, settings and noise: the     *)
(* decoder and the merge keep errors, flags, pointers and good sectors in  *)
(* agreement.                                                              *)
(***************************************************************************)
EXTENDS TrackPasses, Induction, SequenceTheorems

-----------------------------------------------------------------------------
(* What the decoder keeps.                                                 *)

EntryType == [off : Nat, bad : BOOLEAN, enc : Crc!Encodings, cut : BOOLEAN]

\* The largest value of dbyte depends on the size code.
Counter == Nat \cup {-1}

DecoderType ==
    [ enc : Crc!Encodings, ibyte : -1 .. 18, dbyte : Counter, ebyte : -1 .. 6,
      awaiting_iam : BOOLEAN, awaiting_dam : BOOLEAN, valid_id : BOOLEAN,
      crc : {"open", "zero", "bad"}, sizecode : Nat, curcyl : Nat, cyl_seen : Int,
      backward : Nat, splice : BOOLEAN, index_edge : Nat, ignored : Nat,
      full : BOOLEAN, first_encoding : Crc!Encodings, rx02_seen : BOOLEAN,
      idams : Seq(EntryType), data : Seq(Nat), good : Nat, errcount : Nat ]

ByteType == [v : 0 .. 255, ok : BOOLEAN, last : BOOLEAN]

Bad(idams) == {i \in DOMAIN idams : idams[i].bad}

ErrorsCover(dec) == Cardinality(Bad(dec.idams)) <= dec.errcount

\* Pointers increase and stay within the bytes stored; the position next to the
\* last of the track can be entered more than once, since nothing is stored there.
InTable(len, tracklen, off) ==
    /\ Hdr <= off /\ off < tracklen /\ off <= Hdr + len
    /\ off = Hdr + len => off = tracklen - 1

Increasing(tracklen, idams) ==
    \A i, j \in DOMAIN idams :
        i < j => \/ idams[i].off < idams[j].off
                 \/ idams[i].off = tracklen - 1 /\ idams[j].off = tracklen - 1

TableInv(opt, dec) ==
    /\ \A i \in DOMAIN dec.idams : InTable(Len(dec.data), opt.tracklen, dec.idams[i].off)
    /\ Increasing(opt.tracklen, dec.idams)
    /\ dec.ibyte # -1 => dec.idams # <<>>
    /\ dec.awaiting_iam => dec.idams = <<>>

DecoderInv(opt, dec) == dec \in DecoderType /\ ErrorsCover(dec) /\ TableInv(opt, dec)

-----------------------------------------------------------------------------
(* Steps of the decoder.                                                   *)

\* A table has as many flagged entries as a number can say.
LEMMA BadFinite ==
    ASSUME NEW idams \in Seq(EntryType)
    PROVE  IsFiniteSet(Bad(idams)) /\ Cardinality(Bad(idams)) \in Nat
<1>1. IsFiniteSet(1 .. Len(idams))
  BY FS_Interval, Len(idams) \in Int, 1 \in Int
<1>2. Bad(idams) \in SUBSET (1 .. Len(idams))
  BY DEF Bad
<1>3. IsFiniteSet(Bad(idams))
  BY <1>1, <1>2, FS_Subset, Zenon
<1>4. QED
  BY <1>3, FS_CardinalityType, Zenon

\* A step keeps the table in order that stores no less, drops entries at most
\* from its end and moves none.
LEMMA TableKept ==
    ASSUME NEW opt, NEW dec, DecoderInv(opt, dec),
           NEW new \in DecoderType, ErrorsCover(new),
           Len(new.data) >= Len(dec.data),
           DOMAIN new.idams \subseteq DOMAIN dec.idams,
           \A i \in DOMAIN new.idams : new.idams[i].off = dec.idams[i].off,
           new.ibyte # -1 => new.idams # <<>>,
           new.awaiting_iam => dec.awaiting_iam
    PROVE  DecoderInv(opt, new)
<1>1. dec \in DecoderType /\ TableInv(opt, dec)
  BY DEF DecoderInv
<1>2. /\ dec.data \in Seq(Nat) /\ new.data \in Seq(Nat)
      /\ dec.idams \in Seq(EntryType) /\ new.idams \in Seq(EntryType)
  BY <1>1, Zenon DEF DecoderType
<1> DEFINE len == Len(dec.data)
           newLen == Len(new.data)
<1>l. len \in Nat /\ newLen \in Nat /\ newLen >= len
  BY <1>2, LenProperties
<1>3. \A i \in DOMAIN dec.idams : dec.idams[i].off \in Nat
  <2> TAKE i \in DOMAIN dec.idams
  <2>1. dec.idams[i] \in EntryType
    BY <1>2, ElementOfSeq
  <2>2. QED
    BY <2>1, Zenon DEF EntryType
<1>4. \A i \in DOMAIN new.idams : InTable(Len(new.data), opt.tracklen, new.idams[i].off)
  <2>1. \A i \in DOMAIN new.idams : InTable(len, opt.tracklen, new.idams[i].off)
    BY <1>1 DEF TableInv, InTable
  <2> HIDE DEF len, newLen
  <2>2. \A i \in DOMAIN new.idams : InTable(newLen, opt.tracklen, new.idams[i].off)
    <3> TAKE i \in DOMAIN new.idams
    <3>1. new.idams[i].off \in Nat
      BY <1>3
    <3>2. QED
      BY <1>l, <2>1, <3>1, TrackPassesAssumption, SMTT(60) DEF InTable
  <2>3. QED
    BY <2>2 DEF newLen
<1>5. Increasing(opt.tracklen, new.idams)
  BY <1>1, <1>2, <1>3 DEF TableInv, Increasing
<1>6. new.awaiting_iam => new.idams = <<>>
  <2> SUFFICES ASSUME new.awaiting_iam PROVE new.idams = <<>>
    OBVIOUS
  <2>1. dec.idams = <<>>
    BY <1>1 DEF TableInv
  <2>2. Len(new.idams) = 0
    BY <1>2, <2>1, LenProperties, SMTT(60)
  <2>3. QED
    BY <1>2, <2>2
<1>7. QED
  BY <1>4, <1>5, <1>6, Zenon DEF DecoderInv, TableInv

\* The same when the table is not touched at all.
LEMMA TableUntouched ==
    ASSUME NEW opt, NEW dec, DecoderInv(opt, dec),
           NEW new \in DecoderType,
           new.idams = dec.idams, new.errcount >= dec.errcount,
           Len(new.data) >= Len(dec.data),
           new.ibyte # -1 => dec.ibyte # -1,
           new.awaiting_iam => dec.awaiting_iam
    PROVE  DecoderInv(opt, new)
<1>1. Cardinality(Bad(new.idams)) = Cardinality(Bad(dec.idams))
  OBVIOUS
<1>2. Cardinality(Bad(dec.idams)) <= new.errcount
  <2>1. dec.idams \in Seq(EntryType) /\ new.errcount \in Nat /\ dec.errcount \in Nat
    BY Zenon DEF DecoderInv, DecoderType
  <2>2. Cardinality(Bad(dec.idams)) \in Nat
    BY <2>1, BadFinite
  <2>3. QED
    BY <2>1, <2>2 DEF DecoderInv, ErrorsCover
<1>3. QED
  BY <1>1, <1>2, TableKept, Zenon DEF DecoderInv, ErrorsCover, TableInv

\* What a step leaves alone that only stores bytes.
SameCounts(dec, new) ==
    /\ new.idams = dec.idams /\ new.errcount = dec.errcount
    /\ new.ibyte = dec.ibyte /\ new.dbyte = dec.dbyte /\ new.ebyte = dec.ebyte
    /\ new.enc = dec.enc /\ new.crc = dec.crc /\ new.sizecode = dec.sizecode
    /\ new.awaiting_iam = dec.awaiting_iam

\* A step that only stores bytes keeps all that the table says.
LEMMA BytesOnly ==
    ASSUME NEW opt, NEW dec, DecoderInv(opt, dec),
           NEW new \in DecoderType, SameCounts(dec, new),
           Len(new.data) >= Len(dec.data)
    PROVE  DecoderInv(opt, new)
<1>1. dec.errcount \in Nat
  BY Zenon DEF DecoderInv, DecoderType
<1>2. QED
  BY <1>1, TableUntouched DEF SameCounts

\* dmk_in_range() counts bytes or notices the end of the track, and nothing else.
LEMMA CheckedStep ==
    ASSUME NEW opt \in OptionType, NEW dec, DecoderInv(opt, dec)
    PROVE  LET new == Crc!Checked(opt, dec)
           IN DecoderInv(opt, new) /\ SameCounts(dec, new)
<1>1. dec \in DecoderType
  BY DEF DecoderInv
<1>2. dec.data \in Seq(Nat) /\ dec.ignored \in Nat
  BY <1>1, Zenon DEF DecoderType
<1> SUFFICES ASSUME NEW new, new = Crc!Checked(opt, dec)
             PROVE  DecoderInv(opt, new) /\ SameCounts(dec, new)
  BY Zenon
<1>3. \/ new = dec
      \/ new = [dec EXCEPT !.ignored = dec.ignored + 1]
      \/ new = [dec EXCEPT !.full = TRUE]
  BY DEF Crc!Checked
<1>5. CASE new = dec
  BY <1>5 DEF SameCounts
<1>6. CASE new = [dec EXCEPT !.ignored = dec.ignored + 1]
  <2>1. dec.ignored + 1 \in Nat
    BY <1>2
  <2>2. new \in DecoderType
    BY <1>1, <1>6, <2>1, ZenonT(60) DEF DecoderType
  <2>3. SameCounts(dec, new) /\ new.data = dec.data
    BY <1>1, <1>6 DEF DecoderType, SameCounts
  <2>4. QED
    BY <1>2, <2>2, <2>3, BytesOnly, LenProperties
<1>7. CASE new = [dec EXCEPT !.full = TRUE]
  <2>2. new \in DecoderType
    BY <1>1, <1>7, ZenonT(60) DEF DecoderType
  <2>3. SameCounts(dec, new) /\ new.data = dec.data
    BY <1>1, <1>7 DEF DecoderType, SameCounts
  <2>4. QED
    BY <1>2, <2>2, <2>3, BytesOnly, LenProperties
<1>8. QED
  BY <1>3, <1>5, <1>6, <1>7

\* dmk_data() does that or stores bytes.
LEMMA DataStep ==
    ASSUME NEW opt \in OptionType, NEW dec, DecoderInv(opt, dec), NEW v \in 0 .. 255
    PROVE  LET new == Crc!Data(opt, dec, v)
           IN DecoderInv(opt, new) /\ SameCounts(dec, new)
<1> DEFINE w    == IF dec.awaiting_dam /\ v \in Crc!DamLike THEN Crc!NotADam ELSE v
           put  == IF Crc!DoubledFM(opt, dec.enc) THEN <<w, w>> ELSE <<w>>
<1>1. dec \in DecoderType
  BY DEF DecoderInv
<1>2. dec.data \in Seq(Nat)
  BY <1>1, Zenon DEF DecoderType
<1> SUFFICES ASSUME NEW new, new = Crc!Data(opt, dec, v)
             PROVE  DecoderInv(opt, new) /\ SameCounts(dec, new)
  BY Zenon
<1>3. CASE ~Crc!InRange(opt, dec)
  BY <1>3, CheckedStep, Zenon DEF Crc!Data
<1>4. CASE Crc!InRange(opt, dec)
  <2>1. PICK data : data = IF Hdr + Len(dec.data) > opt.tracklen - 2 THEN dec.data
                           ELSE dec.data \o put
    OBVIOUS
  <2>2. new = [dec EXCEPT !.data = data]
    BY <1>4, <2>1 DEF Crc!Data
  <2>3. put \in Seq(Nat)
    BY DEF Crc!NotADam
  <2>4. data \in Seq(Nat) /\ Len(data) >= Len(dec.data)
    <3> HIDE DEF put
    <3>1. Len(dec.data) \in Nat /\ Len(put) \in Nat
      BY <1>2, <2>3, LenProperties
    <3>2. dec.data \o put \in Seq(Nat) /\ Len(dec.data \o put) = Len(dec.data) + Len(put)
      BY <1>2, <2>3, ConcatProperties
    <3>3. QED
      BY <1>2, <2>1, <3>1, <3>2
  <2>5. new \in DecoderType
    BY <1>1, <2>2, <2>4, ZenonT(60) DEF DecoderType
  <2>6. SameCounts(dec, new) /\ new.data = data
    BY <1>1, <2>2 DEF DecoderType, SameCounts
  <2>7. QED
    BY <2>4, <2>5, <2>6, BytesOnly
<1>5. QED
  BY <1>3, <1>4, Zenon

\* Flagging the last sector adds at most one to those flagged, and none if it was
\* flagged already.
LEMMA FlagTable ==
    ASSUME NEW idams \in Seq(EntryType), idams # <<>>
    PROVE  LET t == ReplaceAt(idams, Len(idams), [Last(idams) EXCEPT !.bad = TRUE])
           IN /\ t \in Seq(EntryType) /\ t # <<>> /\ DOMAIN t = DOMAIN idams
              /\ \A i \in DOMAIN t : t[i].off = idams[i].off
              /\ Cardinality(Bad(t)) <= Cardinality(Bad(idams)) + 1
              /\ Last(idams).bad => Cardinality(Bad(t)) = Cardinality(Bad(idams))
<1> DEFINE n == Len(idams)
           e == [idams[n] EXCEPT !.bad = TRUE]
           t == [idams EXCEPT ![n] = e]
<1>1. n \in Nat \ {0} /\ n \in 1 .. n /\ DOMAIN idams = 1 .. n
  BY LenProperties, EmptySeq
<1>2. idams[n] \in EntryType
  BY <1>1, ElementOfSeq
<1>3. e \in EntryType /\ e.off = idams[n].off /\ e.bad
  BY <1>2 DEF EntryType
<1>4. /\ t \in Seq(EntryType) /\ Len(t) = n
      /\ \A j \in 1 .. n : t[j] = IF j = n THEN e ELSE idams[j]
  <2> HIDE DEF e
  <2>1. QED
    BY <1>1, <1>3, ExceptSeq
<1>5. DOMAIN t = 1 .. n
  BY <1>1
<1>6. Bad(t) = Bad(idams) \cup {n}
  BY <1>1, <1>3, <1>4, <1>5 DEF Bad
<1>7. Cardinality(Bad(t)) = IF n \in Bad(idams) THEN Cardinality(Bad(idams))
                            ELSE Cardinality(Bad(idams)) + 1
  <2>1. IsFiniteSet(Bad(idams))
    BY BadFinite
  <2>2. QED
    BY <1>6, <2>1, FS_AddElement
<1>8. Cardinality(Bad(idams)) \in Nat
  BY BadFinite
<1>9. \A i \in DOMAIN t : t[i].off = idams[i].off
  <2> HIDE DEF e, t, n
  <2> QED
    BY <1>3, <1>4, <1>5
<1>10. ReplaceAt(idams, Len(idams), [Last(idams) EXCEPT !.bad = TRUE]) = t
  BY Zenon DEF ReplaceAt, Last
<1>11. Last(idams).bad => n \in Bad(idams)
  BY <1>1 DEF Last, Bad
<1>12. t # <<>>
  BY <1>1, <1>4
<1> HIDE DEF t, n
<1>13. /\ Cardinality(Bad(t)) <= Cardinality(Bad(idams)) + 1
       /\ Last(idams).bad => Cardinality(Bad(t)) = Cardinality(Bad(idams))
  BY <1>7, <1>8, <1>11
<1>14. QED
  BY <1>1, <1>4, <1>5, <1>9, <1>10, <1>12, <1>13, Zenon

\* Cutting the last sector off changes no flag.
LEMMA CutTable ==
    ASSUME NEW idams \in Seq(EntryType), idams # <<>>
    PROVE  LET t == ReplaceAt(idams, Len(idams), [Last(idams) EXCEPT !.cut = TRUE])
           IN /\ t \in Seq(EntryType) /\ t # <<>> /\ DOMAIN t = DOMAIN idams
              /\ \A i \in DOMAIN t : t[i].off = idams[i].off
              /\ Bad(t) = Bad(idams)
<1> DEFINE n == Len(idams)
           e == [idams[n] EXCEPT !.cut = TRUE]
           t == [idams EXCEPT ![n] = e]
<1>1. n \in Nat \ {0} /\ n \in 1 .. n /\ DOMAIN idams = 1 .. n
  BY LenProperties, EmptySeq
<1>2. idams[n] \in EntryType
  BY <1>1, ElementOfSeq
<1>3. e \in EntryType /\ e.off = idams[n].off /\ e.bad = idams[n].bad
  BY <1>2 DEF EntryType
<1>4. /\ t \in Seq(EntryType) /\ Len(t) = n
      /\ \A j \in 1 .. n : t[j] = IF j = n THEN e ELSE idams[j]
  <2> HIDE DEF e
  <2>1. QED
    BY <1>1, <1>3, ExceptSeq
<1>5. DOMAIN t = 1 .. n
  BY <1>1
<1>6. \A i \in DOMAIN t : t[i].off = idams[i].off /\ t[i].bad = idams[i].bad
  <2> HIDE DEF e, t, n
  <2> QED
    BY <1>3, <1>4, <1>5
<1>7. ReplaceAt(idams, Len(idams), [Last(idams) EXCEPT !.cut = TRUE]) = t
  BY Zenon DEF ReplaceAt, Last
<1>8. t # <<>>
  BY <1>1, <1>4
<1> HIDE DEF t, n
<1>9. QED
  BY <1>1, <1>4, <1>5, <1>6, <1>7, <1>8 DEF Bad

FlaggedTable(opt, idams) ==
    IF opt.join /\ idams # <<>>
    THEN ReplaceAt(idams, Len(idams), [Last(idams) EXCEPT !.bad = TRUE])
    ELSE idams

\* Flagging a decoder's sector changes the table only.
LEMMA FlagShape ==
    ASSUME NEW opt \in OptionType, NEW dec \in DecoderType
    PROVE  /\ Crc!Flag(opt, dec) = [dec EXCEPT !.idams = FlaggedTable(opt, dec.idams)]
           /\ FlaggedTable(opt, dec.idams) \in Seq(EntryType)
<1>1. dec.idams \in Seq(EntryType)
  BY Zenon DEF DecoderType
<1>2. CASE opt.join /\ dec.idams # <<>>
  <2>1. FlaggedTable(opt, dec.idams) \in Seq(EntryType)
    BY <1>1, <1>2, FlagTable, Zenon DEF FlaggedTable
  <2>2. Crc!Flag(opt, dec) = [dec EXCEPT !.idams = FlaggedTable(opt, dec.idams)]
    BY <1>2, Zenon
       DEF Crc!Flag, FlaggedTable, ReplaceAt, Last, Crc!ReplaceAt, Crc!Last
  <2>3. QED
    BY <2>1, <2>2
<1>3. CASE ~(opt.join /\ dec.idams # <<>>)
  <2>1. dec = [dec EXCEPT !.idams = dec.idams]
    BY DEF DecoderType
  <2>2. QED
    BY <1>1, <1>3, <2>1, Zenon DEF Crc!Flag, FlaggedTable
<1>4. QED
  BY <1>2, <1>3, Zenon

\* Errors are counted at least as often as sectors are flagged.
LEMMA FlagKept ==
    ASSUME NEW opt \in OptionType, NEW dec, DecoderInv(opt, dec),
           NEW new \in DecoderType, new.idams = FlaggedTable(opt, dec.idams),
           new.errcount >= dec.errcount,
           opt.join /\ ~Crc!Flagged(dec) => new.errcount >= dec.errcount + 1,
           Len(new.data) >= Len(dec.data),
           new.ibyte # -1 => dec.ibyte # -1,
           new.awaiting_iam => dec.awaiting_iam
    PROVE  DecoderInv(opt, new)
<1>1. dec \in DecoderType /\ TableInv(opt, dec) /\ ErrorsCover(dec)
  BY DEF DecoderInv
<1>2. dec.idams \in Seq(EntryType) /\ dec.errcount \in Nat /\ new.errcount \in Nat
  BY <1>1, Zenon DEF DecoderType
<1>3. Cardinality(Bad(dec.idams)) \in Nat /\ Cardinality(Bad(dec.idams)) <= dec.errcount
  BY <1>1, <1>2, BadFinite DEF ErrorsCover
<1>4. CASE opt.join /\ dec.idams # <<>>
  <2>1. PICK t : t = FlaggedTable(opt, dec.idams)
    OBVIOUS
  <2>2. /\ t \in Seq(EntryType) /\ t # <<>> /\ DOMAIN t = DOMAIN dec.idams
        /\ \A i \in DOMAIN t : t[i].off = dec.idams[i].off
        /\ Cardinality(Bad(t)) <= Cardinality(Bad(dec.idams)) + 1
        /\ Last(dec.idams).bad => Cardinality(Bad(t)) = Cardinality(Bad(dec.idams))
    BY <1>2, <1>4, <2>1, FlagTable, Zenon DEF FlaggedTable
  <2>3. Cardinality(Bad(t)) <= new.errcount
    <3>1. Cardinality(Bad(t)) \in Nat
      BY <2>2, BadFinite
    <3>2. Crc!Flagged(dec) <=> Last(dec.idams).bad
      BY <1>4, Zenon DEF Crc!Flagged, Crc!Last, Last
    <3>3. QED
      BY <1>2, <1>3, <1>4, <2>2, <3>1, <3>2
  <2>4. QED
    BY <2>1, <2>2, <2>3, TableKept DEF ErrorsCover
<1>5. CASE ~(opt.join /\ dec.idams # <<>>)
  BY <1>5, TableUntouched DEF FlaggedTable
<1>6. QED
  BY <1>4, <1>5, Zenon

\* CountedOnce(), a data error: counted unless the sector is flagged already.
LEMMA CountedOnceStep ==
    ASSUME NEW opt \in OptionType, NEW dec, DecoderInv(opt, dec)
    PROVE  LET new == Crc!CountedOnce(opt, dec)
           IN /\ DecoderInv(opt, new)
              /\ new.ibyte = dec.ibyte /\ new.awaiting_iam = dec.awaiting_iam
              /\ new.dbyte = dec.dbyte /\ new.ebyte = dec.ebyte /\ new.enc = dec.enc
<1>1. dec \in DecoderType
  BY DEF DecoderInv
<1>2. dec.errcount \in Nat /\ dec.data \in Seq(Nat)
  BY <1>1, Zenon DEF DecoderType
<1>3. PICK errs : errs = IF opt.join /\ Crc!Flagged(dec) THEN dec.errcount ELSE dec.errcount + 1
  OBVIOUS
<1>4. PICK at : at = [dec EXCEPT !.errcount = errs]
  OBVIOUS
<1>5. errs \in Nat
  BY <1>2, <1>3
<1>6. at \in DecoderType
  BY <1>1, <1>4, <1>5, ZenonT(60) DEF DecoderType
<1>7. /\ at.idams = dec.idams /\ at.data = dec.data /\ at.ibyte = dec.ibyte
      /\ at.awaiting_iam = dec.awaiting_iam /\ at.errcount = errs
      /\ at.dbyte = dec.dbyte /\ at.ebyte = dec.ebyte /\ at.enc = dec.enc
  BY <1>1, <1>4 DEF DecoderType
<1>8. PICK t : t = FlaggedTable(opt, dec.idams)
  OBVIOUS
<1>9. PICK new : new = Crc!CountedOnce(opt, dec)
  OBVIOUS
<1>10. new = [at EXCEPT !.idams = t] /\ t \in Seq(EntryType)
  <2>1. new = Crc!Flag(opt, at)
    BY <1>3, <1>4, <1>9, Zenon DEF Crc!CountedOnce
  <2>2. QED
    <3>1. /\ Crc!Flag(opt, at) = [at EXCEPT !.idams = FlaggedTable(opt, at.idams)]
          /\ FlaggedTable(opt, at.idams) \in Seq(EntryType)
      BY <1>6, FlagShape, Zenon
    <3>2. t = FlaggedTable(opt, at.idams)
      BY <1>7, <1>8, Zenon
    <3>3. QED
      BY <2>1, <3>1, <3>2, Zenon
<1>11. new \in DecoderType
  BY <1>6, <1>10, ZenonT(60) DEF DecoderType
<1>12. /\ new.idams = t /\ new.data = dec.data /\ new.ibyte = dec.ibyte
       /\ new.awaiting_iam = dec.awaiting_iam /\ new.errcount = errs
       /\ new.dbyte = dec.dbyte /\ new.ebyte = dec.ebyte /\ new.enc = dec.enc
  BY <1>6, <1>7, <1>10 DEF DecoderType
<1>13. Len(new.data) >= Len(dec.data)
  BY <1>2, <1>12, LenProperties
<1>14. DecoderInv(opt, new)
  BY <1>2, <1>3, <1>8, <1>11, <1>12, <1>13, FlagKept
<1>15. QED
  BY <1>9, <1>12, <1>14, Zenon

\* check_missing_dam()
LEMMA CheckMissingDamStep ==
    ASSUME NEW opt \in OptionType, NEW dec, DecoderInv(opt, dec)
    PROVE  LET new == Crc!CheckMissingDam(opt, dec)
           IN /\ DecoderInv(opt, new)
              /\ new.awaiting_iam = dec.awaiting_iam /\ new.enc = dec.enc
<1>1. dec \in DecoderType
  BY DEF DecoderInv
<1>2. /\ dec.errcount \in Nat /\ dec.errcount + 1 \in Nat /\ dec.data \in Seq(Nat)
      /\ -1 \in -1 .. 18 /\ -1 \in -1 .. 6 /\ -1 \in Counter /\ FALSE \in BOOLEAN
  <2>1. dec.errcount \in Nat /\ dec.data \in Seq(Nat)
    BY <1>1, Zenon DEF DecoderType
  <2>2. QED
    BY <2>1 DEF Counter
<1>3. PICK new : new = Crc!CheckMissingDam(opt, dec)
  OBVIOUS
<1> SUFFICES /\ DecoderInv(opt, new)
             /\ new.awaiting_iam = dec.awaiting_iam /\ new.enc = dec.enc
  BY <1>3, Zenon
<1>4. CASE new = dec
  BY <1>4
<1>5. CASE new # dec
  <2>1. PICK at : at = [dec EXCEPT !.awaiting_dam = FALSE, !.valid_id = FALSE, !.ibyte = -1,
                                   !.dbyte = -1, !.ebyte = -1, !.errcount = dec.errcount + 1]
    OBVIOUS
  <2>2. new = Crc!Flag(opt, at)
    BY <1>3, <1>5, <2>1, Zenon DEF Crc!CheckMissingDam, Crc!NoCount
  <2>3. at \in DecoderType
    BY <1>1, <1>2, <2>1, ZenonT(60) DEF DecoderType
  <2>4. /\ at.idams = dec.idams /\ at.data = dec.data /\ at.ibyte = -1 /\ at.enc = dec.enc
        /\ at.awaiting_iam = dec.awaiting_iam /\ at.errcount = dec.errcount + 1
    BY <1>1, <2>1 DEF DecoderType
  <2>5. PICK t : t = FlaggedTable(opt, dec.idams)
    OBVIOUS
  <2>6. new = [at EXCEPT !.idams = t] /\ t \in Seq(EntryType)
    <3>1. /\ Crc!Flag(opt, at) = [at EXCEPT !.idams = FlaggedTable(opt, at.idams)]
          /\ FlaggedTable(opt, at.idams) \in Seq(EntryType)
      BY <2>3, FlagShape, Zenon
    <3>2. t = FlaggedTable(opt, at.idams)
      BY <2>4, <2>5, Zenon
    <3>3. QED
      BY <2>2, <3>1, <3>2, Zenon
  <2>7. new \in DecoderType
    BY <2>3, <2>6, Zenon DEF DecoderType
  <2>8. /\ new.idams = t /\ new.data = dec.data /\ new.ibyte = -1 /\ new.enc = dec.enc
        /\ new.awaiting_iam = dec.awaiting_iam /\ new.errcount = dec.errcount + 1
    BY <2>3, <2>4, <2>6 DEF DecoderType
  <2>9. Len(new.data) >= Len(dec.data)
    BY <1>2, <2>8, LenProperties
  <2>10. DecoderInv(opt, new)
    BY <1>2, <2>5, <2>7, <2>8, <2>9, FlagKept, SMTT(60)
  <2>11. QED
    BY <2>8, <2>10
<1>6. QED
  BY <1>4, <1>5, Zenon

\* An ID that is cut off stays in the table.
LEMMA CutOffStep ==
    ASSUME NEW opt \in OptionType, NEW dec, DecoderInv(opt, dec)
    PROVE  LET new == Crc!CutOff(dec)
           IN /\ DecoderInv(opt, new) /\ Bad(new.idams) = Bad(dec.idams)
              /\ new.awaiting_iam = dec.awaiting_iam /\ new.enc = dec.enc
<1>1. dec \in DecoderType /\ ErrorsCover(dec) /\ TableInv(opt, dec)
  BY DEF DecoderInv
<1>2. dec.data \in Seq(Nat) /\ dec.idams \in Seq(EntryType)
  BY <1>1, Zenon DEF DecoderType
<1>3. PICK new : new = Crc!CutOff(dec)
  OBVIOUS
<1>4. PICK t : t = IF dec.idams = <<>> THEN dec.idams
                   ELSE ReplaceAt(dec.idams, Len(dec.idams), [Last(dec.idams) EXCEPT !.cut = TRUE])
  OBVIOUS
<1>5. new = [dec EXCEPT !.idams = t]
  BY <1>3, <1>4, Zenon DEF Crc!CutOff, ReplaceAt, Last, Crc!ReplaceAt, Crc!Last
<1>6. /\ t \in Seq(EntryType) /\ (t = <<>> <=> dec.idams = <<>>) /\ DOMAIN t = DOMAIN dec.idams
      /\ \A i \in DOMAIN t : t[i].off = dec.idams[i].off
      /\ Bad(t) = Bad(dec.idams)
  BY <1>2, <1>4, CutTable, Zenon
<1>7. new \in DecoderType
  BY <1>1, <1>5, <1>6, ZenonT(60) DEF DecoderType
<1>8. /\ new.idams = t /\ new.data = dec.data /\ new.ibyte = dec.ibyte /\ new.enc = dec.enc
      /\ new.awaiting_iam = dec.awaiting_iam /\ new.errcount = dec.errcount
  BY <1>1, <1>5 DEF DecoderType
<1>9. Len(new.data) >= Len(dec.data) /\ ErrorsCover(new)
  BY <1>1, <1>2, <1>6, <1>8, LenProperties DEF ErrorsCover
<1>10. DecoderInv(opt, new)
  BY <1>1, <1>6, <1>7, <1>8, <1>9, TableKept DEF TableInv
<1>11. QED
  BY <1>3, <1>6, <1>8, <1>10, Zenon

\* The same where a mark comes inside an ID, and nothing elsewhere.
LEMMA CutIdStep ==
    ASSUME NEW opt \in OptionType, NEW dec, DecoderInv(opt, dec)
    PROVE  LET new == Crc!CutId(dec)
           IN /\ DecoderInv(opt, new)
              /\ new.awaiting_iam = dec.awaiting_iam /\ new.enc = dec.enc
  BY CutOffStep, Zenon DEF Crc!CutId

\* dmk_check_wraparound(), which takes the last entry out of the table, with an ID
\* just read in it.
LEMMA CheckWraparoundStep ==
    ASSUME NEW opt \in OptionType, NEW dec, DecoderInv(opt, dec), dec.idams # <<>>
    PROVE  LET new == Crc!CheckWraparound(opt, dec)
           IN /\ DecoderInv(opt, new)
              /\ new.ibyte \in {dec.ibyte, -1}
<1>1. dec \in DecoderType /\ ErrorsCover(dec) /\ TableInv(opt, dec)
  BY DEF DecoderInv
<1>2. dec.data \in Seq(Nat) /\ dec.idams \in Seq(EntryType) /\ dec.errcount \in Nat
  BY <1>1, Zenon DEF DecoderType
<1>3. PICK new : new = Crc!CheckWraparound(opt, dec)
  OBVIOUS
<1> SUFFICES DecoderInv(opt, new) /\ new.ibyte \in {dec.ibyte, -1}
  BY <1>3, Zenon
<1>4. CASE new = dec
  BY <1>4
<1>5. CASE new # dec
  <2>1. PICK t : t = SubSeq(dec.idams, 1, Len(dec.idams) - 1)
    OBVIOUS
  <2>2. new = [dec EXCEPT !.idams = t, !.awaiting_dam = FALSE, !.ibyte = -1, !.full = TRUE]
    BY <1>3, <1>5, <2>1, Zenon DEF Crc!CheckWraparound, Crc!Front, Crc!NoCount
  <2>3. PICK n \in Nat : Len(dec.idams) = n + 1
    <3>1. Len(dec.idams) \in Nat \ {0}
      BY <1>2, EmptySeq
    <3>2. Len(dec.idams) - 1 \in Nat
      BY <3>1
    <3>3. QED
      BY <3>1, <3>2, SMTT(60)
  <2>4. \A i \in 1 .. n : dec.idams[i] \in EntryType
    BY <1>2, <2>3, ElementOfSeq
  <2>5. /\ t \in Seq(EntryType) /\ Len(t) = n
        /\ \A i \in 1 .. n : t[i] = dec.idams[i]
    <3>1. t = SubSeq(dec.idams, 1, n)
      BY <2>1, <2>3
    <3>2. QED
      BY <2>4, <3>1, SubSeqProperties
  <2>6. DOMAIN t = 1 .. n /\ DOMAIN dec.idams = 1 .. n + 1
    BY <1>2, <2>3, <2>5, LenProperties
  <2>7. Bad(t) \in SUBSET Bad(dec.idams)
    BY <2>3, <2>5, <2>6 DEF Bad
  <2>8. Cardinality(Bad(t)) <= Cardinality(Bad(dec.idams))
    <3>1. IsFiniteSet(Bad(dec.idams))
      BY <1>2, BadFinite
    <3>2. QED
      BY <2>7, <3>1, FS_Subset, Zenon
  <2>9. -1 \in -1 .. 18
    OBVIOUS
  <2>10. new \in DecoderType
    BY <1>1, <2>2, <2>5, <2>9, ZenonT(60) DEF DecoderType
  <2>11. /\ new.idams = t /\ new.data = dec.data /\ new.ibyte = -1
         /\ new.awaiting_iam = dec.awaiting_iam /\ new.errcount = dec.errcount
    BY <1>1, <2>2 DEF DecoderType
  <2>12. ErrorsCover(new)
    <3>1. Cardinality(Bad(dec.idams)) \in Nat /\ Cardinality(Bad(t)) \in Nat
      BY <1>2, <2>5, BadFinite
    <3>2. QED
      BY <1>1, <1>2, <2>8, <2>11, <3>1 DEF ErrorsCover
  <2>13. Len(new.data) >= Len(dec.data)
    BY <1>2, <2>11, LenProperties
  <2>14. DOMAIN t \subseteq DOMAIN dec.idams /\ \A i \in DOMAIN t : t[i].off = dec.idams[i].off
    BY <2>3, <2>5, <2>6
  <2>15. DecoderInv(opt, new)
    BY <2>10, <2>11, <2>12, <2>13, <2>14, TableKept
  <2>16. QED
    BY <2>11, <2>15
<1>6. QED
  BY <1>4, <1>5, Zenon

\* Bytes moved or cut so that there are place of them.
LEMMA PlacedType ==
    ASSUME NEW data \in Seq(Nat), NEW place \in Nat, NEW encoding
    PROVE  Crc!Placed(data, place, encoding) \in Seq(Nat)
<1>1. Len(data) \in Nat
  BY LenProperties
<1>2. CASE Len(data) < place
  <2>1. PICK n \in Nat : n = place - Len(data)
    BY <1>1, <1>2
  <2>2. PICK gap : gap = [i \in 1 .. n |-> IF encoding = "MFM" THEN 78 ELSE 255]
    OBVIOUS
  <2>3. gap \in [1 .. n -> Nat]
    BY <2>2
  <2>4. gap \in Seq(Nat)
    BY <2>3, SeqDef
  <2>5. Crc!Placed(data, place, encoding) = gap \o data
    BY <1>2, <2>1, <2>2 DEF Crc!Placed
  <2>6. QED
    BY <2>4, <2>5, ConcatProperties
<1>3. CASE ~(Len(data) < place)
  <2>1. PICK m \in Int, n \in Int : m = Len(data) - place + 1 /\ n = Len(data)
    BY <1>1, SMTT(60)
  <2>2. \A i \in m .. n : data[i] \in Nat
    BY <1>1, <1>3, <2>1, ElementOfSeq
  <2>3. SubSeq(data, m, n) \in Seq(Nat)
    BY <2>2, SubSeqProperties
  <2>4. QED
    BY <1>3, <2>1, <2>3 DEF Crc!Placed
<1>4. QED
  BY <1>2, <1>3

\* Another entry, not flagged, at the end of a table.
LEMMA AppendTable ==
    ASSUME NEW idams \in Seq(EntryType), NEW e \in EntryType, ~e.bad
    PROVE  LET t == Append(idams, e)
           IN /\ t \in Seq(EntryType) /\ t # <<>> /\ Bad(t) = Bad(idams)
              /\ DOMAIN t = DOMAIN idams \cup {Len(idams) + 1}
              /\ \A i \in DOMAIN idams : t[i] = idams[i] /\ i < Len(idams) + 1
              /\ t[Len(idams) + 1] = e
<1>1. PICK n \in Nat : n = Len(idams)
  BY LenProperties
<1>2. DOMAIN idams = 1 .. n
  BY <1>1, LenProperties
<1>3. PICK t : t = Append(idams, e)
  OBVIOUS
<1>4. /\ t \in Seq(EntryType) /\ t # <<>> /\ Len(t) = n + 1
      /\ \A i \in 1 .. n : t[i] = idams[i]
      /\ t[n + 1] = e
  BY <1>1, <1>3, AppendProperties
<1>5. DOMAIN t = 1 .. n + 1
  BY <1>4, LenProperties
<1>6. Bad(t) = Bad(idams)
  BY <1>2, <1>4, <1>5 DEF Bad
<1>7. DOMAIN t = DOMAIN idams \cup {n + 1}
  BY <1>2, <1>5
<1>8. \A i \in DOMAIN idams : t[i] = idams[i] /\ i < n + 1
  BY <1>2, <1>4
<1>9. QED
  BY <1>1, <1>3, <1>4, <1>6, <1>7, <1>8, Zenon

\* A new entry is where the next byte goes.
LEMMA EntryAdded ==
    ASSUME NEW opt \in OptionType, NEW dec, DecoderInv(opt, dec), ~dec.awaiting_iam,
           NEW data \in Seq(Nat), data = dec.data \/ dec.idams = <<>>,
           Hdr + Len(data) < opt.tracklen,
           NEW e \in EntryType, ~e.bad, e.off = Hdr + Len(data),
           NEW new \in DecoderType,
           new.idams = Append(dec.idams, e), new.errcount = dec.errcount,
           ~new.awaiting_iam,
           Len(new.data) >= Len(data),
           Len(new.data) = Len(data) => Hdr + Len(data) >= opt.tracklen - 1
    PROVE  DecoderInv(opt, new)
<1>1. dec \in DecoderType /\ ErrorsCover(dec) /\ TableInv(opt, dec)
  BY DEF DecoderInv
<1>2. dec.idams \in Seq(EntryType) /\ dec.data \in Seq(Nat) /\ new.data \in Seq(Nat)
  BY <1>1, Zenon DEF DecoderType
<1>3. PICK len \in Nat, newLen \in Nat : len = Len(data) /\ newLen = Len(new.data)
  BY <1>2, LenProperties
<1>4. PICK tracklen \in Nat : tracklen = opt.tracklen
  BY TrackPassesAssumption, SMTT(60) DEF OptionType
<1>h. Hdr \in Nat
  BY TrackPassesAssumption
<1>a. /\ newLen >= len /\ Hdr + len < tracklen /\ e.off = Hdr + len
      /\ newLen = len => Hdr + len >= tracklen - 1
  BY <1>3, <1>4
<1>5. PICK last : last = Len(dec.idams) + 1
  OBVIOUS
<1>6. /\ new.idams # <<>> /\ Bad(new.idams) = Bad(dec.idams)
      /\ DOMAIN new.idams = DOMAIN dec.idams \cup {last}
      /\ \A i \in DOMAIN dec.idams : new.idams[i] = dec.idams[i] /\ i < last
      /\ new.idams[last] = e
  <2>1. PICK t : t = Append(dec.idams, e)
    OBVIOUS
  <2>2. /\ t # <<>> /\ Bad(t) = Bad(dec.idams)
        /\ DOMAIN t = DOMAIN dec.idams \cup {Len(dec.idams) + 1}
        /\ \A i \in DOMAIN dec.idams : t[i] = dec.idams[i] /\ i < Len(dec.idams) + 1
        /\ t[Len(dec.idams) + 1] = e
    BY <1>2, <2>1, AppendTable, ZenonT(60)
  <2>3. new.idams = t
    BY <2>1
  <2>4. QED
    BY <1>5, <2>2, <2>3, Zenon
<1>7. ErrorsCover(new)
  BY <1>1, <1>6, Zenon DEF ErrorsCover
<1>8. \A i \in DOMAIN dec.idams : dec.idams[i].off \in Nat
  <2> TAKE i \in DOMAIN dec.idams
  <2>1. dec.idams[i] \in EntryType
    BY <1>2, ElementOfSeq, LenProperties
  <2>2. QED
    BY <2>1, Zenon DEF EntryType
<1>9. \A i \in DOMAIN dec.idams : InTable(len, tracklen, dec.idams[i].off)
  <2>1. CASE data = dec.data
    BY <1>1, <1>3, <1>4, <2>1 DEF TableInv
  <2>2. CASE dec.idams = <<>>
    <3>1. DOMAIN dec.idams = {}
      BY <1>2, <2>2, LenProperties
    <3>2. QED
      BY <3>1
  <2>3. QED
    BY <2>1, <2>2
<1>10. ASSUME NEW i \in DOMAIN new.idams
       PROVE  InTable(newLen, tracklen, new.idams[i].off)
  <2>1. CASE i = last
    <3>1. new.idams[i].off = Hdr + len
      BY <1>6, <1>a, <2>1
    <3>2. QED
      BY <1>a, <1>h, <3>1 DEF InTable
  <2>2. CASE i \in DOMAIN dec.idams
    <3>1. PICK off \in Nat : off = dec.idams[i].off /\ off = new.idams[i].off
      BY <1>6, <1>8, <2>2
    <3>2. InTable(len, tracklen, off)
      BY <1>9, <2>2, <3>1
    <3>3. QED
      BY <1>a, <1>h, <3>1, <3>2, SMTT(60) DEF InTable
  <2>3. QED
    BY <1>6, <2>1, <2>2
<1>11. Increasing(tracklen, new.idams)
  <2> SUFFICES ASSUME NEW i \in DOMAIN new.idams, NEW j \in DOMAIN new.idams, i < j
               PROVE  \/ new.idams[i].off < new.idams[j].off
                      \/ new.idams[i].off = tracklen - 1 /\ new.idams[j].off = tracklen - 1
    BY DEF Increasing
  <2>1. DOMAIN dec.idams \subseteq Int /\ last \in Int
    BY <1>2, <1>5, LenProperties
  <2>2. i \in DOMAIN dec.idams
    BY <1>6, <2>1
  <2>3. CASE j = last
    <3>1. PICK off \in Nat : off = dec.idams[i].off /\ off = new.idams[i].off
      BY <1>6, <1>8, <2>2
    <3>2. InTable(len, tracklen, off)
      BY <1>9, <2>2, <3>1
    <3>3. new.idams[j].off = Hdr + len
      BY <1>6, <1>a, <2>3
    <3>4. \/ off < Hdr + len
          \/ (off = tracklen - 1 /\ Hdr + len = tracklen - 1)
      BY <1>a, <1>h, <3>1, <3>2, SMTT(60) DEF InTable
    <3>5. QED
      BY <3>1, <3>3, <3>4
  <2>4. CASE j \in DOMAIN dec.idams
    BY <1>1, <1>4, <1>6, <2>2, <2>4 DEF TableInv, Increasing
  <2>5. QED
    BY <1>6, <2>3, <2>4
<1>12. QED
  BY <1>3, <1>4, <1>6, <1>7, <1>10, <1>11, Zenon DEF DecoderInv, TableInv

\* dmk_idam()
LEMMA IdamStep ==
    ASSUME NEW opt \in OptionType, NEW dec, DecoderInv(opt, dec), ~dec.awaiting_iam,
           NEW b \in ByteType
    PROVE  DecoderInv(opt, Crc!Idam(opt, dec, b))
<1>1. dec \in DecoderType /\ TableInv(opt, dec)
  BY DEF DecoderInv
<1>2. /\ dec.data \in Seq(Nat) /\ dec.idams \in Seq(EntryType) /\ dec.errcount \in Nat
      /\ dec.enc \in Crc!Encodings
  BY <1>1, Zenon DEF DecoderType
<1>3. PICK new : new = Crc!Idam(opt, dec, b)
  OBVIOUS
<1> SUFFICES DecoderInv(opt, new)
  BY <1>3, Zenon
<1>4. PICK data : data = IF ~dec.awaiting_iam /\ Crc!AwaitingTrackStart(opt, dec)
                         THEN Crc!Placed(dec.data, Gap1Plus, dec.enc) ELSE dec.data
  OBVIOUS
<1>5. data \in Seq(Nat)
  BY <1>2, <1>4, PlacedType, TrackPassesAssumption
<1>6. data = dec.data \/ dec.idams = <<>>
  BY <1>4 DEF Crc!AwaitingTrackStart
<1>7. PICK d1 : d1 = [dec EXCEPT !.data = data, !.awaiting_dam = FALSE, !.valid_id = FALSE]
  OBVIOUS
<1>8. d1 \in DecoderType
  BY <1>1, <1>5, <1>7, ZenonT(60) DEF DecoderType
<1>9. /\ d1.idams = dec.idams /\ d1.data = data /\ d1.ibyte = dec.ibyte
      /\ d1.awaiting_iam = dec.awaiting_iam /\ d1.errcount = dec.errcount
      /\ d1.full = dec.full /\ d1.ignored = dec.ignored /\ d1.index_edge = dec.index_edge
      /\ d1.dbyte = dec.dbyte /\ d1.ebyte = dec.ebyte /\ d1.enc = dec.enc
      /\ ~d1.awaiting_dam
  BY <1>1, <1>7 DEF DecoderType
<1>10. DecoderInv(opt, d1)
  <2>1. CASE data = dec.data
    <3>1. Len(d1.data) >= Len(dec.data)
      BY <1>2, <1>9, <2>1, LenProperties
    <3>2. QED
      BY <1>2, <1>8, <1>9, <3>1, TableUntouched
  <2>2. CASE dec.idams = <<>>
    <3>1. DOMAIN d1.idams = {}
      BY <1>2, <1>9, <2>2, LenProperties
    <3>2. TableInv(opt, d1)
      BY <1>1, <1>9, <3>1 DEF TableInv, Increasing
    <3>3. ErrorsCover(d1)
      BY <1>9 DEF DecoderInv, ErrorsCover
    <3>4. QED
      BY <1>8, <3>2, <3>3 DEF DecoderInv
  <2>3. QED
    BY <1>6, <2>1, <2>2
<1>11. CASE ~Crc!InRange(opt, dec)
  <2>1. new = Crc!Checked(opt, dec)
    BY <1>3, <1>11 DEF Crc!Idam
  <2>2. QED
    BY <2>1, CheckedStep, Zenon
<1>12. CASE Crc!InRange(opt, dec) /\ ~Crc!Room(opt, d1)
  <2>1. new = d1
    BY <1>3, <1>4, <1>7, <1>12 DEF Crc!Idam
  <2>2. QED
    BY <1>10, <2>1
<1>13. CASE /\ Crc!InRange(opt, dec) /\ Crc!Room(opt, d1)
            /\ Len(dec.idams) >= MaxIdams
  <2>1. new = [d1 EXCEPT !.errcount = d1.errcount + 1]
    BY <1>3, <1>4, <1>7, <1>13 DEF Crc!Idam
  <2>2. d1.errcount \in Nat /\ d1.errcount + 1 \in Nat /\ d1.errcount + 1 >= d1.errcount
    BY <1>2, <1>9
  <2>3. new \in DecoderType
    BY <1>8, <2>1, <2>2, ZenonT(60) DEF DecoderType
  <2>4. /\ new.idams = d1.idams /\ new.data = d1.data /\ new.ibyte = d1.ibyte
        /\ new.awaiting_iam = d1.awaiting_iam /\ new.errcount = d1.errcount + 1
    BY <1>8, <2>1 DEF DecoderType
  <2>5. Len(new.data) >= Len(d1.data)
    BY <1>5, <1>9, <2>4, LenProperties
  <2>6. QED
    BY <1>10, <2>2, <2>3, <2>4, <2>5, TableUntouched
<1>14. CASE /\ Crc!InRange(opt, dec) /\ Crc!Room(opt, d1)
            /\ ~(Len(dec.idams) >= MaxIdams)
  <2>1. PICK len \in Nat : len = Len(data)
    BY <1>5, LenProperties
  <2>2. PICK e : e = Crc!Entry(Hdr + len, dec.enc)
    OBVIOUS
  <2>3. e \in EntryType /\ ~e.bad /\ e.off = Hdr + len
    <3>1. Hdr + len \in Nat
      BY TrackPassesAssumption
    <3>2. QED
      BY <1>2, <2>2, <3>1 DEF Crc!Entry, EntryType
  <2>4. PICK t : t = Append(dec.idams, e)
    OBVIOUS
  <2>5. t \in Seq(EntryType)
    BY <1>2, <2>3, <2>4, AppendProperties
  <2>6. PICK at : at = [d1 EXCEPT !.idams = t, !.ibyte = 0]
    OBVIOUS
  <2>7. new = Crc!Data(opt, at, b.v)
    <3>1. new = Crc!Data(opt, [d1 EXCEPT !.idams = Append(d1.idams, Crc!Entry(Hdr + Len(d1.data), dec.enc)),
                                         !.ibyte = 0], b.v)
      BY <1>3, <1>4, <1>7, <1>14 DEF Crc!Idam
    <3>2. QED
      BY <1>9, <2>1, <2>2, <2>4, <2>6, <3>1
  <2>8. at \in DecoderType
    <3>1. 0 \in -1 .. 18
      OBVIOUS
    <3>2. QED
      BY <1>8, <2>5, <2>6, <3>1, ZenonT(60) DEF DecoderType
  <2>9. /\ at.idams = t /\ at.data = data /\ at.errcount = dec.errcount
        /\ at.awaiting_iam = dec.awaiting_iam /\ ~at.awaiting_dam
        /\ at.full = dec.full /\ at.ignored = dec.ignored /\ at.index_edge = dec.index_edge
        /\ at.dbyte = dec.dbyte /\ at.ebyte = dec.ebyte /\ at.enc = dec.enc
    BY <1>8, <1>9, <2>6 DEF DecoderType
  <2>10. Crc!InRange(opt, at)
    BY <1>14, <2>9, Zenon DEF Crc!InRange, Crc!Ignoring, Crc!PastIndex
  <2>11. PICK put : put = IF Crc!DoubledFM(opt, at.enc) THEN <<b.v, b.v>> ELSE <<b.v>>
    OBVIOUS
  <2>12. PICK stored : stored = IF Hdr + len > opt.tracklen - 2 THEN data ELSE data \o put
    OBVIOUS
  <2>13. new = [at EXCEPT !.data = stored]
    BY <2>1, <2>7, <2>9, <2>10, <2>11, <2>12 DEF Crc!Data
  <2>14. b.v \in Nat
    BY DEF ByteType
  <2>15. put \in Seq(Nat) /\ Len(put) \in Nat /\ Len(put) >= 1
    BY <2>11, <2>14
  <2>16. opt.tracklen \in Nat /\ Hdr \in Nat
    BY TrackPassesAssumption DEF OptionType
  <2>17. /\ stored \in Seq(Nat) /\ Len(stored) >= len
         /\ Len(stored) = len => Hdr + len >= opt.tracklen - 1
    <3>1. data \o put \in Seq(Nat) /\ Len(data \o put) = len + Len(put)
      BY <1>5, <2>1, <2>15, ConcatProperties
    <3>2. CASE Hdr + len > opt.tracklen - 2
      BY <1>5, <2>1, <2>12, <2>16, <3>2
    <3>3. CASE ~(Hdr + len > opt.tracklen - 2)
      BY <2>12, <2>15, <2>16, <3>1, <3>3, SMTT(60)
    <3>4. QED
      BY <3>2, <3>3
  <2>18. new \in DecoderType
    BY <2>8, <2>13, <2>17, ZenonT(60) DEF DecoderType
  <2>19. /\ new.idams = Append(dec.idams, e) /\ new.data = stored
         /\ new.awaiting_iam = dec.awaiting_iam /\ new.errcount = dec.errcount
    BY <2>4, <2>8, <2>9, <2>13 DEF DecoderType
  <2>20. Hdr + Len(data) < opt.tracklen
    BY <1>9, <1>14 DEF Crc!Room
  <2>21. QED
    BY <1>5, <1>6, <2>1, <2>3, <2>17, <2>18, <2>19, <2>20, EntryAdded
<1>15. QED
  BY <1>11, <1>12, <1>13, <1>14, Zenon

\* dmk_iam()
LEMMA IamStep ==
    ASSUME NEW opt \in OptionType, NEW dec, DecoderInv(opt, dec), NEW b \in ByteType
    PROVE  DecoderInv(opt, Crc!Iam(opt, dec, b))
<1>1. dec \in DecoderType /\ TableInv(opt, dec)
  BY DEF DecoderInv
<1>2. /\ dec.data \in Seq(Nat) /\ dec.idams \in Seq(EntryType) /\ dec.errcount \in Nat
      /\ dec.awaiting_iam \in BOOLEAN /\ b.v \in 0 .. 255
  BY <1>1, Zenon DEF DecoderType, ByteType
<1>3. PICK new : new = Crc!Iam(opt, dec, b)
  OBVIOUS
<1> SUFFICES DecoderInv(opt, new)
  BY <1>3, Zenon
<1>4. PICK place : place = IF Crc!DoubledFM(opt, dec.enc) THEN 2 * opt.iam_pos ELSE opt.iam_pos
  OBVIOUS
<1>5. PICK first : first = (dec.awaiting_iam \/ dec.idams = <<>>)
  OBVIOUS
<1>6. first => dec.idams = <<>>
  BY <1>1, <1>5, Zenon DEF TableInv
<1>7. PICK d1 : d1 = IF opt.iam_pos >= 0 /\ first
                     THEN [dec EXCEPT !.data = Crc!Placed(dec.data, place, dec.enc),
                                      !.awaiting_iam = FALSE]
                     ELSE dec
  OBVIOUS
<1>8. PICK at : at = [d1 EXCEPT !.awaiting_dam = FALSE, !.valid_id = FALSE]
  OBVIOUS
<1>9. DecoderInv(opt, d1)
  <2>1. CASE opt.iam_pos >= 0 /\ first
    <3>1. place \in Nat
      BY <1>4, <2>1 DEF OptionType
    <3>2. PICK data \in Seq(Nat) : data = Crc!Placed(dec.data, place, dec.enc)
      BY <1>2, <3>1, PlacedType
    <3>3. d1 = [dec EXCEPT !.data = data, !.awaiting_iam = FALSE]
      BY <1>7, <2>1, <3>2
    <3>4. d1 \in DecoderType
      BY <1>1, <3>2, <3>3, ZenonT(60) DEF DecoderType
    <3>5. /\ d1.idams = <<>> /\ d1.idams = dec.idams /\ d1.ibyte = dec.ibyte
          /\ d1.errcount = dec.errcount
      BY <1>1, <1>6, <2>1, <3>3 DEF DecoderType
    <3>6. DOMAIN d1.idams = {}
      BY <3>5
    <3>7. TableInv(opt, d1) /\ ErrorsCover(d1)
      BY <1>1, <3>5, <3>6 DEF TableInv, Increasing, DecoderInv, ErrorsCover
    <3>8. QED
      BY <3>4, <3>7 DEF DecoderInv
  <2>2. CASE ~(opt.iam_pos >= 0 /\ first)
    BY <1>7, <2>2
  <2>3. QED
    BY <2>1, <2>2, Zenon
<1>10. DecoderInv(opt, at)
  <2>1. d1 \in DecoderType
    BY <1>9 DEF DecoderInv
  <2>2. at \in DecoderType
    BY <1>8, <2>1, ZenonT(60) DEF DecoderType
  <2>3. /\ at.idams = d1.idams /\ at.data = d1.data /\ at.ibyte = d1.ibyte
        /\ at.awaiting_iam = d1.awaiting_iam /\ at.errcount = d1.errcount
    BY <1>8, <2>1 DEF DecoderType
  <2>4. d1.data \in Seq(Nat) /\ d1.errcount \in Nat
    BY <2>1, Zenon DEF DecoderType
  <2>5. QED
    BY <1>9, <2>2, <2>3, <2>4, TableUntouched, LenProperties
<1>11. \/ new = Crc!Checked(opt, dec)
       \/ new = [dec EXCEPT !.full = TRUE]
       \/ new = Crc!Data(opt, at, b.v)
  BY <1>3, <1>4, <1>5, <1>7, <1>8 DEF Crc!Iam
<1>12. CASE new = Crc!Checked(opt, dec)
  BY <1>12, CheckedStep, Zenon
<1>13. CASE new = [dec EXCEPT !.full = TRUE]
  <2>1. new \in DecoderType
    BY <1>1, <1>13, ZenonT(60) DEF DecoderType
  <2>2. SameCounts(dec, new) /\ new.data = dec.data
    BY <1>1, <1>13 DEF DecoderType, SameCounts
  <2>3. QED
    BY <1>2, <2>1, <2>2, BytesOnly, LenProperties
<1>14. CASE new = Crc!Data(opt, at, b.v)
  BY <1>2, <1>10, <1>14, DataStep, Zenon
<1>15. QED
  BY <1>11, <1>12, <1>13, <1>14, Zenon

\* The data bytes of a sector are a number.
LEMMA SecSizeType ==
    ASSUME NEW sizecode \in Nat, NEW encoding, NEW maxsize \in Nat, NEW quirk
    PROVE  Crc!SecSizeOf(sizecode, encoding, maxsize, quirk) \in Nat
<1>1. Sec128 \in Nat /\ Sec16 \in Nat
  BY TrackPassesAssumption
<1>2. sizecode % (maxsize + 1) \in Nat
  OBVIOUS
<1>3. PICK p \in Nat, q \in Nat : p = 2 ^ sizecode /\ q = 2 ^ (sizecode % (maxsize + 1))
  BY <1>2, PowerOfTwo
<1>4. \A x \in Nat, y \in Nat : x * y \in Nat
  OBVIOUS
<1>5. Sec128 * p \in Nat /\ Sec128 * q \in Nat /\ 2 * Sec128 * q \in Nat /\ Sec16 * sizecode \in Nat
  <2>1. 2 * Sec128 \in Nat
    BY <1>1
  <2>2. QED
    BY <1>1, <1>3, <1>4, <2>1
<1>6. PICK size : size = CASE encoding = "MFM"  -> Sec128 * q
                           [] encoding = "RX02" -> 2 * Sec128 * q
                           [] OTHER             -> IF sizecode <= maxsize THEN Sec128 * p
                                                   ELSE Sec16 * sizecode
  OBVIOUS
<1>7. size \in Nat
  BY <1>5, <1>6
<1>8. Crc!SecSizeOf(sizecode, encoding, maxsize, quirk)
        = size + (IF "EXTRA_DATA" \in quirk THEN 4 ELSE 0)
  BY <1>3, <1>6, Zenon DEF Crc!SecSizeOf
<1>9. QED
  BY <1>7, <1>8

-----------------------------------------------------------------------------
(* Marks and bytes.                                                        *)

CrcType == {"open", "zero", "bad"}

\* A byte leaves the CRC open, at zero or bad.
LEMMA CrcStepType == \A crc, b : CrcStep(crc, b) \in CrcType
  BY DEF CrcStep, CrcType

\* A step that only sets the counters, the CRC and the encoding.
LEMMA CountersSet ==
    ASSUME NEW opt, NEW dec, DecoderInv(opt, dec),
           NEW ibyte \in -1 .. 18, NEW dbyte \in Counter, NEW ebyte \in -1 .. 6,
           NEW crc \in CrcType, NEW enc \in Crc!Encodings,
           ibyte # -1 => dec.ibyte # -1
    PROVE  LET new == [dec EXCEPT !.ibyte = ibyte, !.dbyte = dbyte, !.ebyte = ebyte,
                                  !.crc = crc, !.enc = enc]
           IN DecoderInv(opt, new) /\ new.ibyte = ibyte
<1>1. dec \in DecoderType
  BY DEF DecoderInv
<1>2. dec.data \in Seq(Nat) /\ dec.errcount \in Nat
  BY <1>1, Zenon DEF DecoderType
<1>3. PICK new : new = [dec EXCEPT !.ibyte = ibyte, !.dbyte = dbyte, !.ebyte = ebyte,
                                   !.crc = crc, !.enc = enc]
  OBVIOUS
<1>4. new \in DecoderType
  BY <1>1, <1>3, ZenonT(60) DEF DecoderType, CrcType
<1>5. /\ new.idams = dec.idams /\ new.errcount = dec.errcount /\ new.data = dec.data
      /\ new.ibyte = ibyte /\ new.awaiting_iam = dec.awaiting_iam
  BY <1>1, <1>3 DEF DecoderType
<1>6. DecoderInv(opt, new)
  BY <1>2, <1>4, <1>5, TableUntouched, LenProperties
<1>7. QED
  BY <1>3, <1>5, <1>6, Zenon

\* The fields of a decoder that CountersSet sets, as they are.
LEMMA CountersType ==
    ASSUME NEW dec \in DecoderType
    PROVE  /\ dec.ibyte \in -1 .. 18 /\ dec.dbyte \in Counter /\ dec.ebyte \in -1 .. 6
           /\ dec.crc \in CrcType /\ dec.enc \in Crc!Encodings /\ dec.data \in Seq(Nat)
           /\ dec.idams \in Seq(EntryType) /\ dec.errcount \in Nat
           /\ dec.sizecode \in Nat /\ dec.good \in Nat /\ dec.backward \in Nat
           /\ dec.curcyl \in Nat /\ dec.index_edge \in Nat
  BY Zenon DEF DecoderType, CrcType

\* What a counter holds that does not count.
LEMMA NoCountType == -1 \in -1 .. 18 /\ -1 \in Counter /\ -1 \in -1 .. 6
  BY DEF Counter

\* An index address mark.
LEMMA IndexMarkStep ==
    ASSUME NEW opt \in OptionType, NEW dec, DecoderInv(opt, dec), NEW b \in ByteType
    PROVE  DecoderInv(opt, Crc!IndexMark(opt, dec, b))
<1>1. PICK at : at = Crc!Iam(opt, Crc!CheckMissingDam(opt, Crc!CutId(dec)), b)
  OBVIOUS
<1>2. DecoderInv(opt, at)
  <2>1. PICK cut : cut = Crc!CutId(dec)
    OBVIOUS
  <2>2. DecoderInv(opt, cut)
    BY <2>1, CutIdStep, Zenon
  <2>3. PICK ended : ended = Crc!CheckMissingDam(opt, cut)
    OBVIOUS
  <2>4. DecoderInv(opt, ended)
    BY <2>2, <2>3, CheckMissingDamStep, Zenon
  <2>5. QED
    BY <1>1, <2>1, <2>3, <2>4, IamStep, Zenon
<1>3. at \in DecoderType
  BY <1>2 DEF DecoderInv
<1>4. PICK new : new = [at EXCEPT !.ibyte = -1, !.dbyte = -1, !.ebyte = -1,
                                  !.crc = at.crc, !.enc = at.enc]
  OBVIOUS
<1>5. Crc!IndexMark(opt, dec, b) = [at EXCEPT !.ibyte = -1, !.dbyte = -1, !.ebyte = -1]
  BY <1>1, Zenon DEF Crc!IndexMark, Crc!NoCount
<1>6. new = [at EXCEPT !.ibyte = -1, !.dbyte = -1, !.ebyte = -1]
  BY <1>3, <1>4 DEF DecoderType
<1>7. DecoderInv(opt, new)
  BY <1>2, <1>3, <1>4, CountersSet, CountersType, NoCountType, ZenonT(60)
<1>8. QED
  BY <1>5, <1>6, <1>7, Zenon

\* An ID address mark.
LEMMA IdMarkStep ==
    ASSUME NEW opt \in OptionType, NEW dec, DecoderInv(opt, dec), ~dec.awaiting_iam,
           NEW b \in ByteType
    PROVE  DecoderInv(opt, Crc!IdMark(opt, dec, b))
<1>1. PICK at : at = Crc!Idam(opt, Crc!CheckMissingDam(opt, Crc!CutId(dec)), b)
  OBVIOUS
<1>2. DecoderInv(opt, at)
  <2>1. PICK cut : cut = Crc!CutId(dec)
    OBVIOUS
  <2>2. DecoderInv(opt, cut) /\ cut.awaiting_iam = dec.awaiting_iam
    BY <2>1, CutIdStep, Zenon
  <2>3. PICK ended : ended = Crc!CheckMissingDam(opt, cut)
    OBVIOUS
  <2>4. DecoderInv(opt, ended) /\ ended.awaiting_iam = cut.awaiting_iam
    BY <2>2, <2>3, CheckMissingDamStep, Zenon
  <2>5. ~ended.awaiting_iam
    BY <2>2, <2>4
  <2>6. QED
    BY <1>1, <2>1, <2>3, <2>4, <2>5, IdamStep, Zenon
<1>3. at \in DecoderType
  BY <1>2 DEF DecoderInv
<1>c. PICK crc : crc = CrcStep(Crc!A1Crc(opt, dec, "ID_CRC"), b)
  OBVIOUS
<1>4. PICK new : new = [at EXCEPT !.ibyte = at.ibyte, !.dbyte = -1, !.ebyte = -1,
                                  !.crc = crc, !.enc = at.enc]
  OBVIOUS
<1>5. Crc!IdMark(opt, dec, b) = [at EXCEPT !.crc = crc, !.dbyte = -1, !.ebyte = -1]
  BY <1>1, <1>c, Zenon DEF Crc!IdMark, Crc!NoCount
<1>6. new = [at EXCEPT !.crc = crc, !.dbyte = -1, !.ebyte = -1]
  BY <1>3, <1>4 DEF DecoderType
<1>7. DecoderInv(opt, new)
  <2>1. /\ at.ibyte \in -1 .. 18 /\ -1 \in Counter /\ -1 \in -1 .. 6
        /\ crc \in CrcType /\ at.enc \in Crc!Encodings
    BY <1>3, <1>c, CrcStepType, CountersType, NoCountType, Zenon
  <2>2. QED
    BY <1>2, <1>4, <2>1, CountersSet, ZenonT(60)
<1>8. QED
  BY <1>5, <1>6, <1>7, Zenon

\* A data address mark.
LEMMA DataMarkStep ==
    ASSUME NEW opt \in OptionType, NEW dec, DecoderInv(opt, dec), NEW b \in ByteType
    PROVE  DecoderInv(opt, Crc!DataMark(opt, dec, b))
<1>1. PICK at : at = [dec EXCEPT !.awaiting_dam = FALSE]
  OBVIOUS
<1>2. dec \in DecoderType
  BY DEF DecoderInv
<1>3. DecoderInv(opt, at)
  <2>1. at \in DecoderType
    BY <1>1, <1>2, ZenonT(60) DEF DecoderType
  <2>2. /\ at.idams = dec.idams /\ at.errcount = dec.errcount /\ at.data = dec.data
        /\ at.ibyte = dec.ibyte /\ at.awaiting_iam = dec.awaiting_iam
    BY <1>1, <1>2 DEF DecoderType
  <2>3. QED
    BY <1>2, <2>1, <2>2, TableUntouched, LenProperties, CountersType, SMTT(60)
<1>4. PICK d1 : d1 = Crc!Data(opt, at, b.v)
  OBVIOUS
<1>5. DecoderInv(opt, d1)
  <2>1. b.v \in 0 .. 255
    BY DEF ByteType
  <2>2. QED
    BY <1>3, <1>4, <2>1, DataStep, Zenon
<1>6. d1 \in DecoderType
  BY <1>5 DEF DecoderInv
<1>7. PICK enc : enc = IF Crc!SwitchesToRX02(opt, dec, b.v) THEN "RX02" ELSE d1.enc
  OBVIOUS
<1>8. enc \in Crc!Encodings
  BY <1>6, <1>7, CountersType DEF Crc!Encodings
<1>9. PICK d2 : d2 = [d1 EXCEPT !.enc = enc]
  OBVIOUS
<1>10. PICK crc : crc = CrcStep(Crc!A1Crc(opt, d2, "DATA_CRC"), b)
  OBVIOUS
<1>11. PICK dbyte : dbyte = Crc!SecSizeOf(d2.sizecode, d2.enc, opt.maxsecsize, opt.quirk) + 2
  OBVIOUS
<1>12. dbyte \in Counter
  <2>1. d2.sizecode = d1.sizecode /\ d1.sizecode \in Nat /\ opt.maxsecsize \in Nat
    BY <1>6, <1>9 DEF DecoderType, OptionType
  <2>2. Crc!SecSizeOf(d2.sizecode, d2.enc, opt.maxsecsize, opt.quirk) \in Nat
    BY <2>1, SecSizeType
  <2>3. QED
    BY <1>11, <2>2 DEF Counter
<1>13. PICK new : new = [d1 EXCEPT !.ibyte = -1, !.dbyte = dbyte, !.ebyte = -1,
                                   !.crc = crc, !.enc = enc]
  OBVIOUS
<1>14. Crc!DataMark(opt, dec, b) = [d2 EXCEPT !.crc = crc, !.ibyte = -1, !.dbyte = dbyte, !.ebyte = -1]
  BY <1>1, <1>4, <1>7, <1>9, <1>10, <1>11, Zenon DEF Crc!DataMark, Crc!NoCount
<1>15. new = [d2 EXCEPT !.crc = crc, !.ibyte = -1, !.dbyte = dbyte, !.ebyte = -1]
  BY <1>6, <1>9, <1>13 DEF DecoderType
<1>16. DecoderInv(opt, new)
  BY <1>5, <1>8, <1>10, <1>12, <1>13, CrcStepType, CountersSet, NoCountType, ZenonT(60)
<1>17. QED
  BY <1>14, <1>15, <1>16, Zenon

\* A premark or a mark that is none.
LEMMA NoMarkStep ==
    ASSUME NEW opt \in OptionType, NEW dec, DecoderInv(opt, dec),
           NEW b \in ByteType, NEW mark
    PROVE  DecoderInv(opt, Crc!NoMark(opt, dec, b, mark))
<1>1. dec \in DecoderType
  BY DEF DecoderInv
<1>2. dec.errcount \in Nat /\ dec.data \in Seq(Nat) /\ dec.backward \in Nat
  BY <1>1, CountersType
<1>3. PICK new : new = Crc!NoMark(opt, dec, b, mark)
  OBVIOUS
<1> SUFFICES DecoderInv(opt, new)
  BY <1>3, Zenon
<1>4. \/ new = dec
      \/ new = [dec EXCEPT !.errcount = dec.errcount + 1]
      \/ new = Crc!Checked(opt, dec)
      \/ new = [dec EXCEPT !.backward = dec.backward + 1]
      \/ new = Crc!Data(opt, dec, b.v)
  BY <1>3 DEF Crc!NoMark
<1>5. CASE new = dec
  BY <1>5
<1>6. CASE new = [dec EXCEPT !.errcount = dec.errcount + 1]
  <2>1. dec.errcount + 1 \in Nat
    BY <1>2
  <2>2. new \in DecoderType
    BY <1>1, <1>6, <2>1, ZenonT(60) DEF DecoderType
  <2>3. /\ new.idams = dec.idams /\ new.errcount = dec.errcount + 1 /\ new.data = dec.data
        /\ new.ibyte = dec.ibyte /\ new.awaiting_iam = dec.awaiting_iam
    BY <1>1, <1>6 DEF DecoderType
  <2>4. QED
    BY <1>2, <2>2, <2>3, TableUntouched, LenProperties
<1>7. CASE new = Crc!Checked(opt, dec)
  BY <1>7, CheckedStep, Zenon
<1>8. CASE new = [dec EXCEPT !.backward = dec.backward + 1]
  <2>1. dec.backward + 1 \in Nat
    BY <1>2
  <2>2. new \in DecoderType
    BY <1>1, <1>8, <2>1, ZenonT(60) DEF DecoderType
  <2>3. SameCounts(dec, new) /\ new.data = dec.data
    BY <1>1, <1>8 DEF DecoderType, SameCounts
  <2>4. QED
    BY <1>2, <2>2, <2>3, BytesOnly, LenProperties
<1>9. CASE new = Crc!Data(opt, dec, b.v)
  <2>1. b.v \in 0 .. 255
    BY DEF ByteType
  <2>2. QED
    BY <1>9, <2>1, DataStep, ZenonT(60)
<1>10. QED
  BY <1>4, <1>5, <1>6, <1>7, <1>8, <1>9, Zenon

\* A byte of an ID.  None has more bytes than ibyte can count.
LEMMA IdByteStep ==
    ASSUME NEW opt \in OptionType, NEW dec, DecoderInv(opt, dec), NEW b \in ByteType
    PROVE  LET new == Crc!IdByte(opt, dec, b)
           IN DecoderInv(opt, new) /\ new.ibyte # 18
<1>1. dec \in DecoderType /\ TableInv(opt, dec)
  BY DEF DecoderInv
<1>2. /\ dec.ibyte \in -1 .. 18 /\ dec.data \in Seq(Nat) /\ dec.idams \in Seq(EntryType)
      /\ dec.errcount \in Nat /\ b.v \in Nat
  <2>1. b.v \in 0 .. 255
    BY DEF ByteType
  <2>2. b.v \in Nat
    BY <2>1
  <2>3. QED
    BY <1>1, <2>2, CountersType, Zenon
<1>3. PICK new : new = Crc!IdByte(opt, dec, b)
  OBVIOUS
<1> SUFFICES DecoderInv(opt, new) /\ new.ibyte # 18
  BY <1>3, Zenon
<1>4. CASE dec.ibyte = 0
  <2>1. new = [dec EXCEPT !.curcyl = b.v]
    BY <1>3, <1>4 DEF Crc!IdByte
  <2>2. new \in DecoderType
    BY <1>1, <1>2, <2>1, ZenonT(60) DEF DecoderType
  <2>3. SameCounts(dec, new) /\ new.data = dec.data
    BY <1>1, <2>1 DEF DecoderType, SameCounts
  <2>4. QED
    BY <1>2, <1>4, <2>2, <2>3, BytesOnly, LenProperties DEF SameCounts
<1>5. CASE dec.ibyte = 3
  <2>1. new = [dec EXCEPT !.sizecode = b.v]
    BY <1>3, <1>5 DEF Crc!IdByte
  <2>2. new \in DecoderType
    BY <1>1, <1>2, <2>1, ZenonT(60) DEF DecoderType
  <2>3. /\ new.idams = dec.idams /\ new.errcount = dec.errcount /\ new.data = dec.data
        /\ new.ibyte = dec.ibyte /\ new.awaiting_iam = dec.awaiting_iam
    BY <1>1, <2>1 DEF DecoderType
  <2>4. QED
    BY <1>2, <1>5, <2>2, <2>3, TableUntouched, LenProperties
<1>6. CASE dec.ibyte = 6
  <2>1. PICK judged : judged = IF IsZero(dec.crc) THEN [dec EXCEPT !.valid_id = TRUE]
                               ELSE [Crc!Flag(opt, dec) EXCEPT !.errcount = @ + 1, !.ibyte = -1]
    OBVIOUS
  <2>2. PICK at : at = [judged EXCEPT !.awaiting_dam = TRUE]
    OBVIOUS
  <2>3. new = Crc!CheckWraparound(opt, at)
    <3>1. dec.ibyte # 0 /\ dec.ibyte # 3 /\ dec.ibyte # 18
      BY <1>6
    <3>2. QED
      BY <1>3, <1>6, <2>1, <2>2, <3>1, Zenon DEF Crc!IdByte, Crc!NoCount
  <2>4. dec.idams # <<>>
    BY <1>1, <1>6 DEF TableInv
  <2>5. DecoderInv(opt, at) /\ at.idams # <<>> /\ at.ibyte # 18
    <3>1. CASE IsZero(dec.crc)
      <4>1. at \in DecoderType
        <5>1. judged \in DecoderType
          BY <1>1, <2>1, <3>1, ZenonT(60) DEF DecoderType
        <5>2. QED
          BY <2>2, <5>1, ZenonT(60) DEF DecoderType
      <4>2. /\ at.idams = dec.idams /\ at.errcount = dec.errcount /\ at.data = dec.data
            /\ at.ibyte = dec.ibyte /\ at.awaiting_iam = dec.awaiting_iam
        BY <1>1, <2>1, <2>2, <3>1 DEF DecoderType
      <4>3. QED
        BY <1>2, <1>6, <2>4, <4>1, <4>2, TableUntouched, LenProperties
    <3>2. CASE ~IsZero(dec.crc)
      <4>1. PICK t : t = FlaggedTable(opt, dec.idams)
        OBVIOUS
      <4>2. Crc!Flag(opt, dec) = [dec EXCEPT !.idams = t] /\ t \in Seq(EntryType)
        BY <1>1, <4>1, FlagShape, Zenon
      <4>3. PICK errs \in Nat : errs = dec.errcount + 1
        BY <1>2
      <4>f. PICK flagged : flagged = [dec EXCEPT !.idams = t]
        OBVIOUS
      <4>g. flagged \in DecoderType
        BY <1>1, <4>2, <4>f, ZenonT(60) DEF DecoderType
      <4>h. /\ flagged.errcount = dec.errcount /\ flagged.idams = t /\ flagged.data = dec.data
            /\ flagged.awaiting_iam = dec.awaiting_iam
        BY <1>1, <4>f DEF DecoderType
      <4>4. at = [flagged EXCEPT !.errcount = errs, !.ibyte = -1, !.awaiting_dam = TRUE]
        <5>1. judged = [flagged EXCEPT !.errcount = errs, !.ibyte = -1]
          BY <2>1, <3>2, <4>2, <4>3, <4>f, <4>h, Zenon
        <5>2. QED
          BY <2>2, <4>g, <5>1 DEF DecoderType
      <4>5. at \in DecoderType
        BY <4>3, <4>4, <4>g, NoCountType, ZenonT(60) DEF DecoderType
      <4>6. /\ at.idams = t /\ at.errcount = errs /\ at.data = dec.data
            /\ at.ibyte = -1 /\ at.awaiting_iam = dec.awaiting_iam
        BY <4>4, <4>g, <4>h DEF DecoderType
      <4>7. Len(at.data) >= Len(dec.data)
        BY <1>2, <4>6, LenProperties
      <4>8. DecoderInv(opt, at)
        BY <1>2, <4>1, <4>3, <4>5, <4>6, <4>7, FlagKept, SMTT(60)
      <4>9. t # <<>>
        BY <1>2, <2>4, <4>1, FlagTable, Zenon DEF FlaggedTable
      <4>10. QED
        BY <4>6, <4>8, <4>9
    <3>3. QED
      BY <3>1, <3>2, Zenon
  <2>6. DecoderInv(opt, new) /\ new.ibyte \in {at.ibyte, -1}
    BY <2>3, <2>5, CheckWraparoundStep, Zenon
  <2>7. QED
    BY <2>5, <2>6
<1>7. CASE dec.ibyte = 18
  <2>1. new = [dec EXCEPT !.ibyte = -1]
    BY <1>3, <1>7 DEF Crc!IdByte, Crc!NoCount
  <2>2. new \in DecoderType
    BY <1>1, <2>1, NoCountType, ZenonT(60) DEF DecoderType
  <2>3. /\ new.idams = dec.idams /\ new.errcount = dec.errcount /\ new.data = dec.data
        /\ new.ibyte = -1 /\ new.awaiting_iam = dec.awaiting_iam
    BY <1>1, <2>1 DEF DecoderType
  <2>4. QED
    BY <1>2, <2>2, <2>3, TableUntouched, LenProperties
<1>8. CASE dec.ibyte \notin {0, 3, 6, 18}
  <2>1. new = dec
    BY <1>3, <1>8 DEF Crc!IdByte
  <2>2. QED
    BY <1>8, <2>1
<1>9. QED
  BY <1>4, <1>5, <1>6, <1>7, <1>8

\* A byte stored and counted.
LEMMA CountedStep ==
    ASSUME NEW opt \in OptionType, NEW dec, DecoderInv(opt, dec), dec.ibyte # 18,
           NEW b \in ByteType
    PROVE  DecoderInv(opt, Crc!Counted(opt, dec, b))
<1>1. PICK at : at = Crc!Data(opt, dec, b.v)
  OBVIOUS
<1>2. DecoderInv(opt, at) /\ SameCounts(dec, at)
  <2>1. b.v \in 0 .. 255
    BY DEF ByteType
  <2>2. QED
    BY <1>1, <2>1, DataStep, Zenon
<1>3. at \in DecoderType
  BY <1>2 DEF DecoderInv
<1>4. PICK ibyte, dbyte, ebyte, crc :
           /\ ibyte = IF at.ibyte >= 0 THEN at.ibyte + 1 ELSE at.ibyte
           /\ dbyte = IF at.dbyte > 0 THEN at.dbyte - 1 ELSE at.dbyte
           /\ ebyte = IF at.ebyte > 0 THEN at.ebyte - 1 ELSE at.ebyte
           /\ crc = CrcStep(at.crc, b)
  OBVIOUS
<1>5. /\ ibyte \in -1 .. 18 /\ dbyte \in Counter /\ ebyte \in -1 .. 6
      /\ ibyte # -1 => at.ibyte # -1
  <2>1. /\ at.ibyte \in -1 .. 18 /\ at.dbyte \in Counter /\ at.ebyte \in -1 .. 6
        /\ at.ibyte # 18
    BY <1>2, <1>3, CountersType DEF SameCounts
  <2>2. QED
    BY <1>4, <2>1 DEF Counter
<1>6. PICK new : new = [at EXCEPT !.ibyte = ibyte, !.dbyte = dbyte, !.ebyte = ebyte,
                                  !.crc = crc, !.enc = at.enc]
  OBVIOUS
<1>7. Crc!Counted(opt, dec, b) = [at EXCEPT !.ibyte = ibyte, !.dbyte = dbyte, !.ebyte = ebyte,
                                            !.crc = crc]
  BY <1>1, <1>4, Zenon DEF Crc!Counted
<1>8. new = [at EXCEPT !.ibyte = ibyte, !.dbyte = dbyte, !.ebyte = ebyte, !.crc = crc]
  BY <1>3, <1>6 DEF DecoderType
<1>9. crc \in CrcType /\ at.enc \in Crc!Encodings
  BY <1>3, <1>4, CrcStepType, CountersType, Zenon
<1>10. DecoderInv(opt, new)
  BY <1>2, <1>5, <1>6, <1>9, CountersSet, Zenon
<1>11. QED
  BY <1>7, <1>8, <1>10, Zenon

\* A sector found good.
LEMMA GoodSectorStep ==
    ASSUME NEW opt \in OptionType, NEW dec, DecoderInv(opt, dec)
    PROVE  LET new == Crc!GoodSector(dec)
           IN DecoderInv(opt, new) /\ new.ibyte = dec.ibyte
<1>1. dec \in DecoderType
  BY DEF DecoderInv
<1>2. /\ dec.good \in Nat /\ dec.curcyl \in Nat /\ dec.enc \in Crc!Encodings
      /\ dec.data \in Seq(Nat) /\ dec.errcount \in Nat
      /\ dec.first_encoding \in Crc!Encodings /\ dec.rx02_seen \in BOOLEAN
  BY <1>1, Zenon DEF DecoderType
<1>3. PICK new : new = Crc!GoodSector(dec)
  OBVIOUS
<1> SUFFICES DecoderInv(opt, new) /\ new.ibyte = dec.ibyte
  BY <1>3, Zenon
<1>4. CASE ~dec.valid_id
  BY <1>3, <1>4 DEF Crc!GoodSector
<1>5. CASE dec.valid_id
  <2>1. PICK first, seen : /\ first = IF dec.good = 0 THEN dec.enc ELSE dec.first_encoding
                           /\ seen = (dec.rx02_seen \/ dec.enc = "RX02")
    OBVIOUS
  <2>2. new = [dec EXCEPT !.first_encoding = first, !.good = dec.good + 1,
                          !.rx02_seen = seen, !.cyl_seen = dec.curcyl]
    BY <1>3, <1>5, <2>1, Zenon DEF Crc!GoodSector
  <2>3. first \in Crc!Encodings /\ seen \in BOOLEAN
    BY <1>2, <2>1
  <2>4. dec.good + 1 \in Nat /\ dec.curcyl \in Int
    BY <1>2
  <2>5. new \in DecoderType
    BY <1>1, <2>2, <2>3, <2>4, ZenonT(60) DEF DecoderType
  <2>6. /\ new.idams = dec.idams /\ new.errcount = dec.errcount /\ new.data = dec.data
        /\ new.ibyte = dec.ibyte /\ new.awaiting_iam = dec.awaiting_iam
    BY <1>1, <2>2 DEF DecoderType
  <2>7. QED
    BY <1>2, <2>5, <2>6, TableUntouched, LenProperties
<1>6. QED
  BY <1>4, <1>5, Zenon

\* The end of a data field.
LEMMA DataEndStep ==
    ASSUME NEW opt \in OptionType, NEW dec, DecoderInv(opt, dec)
    PROVE  DecoderInv(opt, Crc!DataEnd(opt, dec))
<1>1. PICK judged : judged = IF IsZero(dec.crc) THEN Crc!GoodSector(dec)
                             ELSE Crc!CountedOnce(opt, dec)
  OBVIOUS
<1>2. DecoderInv(opt, judged)
  BY <1>1, GoodSectorStep, CountedOnceStep, Zenon
<1>3. judged \in DecoderType
  BY <1>2 DEF DecoderInv
<1>4. PICK at : at = [judged EXCEPT !.valid_id = FALSE, !.splice = TRUE]
  OBVIOUS
<1>5. DecoderInv(opt, at)
  <2>1. at \in DecoderType
    BY <1>3, <1>4, ZenonT(60) DEF DecoderType
  <2>2. SameCounts(judged, at) /\ at.data = judged.data
    BY <1>3, <1>4 DEF DecoderType, SameCounts
  <2>3. QED
    BY <1>2, <1>3, <2>1, <2>2, BytesOnly, LenProperties, CountersType
<1>6. at \in DecoderType
  BY <1>5 DEF DecoderInv
<1>7. PICK enc, ebyte, crc :
           /\ enc = IF judged.enc = "RX02" THEN "FM" ELSE judged.enc
           /\ ebyte = IF "EXTRA_CRC" \in opt.quirk THEN 6 ELSE judged.ebyte
           /\ crc = IF "EXTRA_CRC" \in opt.quirk THEN "open" ELSE judged.crc
  OBVIOUS
<1>8. enc \in Crc!Encodings /\ ebyte \in -1 .. 6 /\ crc \in CrcType /\ at.ibyte \in -1 .. 18
  BY <1>3, <1>6, <1>7, CountersType DEF Crc!Encodings, CrcType
<1>9. PICK new : new = [at EXCEPT !.ibyte = at.ibyte, !.dbyte = -1, !.ebyte = ebyte,
                                  !.crc = crc, !.enc = enc]
  OBVIOUS
<1>10. DecoderInv(opt, new)
  BY <1>5, <1>8, <1>9, CountersSet, NoCountType, ZenonT(60)
<1>11. CASE dec.dbyte # 0
  BY <1>11 DEF Crc!DataEnd
<1>12. CASE dec.dbyte = 0
  <2>1. Crc!DataEnd(opt, dec) = [judged EXCEPT !.dbyte = -1, !.valid_id = FALSE, !.splice = TRUE,
                                               !.enc = enc, !.ebyte = ebyte, !.crc = crc]
    BY <1>1, <1>7, <1>12, Zenon DEF Crc!DataEnd, Crc!NoCount
  <2>2. new = [judged EXCEPT !.dbyte = -1, !.valid_id = FALSE, !.splice = TRUE,
                             !.enc = enc, !.ebyte = ebyte, !.crc = crc]
    BY <1>3, <1>4, <1>9, ZenonT(60) DEF DecoderType
  <2>3. QED
    BY <1>10, <2>1, <2>2, Zenon
<1>13. QED
  BY <1>11, <1>12, Zenon

\* The end of the extra bytes behind it.
LEMMA ExtraEndStep ==
    ASSUME NEW opt \in OptionType, NEW dec, DecoderInv(opt, dec)
    PROVE  DecoderInv(opt, Crc!ExtraEnd(opt, dec))
<1>1. PICK judged : judged = IF IsZero(dec.crc) THEN dec ELSE Crc!CountedOnce(opt, dec)
  OBVIOUS
<1>2. DecoderInv(opt, judged)
  BY <1>1, CountedOnceStep, Zenon
<1>3. judged \in DecoderType
  BY <1>2 DEF DecoderInv
<1>4. PICK new : new = [judged EXCEPT !.ebyte = -1, !.splice = TRUE]
  OBVIOUS
<1>5. new \in DecoderType
  BY <1>3, <1>4, NoCountType, ZenonT(60) DEF DecoderType
<1>6. /\ new.idams = judged.idams /\ new.errcount = judged.errcount /\ new.data = judged.data
      /\ new.ibyte = judged.ibyte /\ new.awaiting_iam = judged.awaiting_iam
  BY <1>3, <1>4 DEF DecoderType
<1>7. DecoderInv(opt, new)
  BY <1>2, <1>3, <1>5, <1>6, TableUntouched, LenProperties, CountersType, SMTT(60)
<1>8. QED
  BY <1>1, <1>4, <1>7, Zenon DEF Crc!ExtraEnd, Crc!NoCount

\* A byte that is no mark: all that it may end, in the code's order.
LEMMA PlainByteStep ==
    ASSUME NEW opt \in OptionType, NEW dec, DecoderInv(opt, dec),
           NEW b \in ByteType, NEW mark
    PROVE  DecoderInv(opt, Crc!PlainByte(opt, dec, b, mark))
<1>1. PICK unmarked : unmarked = Crc!NoMark(opt, dec, b, mark)
  OBVIOUS
<1>2. DecoderInv(opt, unmarked)
  BY <1>1, NoMarkStep, Zenon
<1>3. PICK at : at = Crc!IdByte(opt, unmarked, b)
  OBVIOUS
<1>4. DecoderInv(opt, at) /\ at.ibyte # 18
  BY <1>2, <1>3, IdByteStep, Zenon
<1>5. PICK counted : counted = Crc!Counted(opt, at, b)
  OBVIOUS
<1>6. DecoderInv(opt, counted)
  BY <1>4, <1>5, CountedStep, Zenon
<1>7. PICK ended : ended = Crc!DataEnd(opt, counted)
  OBVIOUS
<1>8. DecoderInv(opt, ended)
  BY <1>6, <1>7, DataEndStep, Zenon
<1>9. PICK new : new = Crc!ExtraEnd(opt, ended)
  OBVIOUS
<1>10. DecoderInv(opt, new)
  BY <1>8, <1>9, ExtraEndStep, Zenon
<1>11. Crc!PlainByte(opt, dec, b, mark) = new
  <2>1. {Crc!ExtraEnd(opt, e) :
            e \in {Crc!DataEnd(opt, c) :
            c \in {Crc!Counted(opt, a, b) :
            a \in {Crc!IdByte(opt, u, b) : u \in {unmarked}}}}} = {new}
    BY <1>3, <1>5, <1>7, <1>9, Zenon
  <2>2. QED
    BY <1>1, <2>1, Zenon DEF Crc!PlainByte
<1>12. QED
  BY <1>10, <1>11, Zenon

\* A byte of the stream: whatever it is and whatever mark is before it, the decoder
\* keeps flags, errors and pointers in agreement.
LEMMA DecodeByteStep ==
    ASSUME NEW opt \in OptionType, NEW dec, DecoderInv(opt, dec),
           NEW b \in ByteType, NEW mark
    PROVE  DecoderInv(opt, Crc!DecodeByte(opt, dec, b, mark))
<1>1. \/ Crc!DecodeByte(opt, dec, b, mark) = Crc!IndexMark(opt, dec, b)
      \/ /\ Crc!IsIdam(dec, b, mark)
         /\ Crc!DecodeByte(opt, dec, b, mark) = Crc!IdMark(opt, dec, b)
      \/ Crc!DecodeByte(opt, dec, b, mark) = Crc!DataMark(opt, dec, b)
      \/ Crc!DecodeByte(opt, dec, b, mark) = Crc!PlainByte(opt, dec, b, mark)
  BY DEF Crc!DecodeByte
<1>2. Crc!IsIdam(dec, b, mark) => ~dec.awaiting_iam
  BY DEF Crc!IsIdam
<1>3. QED
  BY <1>1, <1>2, IndexMarkStep, IdMarkStep, DataMarkStep, PlainByteStep, Zenon

\* An index.
LEMMA DecodeIndexStep ==
    ASSUME NEW opt \in OptionType, NEW dec, DecoderInv(opt, dec)
    PROVE  DecoderInv(opt, Crc!DecodeIndex(opt, dec))
<1>1. dec \in DecoderType
  BY DEF DecoderInv
<1>2. dec.data \in Seq(Nat) /\ dec.errcount \in Nat /\ dec.index_edge + 1 \in Nat
  <2>1. dec.data \in Seq(Nat) /\ dec.errcount \in Nat /\ dec.index_edge \in Nat
    BY <1>1, CountersType
  <2>2. QED
    BY <2>1
<1>3. PICK data : data = IF dec.index_edge = 0 /\ opt.ignore < 0
                         THEN dec.data \o [i \in 1 .. -opt.ignore |-> 255] ELSE dec.data
  OBVIOUS
<1>4. data \in Seq(Nat) /\ Len(data) >= Len(dec.data)
  <2>1. CASE opt.ignore < 0
    <3>1. PICK n \in Nat : n = -opt.ignore
      BY <2>1 DEF OptionType
    <3>2. PICK fill : fill = [i \in 1 .. -opt.ignore |-> 255]
      OBVIOUS
    <3>3. fill \in [1 .. n -> Nat]
      BY <3>1, <3>2
    <3>4. fill \in Seq(Nat)
      BY <3>3, SeqDef
    <3>5. Len(fill) \in Nat /\ Len(dec.data) \in Nat
      BY <1>2, <3>4, LenProperties
    <3>6. dec.data \o fill \in Seq(Nat) /\ Len(dec.data \o fill) = Len(dec.data) + Len(fill)
      BY <1>2, <3>4, ConcatProperties
    <3>7. data = dec.data \/ data = dec.data \o fill
      BY <1>3, <3>2, Zenon
    <3>8. CASE data = dec.data
      BY <1>2, <3>5, <3>8
    <3>9. CASE data = dec.data \o fill
      BY <3>5, <3>6, <3>9
    <3>10. QED
      BY <3>7, <3>8, <3>9
  <2>2. CASE ~(opt.ignore < 0)
    BY <1>2, <1>3, <2>2, LenProperties
  <2>3. QED
    BY <2>1, <2>2, Zenon
<1>5. PICK new : new = [dec EXCEPT !.index_edge = dec.index_edge + 1, !.data = data]
  OBVIOUS
<1>6. Crc!DecodeIndex(opt, dec) = new
  BY <1>3, <1>5, Zenon DEF Crc!DecodeIndex
<1>7. new \in DecoderType
  BY <1>1, <1>2, <1>4, <1>5, ZenonT(60) DEF DecoderType
<1>8. /\ new.idams = dec.idams /\ new.errcount = dec.errcount /\ new.data = data
      /\ new.ibyte = dec.ibyte /\ new.awaiting_iam = dec.awaiting_iam
  BY <1>1, <1>5 DEF DecoderType
<1>9. QED
  BY <1>2, <1>4, <1>6, <1>7, <1>8, TableUntouched, SMTT(60)

\* A decoder begins with an empty table.
LEMMA NewDecoderInv ==
    ASSUME NEW opt \in OptionType, NEW enc \in Crc!Encodings, NEW seen \in BOOLEAN
    PROVE  DecoderInv(opt, Crc!NewDecoder(opt, enc, seen))
<1>1. PICK new : new = Crc!NewDecoder(opt, enc, seen)
  OBVIOUS
<1>2. (opt.iam_pos >= 0) \in BOOLEAN
  OBVIOUS
<1>3. <<>> \in Seq(EntryType) /\ <<>> \in Seq(Nat) /\ 0 \in Nat /\ -1 \in Int
  BY EmptySeq
<1>4. new \in DecoderType
  BY <1>1, <1>2, <1>3, NoCountType DEF Crc!NewDecoder, Crc!NoCount, DecoderType
<1>5. new.idams = <<>> /\ new.errcount = 0 /\ new.ibyte = -1
  BY <1>1 DEF Crc!NewDecoder, Crc!NoCount
<1>6. DOMAIN new.idams = {}
  BY <1>5
<1>7. TableInv(opt, new)
  BY <1>5, <1>6 DEF TableInv, Increasing
<1>8. Bad(new.idams) = {}
  BY <1>6 DEF Bad
<1>9. Cardinality(Bad(new.idams)) = 0
  BY <1>8, FS_EmptySet
<1>10. QED
  BY <1>1, <1>4, <1>5, <1>7, <1>9 DEF DecoderInv, ErrorsCover

-----------------------------------------------------------------------------
(* What merging keeps.                                                     *)

TrackType == [idams : Seq(EntryType), data : Seq(Nat)]
StatsType == [good : Nat, errcount : Nat, reused : Nat]

OnTrack(len, off) == off \in Hdr .. TrackMax /\ off <= Hdr + len

TrackInv(opt, track) ==
    /\ track \in TrackType
    /\ \A i \in DOMAIN track.idams : OnTrack(Len(track.data), track.idams[i].off)
    /\ Increasing(opt.tracklen, track.idams)

\* dmk_get_phys_sector() finds the sectors up to the first pointer out of bounds.
LEMMA SectorsUpTo ==
    ASSUME NEW track \in TrackType
    PROVE  \E n \in Nat : n <= Len(track.idams) /\ M!Sectors(track) = 1 .. n
<1>1. track.idams \in Seq(EntryType)
  BY Zenon DEF TrackType
<1>2. PICK m \in Nat : m = Len(track.idams) /\ DOMAIN track.idams = 1 .. m
  BY <1>1, LenProperties
<1>3. PICK wrong : wrong = {i \in DOMAIN track.idams : track.idams[i].off > TrackMax - 10}
  OBVIOUS
<1>4. CASE wrong = {}
  <2>1. M!Sectors(track) = 1 .. m
    BY <1>2, <1>3, <1>4 DEF M!Sectors
  <2>2. QED
    BY <1>2, <2>1
<1>5. CASE wrong # {}
  <2>1. wrong \in SUBSET (1 .. m) /\ wrong \in SUBSET Nat
    BY <1>2, <1>3
  <2>2. PICK least : least = M!Min(wrong)
    OBVIOUS
  <2>3. least \in wrong
    <3>1. \E x \in wrong : \A y \in wrong : x <= y
      BY <1>5, <2>1, SmallestMember
    <3>2. QED
      BY <2>2, <3>1 DEF M!Min
  <2>4. M!Sectors(track) = 1 .. least - 1
    BY <1>3, <1>5, <2>2, Zenon DEF M!Sectors
  <2>5. least - 1 \in Nat /\ least - 1 <= m
    BY <1>2, <2>1, <2>3
  <2>6. QED
    BY <1>2, <2>4, <2>5
<1>6. QED
  BY <1>4, <1>5, Zenon

\* As many bytes as are copied.
LEMMA BytesType ==
    ASSUME NEW track \in TrackType, NEW off, NEW len \in Nat
    PROVE  M!Bytes(track, off, len) \in Seq(Nat) /\ Len(M!Bytes(track, off, len)) = len
<1>1. track.data \in Seq(Nat)
  BY Zenon DEF TrackType
<1>2. \A p \in DOMAIN track.data : track.data[p] \in Nat
  BY <1>1, ElementOfSeq, LenProperties
<1>3. Stale \in Nat
  BY TrackPassesAssumption
<1>4. M!Bytes(track, off, len) \in [1 .. len -> Nat]
  BY <1>2, <1>3 DEF M!Bytes
<1>5. PICK bytes \in [1 .. len -> Nat] : bytes = M!Bytes(track, off, len)
  BY <1>4
<1>6. bytes \in Seq(Nat) /\ Len(bytes) = len
  <2>1. bytes \in Seq(Nat)
    BY SeqDef
  <2>2. DOMAIN bytes = 1 .. Len(bytes) /\ Len(bytes) \in Nat
    BY <2>1, LenProperties
  <2>3. QED
    BY <2>1, <2>2
<1>7. QED
  BY <1>5, <1>6

\* An entry at the end of a table, flagged or not.
LEMMA AppendBad ==
    ASSUME NEW idams \in Seq(EntryType), NEW e \in EntryType
    PROVE  Cardinality(Bad(Append(idams, e)))
             = Cardinality(Bad(idams)) + (IF e.bad THEN 1 ELSE 0)
<1>1. PICK n \in Nat : n = Len(idams) /\ DOMAIN idams = 1 .. n
  BY LenProperties
<1>2. PICK t : t = Append(idams, e)
  OBVIOUS
<1>3. /\ t \in Seq(EntryType) /\ Len(t) = n + 1
      /\ \A i \in 1 .. n : t[i] = idams[i]
      /\ t[n + 1] = e
  BY <1>1, <1>2, AppendProperties
<1>4. DOMAIN t = 1 .. n + 1
  BY <1>3, LenProperties
<1>5. IsFiniteSet(Bad(idams)) /\ Cardinality(Bad(idams)) \in Nat
  BY BadFinite
<1>6. CASE e.bad
  <2>1. Bad(t) = Bad(idams) \cup {n + 1} /\ n + 1 \notin Bad(idams)
    BY <1>1, <1>3, <1>4, <1>6 DEF Bad
  <2>2. Cardinality(Bad(t)) = Cardinality(Bad(idams)) + 1
    BY <1>5, <2>1, FS_AddElement
  <2>3. QED
    BY <1>2, <1>6, <2>2
<1>7. CASE ~e.bad
  <2>1. Bad(t) = Bad(idams)
    BY <1>1, <1>3, <1>4, <1>7 DEF Bad
  <2>2. QED
    BY <1>2, <1>5, <1>7, <2>1
<1>8. QED
  BY <1>6, <1>7, Zenon

\* The flagged sectors that are still to be merged.
Later(working, k, n) == {i \in k + 1 .. n : working.idams[i].bad}

\* Sector k is among them until it is merged.
LEMMA LaterStep ==
    ASSUME NEW working, NEW n \in Nat, NEW k \in 1 .. n
    PROVE  /\ Cardinality(Later(working, k, n)) \in Nat
           /\ Cardinality(Later(working, k - 1, n))
                = Cardinality(Later(working, k, n)) + (IF working.idams[k].bad THEN 1 ELSE 0)
<1>1. IsFiniteSet(k + 1 .. n)
  BY FS_Interval
<1>2. Later(working, k, n) \in SUBSET (k + 1 .. n)
  BY DEF Later
<1>3. IsFiniteSet(Later(working, k, n))
  BY <1>1, <1>2, FS_Subset, Zenon
<1>4. Cardinality(Later(working, k, n)) \in Nat
  BY <1>3, FS_CardinalityType, Zenon
<1>5. CASE working.idams[k].bad
  <2>1. /\ Later(working, k - 1, n) = Later(working, k, n) \cup {k}
        /\ k \notin Later(working, k, n)
    BY <1>5 DEF Later
  <2>2. Cardinality(Later(working, k - 1, n)) = Cardinality(Later(working, k, n)) + 1
    BY <1>3, <2>1, FS_AddElement
  <2>3. QED
    BY <1>4, <1>5, <2>2
<1>6. CASE ~working.idams[k].bad
  <2>1. Later(working, k - 1, n) = Later(working, k, n)
    BY <1>6 DEF Later
  <2>2. QED
    BY <1>4, <1>6, <2>1
<1>7. QED
  BY <1>5, <1>6, Zenon

\* What has been merged so far: its pointers increase and are within the bytes
\* copied, short of their end as long as a sector may follow, and its errors are
\* enough for the sectors flagged in it and for those still to come.
TmpType == [idams : Seq(EntryType), data : Seq(Nat), overflow : BOOLEAN,
            reused : Nat, errcount : Nat]

Ordered(tmp, room) ==
    /\ \A i \in DOMAIN tmp.idams :
          /\ OnTrack(Len(tmp.data), tmp.idams[i].off)
          /\ room => tmp.idams[i].off < Hdr + Len(tmp.data)
    /\ \A i, j \in DOMAIN tmp.idams : i < j => tmp.idams[i].off < tmp.idams[j].off

Covered(working, k, n, tmp) ==
    Cardinality(Bad(tmp.idams)) + Cardinality(Later(working, k, n)) <= tmp.errcount

\* A table of offsets.
LEMMA OffsetType ==
    ASSUME NEW idams \in Seq(EntryType), NEW i \in DOMAIN idams
    PROVE  idams[i] \in EntryType /\ idams[i].off \in Nat /\ idams[i].bad \in BOOLEAN
<1>1. idams[i] \in EntryType
  BY ElementOfSeq, LenProperties
<1>2. QED
  BY <1>1, Zenon DEF EntryType

\* A sector copied behind the bytes there are.
LEMMA CopiedOrder ==
    ASSUME NEW old \in TmpType, Ordered(old, TRUE),
           NEW data \in Seq(Nat), Len(data) >= Len(old.data),
           NEW len \in Nat, Hdr + Len(data) + len <= TrackMax,
           NEW bytes \in Seq(Nat), Len(bytes) = len,
           NEW e \in EntryType, e.off = Hdr + Len(data),
           NEW new \in TmpType,
           new.idams = Append(old.idams, e), new.data = data \o bytes
    PROVE  Ordered(new, len > 0)
<1>1. old.idams \in Seq(EntryType) /\ old.data \in Seq(Nat)
  BY Zenon DEF TmpType
<1>2. PICK at \in Nat, oldLen \in Nat, newLen \in Nat :
           at = Len(data) /\ oldLen = Len(old.data) /\ newLen = Len(new.data)
  <2>1. data \o bytes \in Seq(Nat)
    BY ConcatProperties
  <2>2. QED
    BY <1>1, <2>1, LenProperties
<1>t. at \in Nat /\ oldLen \in Nat /\ newLen \in Nat
  BY <1>2
<1>3. newLen = at + len /\ at >= oldLen /\ Hdr + at + len <= TrackMax /\ e.off = Hdr + at
  <2>1. Len(data \o bytes) = Len(data) + Len(bytes)
    BY ConcatProperties
  <2>2. QED
    BY <1>2, <2>1
<1>4. Hdr \in Nat /\ TrackMax \in Nat
  BY TrackPassesAssumption
<1>5. PICK n \in Nat : n = Len(old.idams) /\ DOMAIN old.idams = 1 .. n
  BY <1>1, LenProperties
<1>6. /\ DOMAIN new.idams = 1 .. n + 1
      /\ \A i \in 1 .. n : new.idams[i] = old.idams[i]
      /\ new.idams[n + 1] = e
  <2>1. PICK t : t = Append(old.idams, e)
    OBVIOUS
  <2>2. /\ t \in Seq(EntryType) /\ Len(t) = n + 1
        /\ \A i \in 1 .. n : t[i] = old.idams[i]
        /\ t[n + 1] = e
    BY <1>1, <1>5, <2>1, AppendProperties
  <2>3. DOMAIN t = 1 .. n + 1
    BY <2>2, LenProperties
  <2>4. new.idams = t
    BY <2>1
  <2>5. QED
    BY <2>2, <2>3, <2>4, Zenon
<1>7. ASSUME NEW i \in 1 .. n
      PROVE  new.idams[i].off \in Hdr .. TrackMax /\ new.idams[i].off < Hdr + at
  <2>1. PICK off \in Nat : off = old.idams[i].off /\ off = new.idams[i].off
    BY <1>1, <1>5, <1>6, OffsetType
  <2>2. OnTrack(oldLen, off) /\ off < Hdr + oldLen
    BY <1>2, <1>5, <2>1 DEF Ordered
  <2>3. off \in Hdr .. TrackMax /\ off < Hdr + at
    BY <1>t, <1>3, <1>4, <2>2 DEF OnTrack
  <2>4. QED
    BY <2>1, <2>3
<1>8. new.idams[n + 1].off = Hdr + at
  BY <1>3, <1>6
<1>9. ASSUME NEW i \in DOMAIN new.idams
      PROVE  /\ OnTrack(Len(new.data), new.idams[i].off)
             /\ len > 0 => new.idams[i].off < Hdr + Len(new.data)
  <2>1. PICK off \in Nat : off = new.idams[i].off
    <3>1. new.idams \in Seq(EntryType)
      BY Zenon DEF TmpType
    <3>2. QED
      BY <3>1, OffsetType
  <2>2. off \in Hdr .. TrackMax /\ off <= Hdr + at
    BY <1>3, <1>4, <1>6, <1>7, <1>8, <2>1, SMTT(60)
  <2>3. OnTrack(newLen, off) /\ (len > 0 => off < Hdr + newLen)
    BY <1>t, <1>3, <1>4, <2>2 DEF OnTrack
  <2>4. QED
    BY <1>2, <2>1, <2>3
<1>10. ASSUME NEW i \in DOMAIN new.idams, NEW j \in DOMAIN new.idams, i < j
       PROVE  new.idams[i].off < new.idams[j].off
  <2>1. i \in 1 .. n
    BY <1>6, <1>10
  <2>2. CASE j = n + 1
    BY <1>7, <1>8, <2>1, <2>2
  <2>3. CASE j # n + 1
    <3>1. j \in 1 .. n
      BY <1>6, <2>3
    <3>2. old.idams[i].off < old.idams[j].off
      BY <1>5, <1>10, <2>1, <3>1 DEF Ordered
    <3>3. QED
      BY <1>6, <2>1, <3>1, <3>2
  <2>4. QED
    BY <2>2, <2>3
<1>11. QED
  BY <1>9, <1>10 DEF Ordered

\* The bytes before a track's first sector.
LEMMA PreambleType ==
    ASSUME NEW opt, NEW track, TrackInv(opt, track), M!HasPreamble(track)
    PROVE  M!Preamble(track) \in Seq(Nat)
<1>1. track \in TrackType /\ track.idams \in Seq(EntryType) /\ track.data \in Seq(Nat)
  BY Zenon DEF TrackInv, TrackType
<1>2. PICK n \in Nat : n <= Len(track.idams) /\ M!Sectors(track) = 1 .. n
  BY <1>1, SectorsUpTo
<1>3. 1 \in DOMAIN track.idams
  <2>1. 1 \in 1 .. n /\ Len(track.idams) \in Nat /\ DOMAIN track.idams = 1 .. Len(track.idams)
    BY <1>1, <1>2, LenProperties DEF M!HasPreamble
  <2>2. QED
    BY <1>2, <2>1
<1>4. PICK off \in Nat : off = track.idams[1].off
  BY <1>1, <1>3, OffsetType
<1>5. PICK len \in Nat : len = Len(track.data)
  BY <1>1, LenProperties
<1>6. off - Hdr <= len /\ off - Hdr \in Int
  BY <1>3, <1>4, <1>5, TrackPassesAssumption, SMTT(60) DEF TrackInv, OnTrack
<1>7. PICK m \in Int : m = off - Hdr
  BY <1>6
<1>8. \A i \in 1 .. m : track.data[i] \in Nat
  BY <1>1, <1>5, <1>6, <1>7, ElementOfSeq, SMTT(60)
<1>9. SubSeq(track.data, 1, m) \in Seq(Nat)
  BY <1>8, SubSeqProperties
<1>10. QED
  BY <1>4, <1>7, <1>9 DEF M!Preamble

\* dmk_get_phys_sector_len() is a number, and of a sector before another never 0.
LEMMA SectorLenType ==
    ASSUME NEW track \in TrackType, NEW n \in Nat, M!Sectors(track) = 1 .. n,
           n <= Len(track.idams), NEW i \in 1 .. n, NEW tracklen \in Int
    PROVE  /\ M!SectorLen(track, i, tracklen) \in Int
           /\ i < n => M!SectorLen(track, i, tracklen) # 0
<1>1. track.idams \in Seq(EntryType)
  BY Zenon DEF TrackType
<1>2. DOMAIN track.idams = 1 .. Len(track.idams) /\ Len(track.idams) \in Nat
  BY <1>1, LenProperties
<1>3. i \in DOMAIN track.idams /\ (i < n => i + 1 \in DOMAIN track.idams)
  BY <1>2
<1>4. PICK off \in Nat : off = track.idams[i].off
  BY <1>1, <1>3, OffsetType
<1>5. Hdr \in Nat
  BY TrackPassesAssumption
<1>6. CASE i < n
  <2>1. PICK next \in Nat : next = track.idams[i + 1].off
    BY <1>1, <1>3, <1>6, OffsetType
  <2>2. i + 1 \in M!Sectors(track)
    BY <1>6
  <2>3. M!SectorLen(track, i, tracklen) = IF off >= next THEN -1 ELSE next - off
    BY <1>4, <2>1, <2>2, Zenon DEF M!SectorLen
  <2>4. QED
    BY <2>3
<1>7. CASE ~(i < n)
  <2>1. i + 1 \notin M!Sectors(track)
    BY <1>7
  <2>2. M!SectorLen(track, i, tracklen) = tracklen - (off - Hdr)
    BY <1>4, <2>1, Zenon DEF M!SectorLen
  <2>3. QED
    BY <1>5, <1>7, <2>2
<1>8. QED
  BY <1>6, <1>7, Zenon

\* A track's length counts its table, and is 0 when nothing is stored.
LEMMA LengthType ==
    ASSUME NEW track \in TrackType
    PROVE  /\ M!Length(track) \in Int /\ M!Length(track) - Hdr \in Int
           /\ M!Length(track) > 0 <=> track.data # <<>>
<1>1. track.data \in Seq(Nat)
  BY Zenon DEF TrackType
<1>2. PICK len \in Nat : len = Len(track.data)
  BY <1>1, LenProperties
<1>3. Hdr \in Nat \ {0}
  BY TrackPassesAssumption
<1>4. QED
  BY <1>2, <1>3 DEF M!Length

\* A sector of a track copied to tmp: types, order and flags.
LEMMA CopiedStep ==
    ASSUME NEW old \in TmpType, NEW begun \in TmpType,
           begun.idams = old.idams, begun.errcount = old.errcount,
           Len(begun.data) >= Len(old.data),
           NEW track \in TrackType, NEW i \in DOMAIN track.idams,
           NEW len \in Nat, M!Fits(begun, len)
    PROVE  LET new == M!Copied(begun, track, i, len)
           IN /\ new \in TmpType
              /\ Ordered(old, TRUE) => Ordered(new, len > 0)
              /\ new.errcount = old.errcount /\ new.reused = begun.reused
              /\ Cardinality(Bad(new.idams))
                    = Cardinality(Bad(old.idams)) + (IF track.idams[i].bad THEN 1 ELSE 0)
<1>1. /\ begun.data \in Seq(Nat) /\ begun.idams \in Seq(EntryType)
      /\ track.idams \in Seq(EntryType)
  BY Zenon DEF TmpType, TrackType
<1>2. PICK at \in Nat : at = Len(begun.data)
  BY <1>1, LenProperties
<1>3. PICK bytes : bytes = M!Bytes(track, track.idams[i].off, len)
  OBVIOUS
<1>4. bytes \in Seq(Nat) /\ Len(bytes) = len
  BY <1>3, BytesType
<1>5. PICK e : e = [track.idams[i] EXCEPT !.off = Hdr + at]
  OBVIOUS
<1>6. track.idams[i] \in EntryType /\ Hdr + at \in Nat
  BY <1>1, OffsetType, TrackPassesAssumption, SMTT(60)
<1>7. e \in EntryType /\ e.off = Hdr + at /\ e.bad = track.idams[i].bad
  <2>1. e \in EntryType
    BY <1>5, <1>6, Zenon DEF EntryType
  <2>2. e.off = Hdr + at /\ e.bad = track.idams[i].bad
    BY <1>5, <1>6 DEF EntryType
  <2>3. QED
    BY <2>1, <2>2
<1>8. PICK data, t : data = begun.data \o bytes /\ t = Append(begun.idams, e)
  OBVIOUS
<1>9. data \in Seq(Nat) /\ t \in Seq(EntryType)
  BY <1>1, <1>4, <1>7, <1>8, ConcatProperties, AppendProperties
<1>10. PICK new : new = [begun EXCEPT !.data = data, !.idams = t]
  OBVIOUS
<1>11. M!Copied(begun, track, i, len) = new
  BY <1>2, <1>3, <1>5, <1>8, <1>10, Zenon DEF M!Copied
<1>12. new \in TmpType
  BY <1>9, <1>10, Zenon DEF TmpType
<1>13. /\ new.data = data /\ new.idams = t /\ new.errcount = old.errcount
       /\ new.reused = begun.reused
  BY <1>10 DEF TmpType
<1>14. Hdr + at + len <= TrackMax
  BY <1>2 DEF M!Fits
<1>15. Ordered(old, TRUE) => Ordered(new, len > 0)
  BY <1>1, <1>2, <1>4, <1>7, <1>8, <1>12, <1>13, <1>14, CopiedOrder
<1>16. Cardinality(Bad(t)) = Cardinality(Bad(old.idams)) + (IF e.bad THEN 1 ELSE 0)
  BY <1>1, <1>7, <1>8, AppendBad
<1>17. QED
  BY <1>7, <1>11, <1>12, <1>13, <1>15, <1>16, Zenon

\* The bytes before the first sector, put where nothing is yet.
LEMMA PrefixedStep ==
    ASSUME NEW opt, NEW track, TrackInv(opt, track), M!HasPreamble(track),
           NEW old \in TmpType
    PROVE  LET new == [old EXCEPT !.data = @ \o M!Preamble(track)]
           IN /\ new \in TmpType /\ new.idams = old.idams /\ new.errcount = old.errcount
              /\ Len(new.data) >= Len(old.data)
<1>1. PICK before \in Seq(Nat) : before = M!Preamble(track)
  BY PreambleType
<1>2. old.data \in Seq(Nat)
  BY Zenon DEF TmpType
<1>3. PICK data : data = old.data \o before
  OBVIOUS
<1>4. data \in Seq(Nat) /\ Len(data) >= Len(old.data)
  <2>1. data \in Seq(Nat) /\ Len(data) = Len(old.data) + Len(before)
    BY <1>2, <1>3, ConcatProperties
  <2>2. Len(old.data) \in Nat /\ Len(before) \in Nat
    BY <1>2, LenProperties
  <2>3. QED
    BY <2>1, <2>2
<1>5. PICK new : new = [old EXCEPT !.data = data]
  OBVIOUS
<1>6. new \in TmpType
  BY <1>4, <1>5, Zenon DEF TmpType
<1>7. new.idams = old.idams /\ new.errcount = old.errcount /\ new.data = data
  BY <1>5 DEF TmpType
<1>8. [old EXCEPT !.data = @ \o M!Preamble(track)] = new
  BY <1>1, <1>3, <1>5, Zenon
<1>9. QED
  BY <1>4, <1>6, <1>7, <1>8, Zenon

\* One sector of the track just read.
LEMMA MergeSectorStep ==
    ASSUME NEW opt, NEW previous, TrackInv(opt, previous),
           NEW working, TrackInv(opt, working),
           NEW n \in Nat, M!Sectors(working) = 1 .. n, n <= Len(working.idams),
           NEW k \in 1 .. n, NEW old \in TmpType
    PROVE  LET new == M!MergeSector(previous, working, old, k)
           IN /\ new \in TmpType
              /\ Ordered(old, TRUE) => Ordered(new, k < n)
              /\ Covered(working, k - 1, n, old) => Covered(working, k, n, new)
<1>1. previous \in TrackType /\ working \in TrackType
  BY DEF TrackInv
<1>2. previous.idams \in Seq(EntryType) /\ working.idams \in Seq(EntryType)
  BY <1>1, Zenon DEF TrackType
<1>3. /\ old.idams \in Seq(EntryType) /\ old.data \in Seq(Nat) /\ old.errcount \in Nat
      /\ Len(old.data) \in Nat
  <2>1. old.idams \in Seq(EntryType) /\ old.data \in Seq(Nat) /\ old.errcount \in Nat
    BY Zenon DEF TmpType
  <2>2. QED
    BY <2>1, LenProperties
<1>4. k \in DOMAIN working.idams
  BY <1>2, LenProperties
<1>5. /\ Cardinality(Later(working, k, n)) \in Nat
      /\ Cardinality(Later(working, k - 1, n))
           = Cardinality(Later(working, k, n)) + (IF working.idams[k].bad THEN 1 ELSE 0)
  BY LaterStep
<1>6. Cardinality(Bad(old.idams)) \in Nat
  BY <1>3, BadFinite
<1>7. PICK new : new = M!MergeSector(previous, working, old, k)
  OBVIOUS
<1> SUFFICES /\ new \in TmpType
             /\ Ordered(old, TRUE) => Ordered(new, k < n)
             /\ Covered(working, k - 1, n, old) => Covered(working, k, n, new)
  BY <1>7, Zenon
<1>8. PICK alts : alts = IF working.idams[k].bad THEN M!Alternatives(previous, working, k) ELSE {}
  OBVIOUS
<1>9. PICK begun : begun = IF k = 1 /\ alts # {} THEN [old EXCEPT !.data = @ \o M!Preamble(previous)]
                           ELSE old
  OBVIOUS
<1>10. PICK usable : usable = {p \in alts : M!PreviousLen(previous, p) > 0
                                            /\ M!Fits(begun, M!PreviousLen(previous, p))}
  OBVIOUS
<1>11. PICK own : own = IF k = 1 /\ M!HasPreamble(working)
                        THEN [begun EXCEPT !.data = @ \o M!Preamble(working)] ELSE begun
  OBVIOUS
<1>12. PICK len : len = M!SectorLen(working, k, M!Length(working) - Hdr)
  OBVIOUS
<1>13. PICK m \in Nat : m <= Len(previous.idams) /\ M!Sectors(previous) = 1 .. m
  BY <1>1, SectorsUpTo
<1>14. \A p \in alts : /\ p \in 1 .. m /\ p \in DOMAIN previous.idams /\ ~previous.idams[p].bad
                       /\ working.idams[k].bad
                       /\ k = 1 => M!HasPreamble(previous)
  <2> TAKE p \in alts
  <2>1. working.idams[k].bad /\ p \in M!Alternatives(previous, working, k)
    BY <1>8
  <2>2. p \in 1 .. m /\ ~previous.idams[p].bad /\ (k = 1 => M!HasPreamble(previous))
    BY <1>13, <2>1, Zenon DEF M!Alternatives
  <2>3. p \in DOMAIN previous.idams
    BY <1>2, <1>13, <2>2, LenProperties
  <2>4. QED
    BY <2>1, <2>2, <2>3
<1>15. /\ begun \in TmpType /\ begun.idams = old.idams /\ begun.errcount = old.errcount
       /\ Len(begun.data) >= Len(old.data)
  <2>1. CASE k = 1 /\ alts # {}
    <3>1. M!HasPreamble(previous)
      BY <1>14, <2>1
    <3>2. QED
      BY <1>9, <2>1, <3>1, PrefixedStep, ZenonT(60)
  <2>2. CASE ~(k = 1 /\ alts # {})
    BY <1>3, <1>9, <2>2
  <2>3. QED
    BY <2>1, <2>2, Zenon
<1>16. Len(begun.data) \in Nat
  <2>1. begun.data \in Seq(Nat)
    BY <1>15, Zenon DEF TmpType
  <2>2. QED
    BY <2>1, LenProperties
<1>17. /\ own \in TmpType /\ own.idams = old.idams /\ own.errcount = old.errcount
       /\ Len(own.data) >= Len(old.data)
  <2>1. CASE k = 1 /\ M!HasPreamble(working)
    <3>1. /\ own \in TmpType /\ own.idams = begun.idams /\ own.errcount = begun.errcount
          /\ Len(own.data) >= Len(begun.data)
      BY <1>11, <1>15, <2>1, PrefixedStep, Zenon
    <3>2. Len(own.data) \in Nat
      <4>1. own.data \in Seq(Nat)
        BY <3>1, Zenon DEF TmpType
      <4>2. QED
        BY <4>1, LenProperties
    <3>3. QED
      BY <1>3, <1>15, <1>16, <3>1, <3>2
  <2>2. CASE ~(k = 1 /\ M!HasPreamble(working))
    BY <1>11, <1>15, <2>2
  <2>3. QED
    BY <2>1, <2>2, Zenon
<1>18. CASE usable # {}
  <2>1. PICK p : p = M!Min(usable)
    OBVIOUS
  <2>2. p \in usable
    <3>1. usable \in SUBSET Nat
      BY <1>10, <1>14
    <3>2. \E x \in usable : \A y \in usable : x <= y
      BY <1>18, <3>1, SmallestMember
    <3>3. QED
      BY <2>1, <3>2 DEF M!Min
  <2>3. /\ p \in DOMAIN previous.idams /\ p \in 1 .. m /\ ~previous.idams[p].bad
        /\ working.idams[k].bad
    BY <1>10, <1>14, <2>2
  <2>4. PICK plen : plen = M!PreviousLen(previous, p)
    OBVIOUS
  <2>5. plen \in Nat /\ plen > 0 /\ M!Fits(begun, plen)
    <3>1. plen > 0 /\ M!Fits(begun, plen)
      BY <1>10, <2>2, <2>4
    <3>2. plen \in Int
      BY <1>1, <1>13, <2>3, <2>4, SectorLenType, LengthType, Zenon DEF M!PreviousLen
    <3>3. QED
      BY <3>1, <3>2
  <2>6. PICK copied : copied = M!Copied(begun, previous, p, plen)
    OBVIOUS
  <2>7. /\ copied \in TmpType
        /\ Ordered(old, TRUE) => Ordered(copied, plen > 0)
        /\ copied.errcount = old.errcount
        /\ Cardinality(Bad(copied.idams))
             = Cardinality(Bad(old.idams)) + (IF previous.idams[p].bad THEN 1 ELSE 0)
    <3>1. previous \in TrackType /\ p \in DOMAIN previous.idams
      BY <1>1, <2>3
    <3>2. plen \in Nat /\ M!Fits(begun, plen)
      BY <2>5
    <3>3. QED
      BY <1>15, <2>6, <3>1, <3>2, CopiedStep, ZenonT(60)
  <2>8. PICK errs : errs = IF copied.errcount > 0 THEN copied.errcount - 1 ELSE copied.errcount
    OBVIOUS
  <2>9. new = [copied EXCEPT !.reused = copied.reused + 1, !.errcount = errs]
    BY <1>7, <1>8, <1>9, <1>10, <1>18, <2>1, <2>4, <2>6, <2>8, ZenonT(60) DEF M!MergeSector
  <2>10. copied.reused + 1 \in Nat /\ errs \in Nat
    <3>1. copied.reused \in Nat /\ copied.errcount \in Nat
      BY <2>7, Zenon DEF TmpType
    <3>2. QED
      BY <2>8, <3>1
  <2>11. new \in TmpType
    BY <2>7, <2>9, <2>10, Zenon DEF TmpType
  <2>12. new.idams = copied.idams /\ new.data = copied.data /\ new.errcount = errs
    BY <2>7, <2>9 DEF TmpType
  <2>13. Ordered(old, TRUE) => Ordered(new, k < n)
    BY <2>5, <2>7, <2>12 DEF Ordered
  <2>14. Covered(working, k - 1, n, old) => Covered(working, k, n, new)
    <3>1. Cardinality(Bad(new.idams)) = Cardinality(Bad(old.idams))
      BY <1>6, <2>3, <2>7, <2>12
    <3>2. errs = IF old.errcount > 0 THEN old.errcount - 1 ELSE old.errcount
      BY <2>7, <2>8
    <3>3. QED
      BY <1>3, <1>5, <1>6, <2>3, <2>12, <3>1, <3>2, SMTT(60) DEF Covered
  <2>15. QED
    BY <2>11, <2>13, <2>14
<1>19. CASE usable = {} /\ ((k = 1 /\ ~M!HasPreamble(working)) \/ len < 0 \/ ~M!Fits(own, len))
  <2>1. new = [own EXCEPT !.overflow = TRUE]
    BY <1>7, <1>8, <1>9, <1>10, <1>11, <1>12, <1>19, ZenonT(60) DEF M!MergeSector
  <2>2. new \in TmpType
    BY <1>17, <2>1, Zenon DEF TmpType
  <2>3. new.idams = old.idams /\ new.data = own.data /\ new.errcount = old.errcount
    BY <1>17, <2>1 DEF TmpType
  <2>4. Covered(working, k - 1, n, old) => Covered(working, k, n, new)
    BY <1>3, <1>5, <1>6, <2>3 DEF Covered
  <2>5. Ordered(old, TRUE) => Ordered(new, k < n)
    <3> SUFFICES ASSUME Ordered(old, TRUE) PROVE Ordered(new, k < n)
      OBVIOUS
    <3>1. PICK oldLen \in Nat, newLen \in Nat :
              oldLen = Len(old.data) /\ newLen = Len(new.data) /\ newLen >= oldLen
      <4>1. new.data \in Seq(Nat)
        BY <2>2, Zenon DEF TmpType
      <4>2. QED
        BY <1>3, <1>17, <2>3, <4>1, LenProperties
    <3>2. ASSUME NEW i \in DOMAIN new.idams
          PROVE  OnTrack(newLen, new.idams[i].off) /\ new.idams[i].off < Hdr + newLen
      <4>1. PICK off \in Nat : off = new.idams[i].off /\ off = old.idams[i].off
        BY <1>3, <2>3, OffsetType
      <4>2. OnTrack(oldLen, off) /\ off < Hdr + oldLen
        BY <2>3, <3>1, <4>1 DEF Ordered
      <4>3. OnTrack(newLen, off) /\ off < Hdr + newLen
        BY <3>1, <4>2, TrackPassesAssumption, SMTT(60) DEF OnTrack
      <4>4. QED
        BY <4>1, <4>3
    <3>3. QED
      BY <2>3, <3>1, <3>2 DEF Ordered
  <2>6. QED
    BY <2>2, <2>4, <2>5
<1>20. CASE usable = {} /\ ~((k = 1 /\ ~M!HasPreamble(working)) \/ len < 0 \/ ~M!Fits(own, len))
  <2>1. new = M!Copied(own, working, k, len)
    BY <1>7, <1>8, <1>9, <1>10, <1>11, <1>12, <1>20, Zenon DEF M!MergeSector
  <2>2. len \in Int /\ (k < n => len # 0)
    BY <1>1, <1>12, SectorLenType, LengthType
  <2>3. len \in Nat /\ (k < n => len > 0)
    BY <1>20, <2>2
  <2>4. /\ new \in TmpType
        /\ Ordered(old, TRUE) => Ordered(new, len > 0)
        /\ new.errcount = old.errcount
        /\ Cardinality(Bad(new.idams))
             = Cardinality(Bad(old.idams)) + (IF working.idams[k].bad THEN 1 ELSE 0)
    BY <1>1, <1>4, <1>17, <1>20, <2>1, <2>3, CopiedStep, ZenonT(60)
  <2>5. Covered(working, k - 1, n, old) => Covered(working, k, n, new)
    BY <1>3, <1>5, <1>6, <2>4 DEF Covered
  <2>6. Ordered(old, TRUE) => Ordered(new, k < n)
    BY <2>3, <2>4 DEF Ordered
  <2>7. QED
    BY <2>4, <2>5, <2>6
<1>21. QED
  BY <1>18, <1>19, <1>20, Zenon

MergeStart(errcount) ==
    [idams |-> <<>>, data |-> <<>>, overflow |-> FALSE, reused |-> 0, errcount |-> errcount]

\* f is what is merged with none, one, ... of the sectors of the track just read.
Merging(f, previous, working, n, errcount) ==
    /\ f[0] = MergeStart(errcount)
    /\ \A k \in 1 .. n : f[k] = M!MergeSector(previous, working, f[k - 1], k)
    /\ M!MergedSectors(previous, working, errcount) = f[n]

\* The sectors of the track just read, one after the other: the recursion that
\* defines the result has a solution.
LEMMA MergedUpTo ==
    ASSUME NEW opt, NEW previous, TrackInv(opt, previous),
           NEW working, TrackInv(opt, working),
           NEW n \in Nat, M!Sectors(working) = 1 .. n, n <= Len(working.idams),
           NEW errcount \in Nat
    PROVE  \E f \in [0 .. n -> TmpType] : Merging(f, previous, working, n, errcount)
<1>1. PICK start \in TmpType : start = MergeStart(errcount)
  <2>1. <<>> \in Seq(EntryType) /\ <<>> \in Seq(Nat) /\ 0 \in Nat
    BY EmptySeq
  <2>2. QED
    BY <2>1 DEF MergeStart, TmpType
<1>2. PICK F : F = [x \in TmpType \X (1 .. n) |-> M!MergeSector(previous, working, x[1], x[2])]
  OBVIOUS
<1>3. ASSUME NEW t \in TmpType, NEW k \in 1 .. n
      PROVE  /\ F[<<t, k>>] = M!MergeSector(previous, working, t, k)
             /\ M!MergeSector(previous, working, t, k) \in TmpType
  <2>1. M!MergeSector(previous, working, t, k) \in TmpType
    BY MergeSectorStep, Zenon
  <2>2. <<t, k>> \in TmpType \X (1 .. n) /\ <<t, k>>[1] = t /\ <<t, k>>[2] = k
    OBVIOUS
  <2>3. QED
    BY <1>2, <2>1, <2>2, Zenon
<1>4. F \in [TmpType \X (1 .. n) -> TmpType]
  <2>1. ASSUME NEW x \in TmpType \X (1 .. n)
        PROVE  M!MergeSector(previous, working, x[1], x[2]) \in TmpType
    <3>1. x[1] \in TmpType /\ x[2] \in 1 .. n
      OBVIOUS
    <3>2. QED
      BY <3>1, MergeSectorStep, Zenon
  <2>2. QED
    BY <1>2, <2>1, Zenon
<1>5. PICK f \in [0 .. n -> TmpType] :
          f[0] = start /\ \A k \in 1 .. n : f[k] = F[<<f[k - 1], k>>]
  <2>1. start \in TmpType
    BY <1>1
  <2>2. \E f \in [0 .. n -> TmpType] : Follows(f, start, n, F)
    BY <1>4, <2>1, RecursionExists, Zenon
  <2>3. QED
    BY <2>2, Zenon DEF Follows
<1>6. ASSUME NEW k \in 1 .. n
      PROVE  f[k] = M!MergeSector(previous, working, f[k - 1], k)
  <2>1. f[k - 1] \in TmpType
    BY <1>5
  <2>2. QED
    BY <1>3, <1>5, <2>1, Zenon
<1> DEFINE Step(g, k) == IF k = 0 THEN MergeStart(errcount)
                         ELSE CHOOSE t \in {M!MergeSector(previous, working, before, k)
                                             : before \in {g[k - 1]}} : TRUE
           IsMerge(g) == g = [k \in 0 .. n |-> Step(g, k)]
<1>7. \A g : \A k \in 1 .. n : Step(g, k) = M!MergeSector(previous, working, g[k - 1], k)
  <2> TAKE g
  <2> TAKE k \in 1 .. n
  <2>1. k # 0
    OBVIOUS
  <2>2. {M!MergeSector(previous, working, before, k) : before \in {g[k - 1]}}
          = {M!MergeSector(previous, working, g[k - 1], k)}
    BY Zenon
  <2>3. QED
    BY <2>1, <2>2, Zenon
<1>8. IsMerge(f)
  <2>1. \A k \in 0 .. n : f[k] = Step(f, k)
    <3> TAKE k \in 0 .. n
    <3>1. CASE k = 0
      BY <1>1, <1>5, <3>1, Zenon
    <3>2. CASE k # 0
      <4>1. k \in 1 .. n
        BY <3>2
      <4> HIDE DEF Step
      <4>2. QED
        BY <1>6, <1>7, <4>1, Zenon
    <3>3. QED
      BY <3>1, <3>2, Zenon
  <2> HIDE DEF Step
  <2>2. QED
    BY <1>5, <2>1, Zenon
<1>9. PICK g : g = CHOOSE h : IsMerge(h)
  OBVIOUS
<1>10. IsMerge(g)
  <2> HIDE DEF IsMerge
  <2> QED
    BY <1>8, <1>9, Zenon
<1>11. M!MergedSectors(previous, working, errcount) = g[n]
  <2>1. M!Cardinality(M!Sectors(working)) = n
    <3>1. Cardinality(1 .. n) = n
      BY FS_Interval, 1 \in Int, n \in Int
    <3>2. \A S : M!Cardinality(S) = Cardinality(S)
      BY Zenon DEF M!Cardinality, Cardinality, M!IsFiniteSet, IsFiniteSet
    <3>3. QED
      BY <3>1, <3>2, Zenon
  <2>2. QED
    BY <1>9, <2>1, Zenon DEF M!MergedSectors, MergeStart
<1>12. \A k \in 0 .. n : g[k] = Step(g, k)
  <2> HIDE DEF Step
  <2> QED
    BY <1>10, Zenon
<1>13. g[0] = MergeStart(errcount)
  <2>1. 0 \in 0 .. n
    OBVIOUS
  <2>2. QED
    BY <1>12, <2>1, Zenon
<1>14. \A k \in 1 .. n : g[k] = M!MergeSector(previous, working, g[k - 1], k)
  <2> TAKE k \in 1 .. n
  <2>1. k \in 0 .. n
    OBVIOUS
  <2> HIDE DEF Step
  <2>2. QED
    BY <1>7, <1>12, <2>1, Zenon
<1>15. \A k \in 0 .. n : g[k] \in TmpType
  <2> DEFINE S == {k \in Nat : k <= n => g[k] \in TmpType}
  <2>1. 0 \in S
    BY <1>1, <1>13
  <2>2. ASSUME NEW k \in Nat, k \in S PROVE k + 1 \in S
    <3> SUFFICES ASSUME k + 1 <= n PROVE g[k + 1] \in TmpType
      OBVIOUS
    <3>1. k + 1 \in 1 .. n /\ (k + 1) - 1 = k /\ g[k] \in TmpType
      BY <2>2
    <3>2. g[k + 1] = M!MergeSector(previous, working, g[k], k + 1)
      BY <1>14, <3>1
    <3>3. QED
      BY <1>3, <3>1, <3>2
  <2>3. Nat \subseteq S
    <3> HIDE DEF S
    <3> QED
      BY <2>1, <2>2, SetInduction
  <2>4. QED
    BY <2>3
<1>16. g \in [0 .. n -> TmpType]
  <2>1. g = [k \in 0 .. n |-> g[k]]
    <3> HIDE DEF Step
    <3> QED
      BY <1>10, Zenon
  <2>2. QED
    BY <1>15, <2>1, Zenon
<1>17. QED
  BY <1>11, <1>13, <1>14, <1>16, Zenon DEF Merging

\* The whole of it, by induction over the sectors.
LEMMA MergedSectorsInv ==
    ASSUME NEW opt, NEW previous, TrackInv(opt, previous),
           NEW working, TrackInv(opt, working),
           NEW errcount \in Nat, Cardinality(Bad(working.idams)) <= errcount
    PROVE  LET tmp == M!MergedSectors(previous, working, errcount)
           IN /\ tmp \in TmpType
              /\ Ordered(tmp, FALSE)
              /\ Cardinality(Bad(tmp.idams)) <= tmp.errcount
<1>1. working \in TrackType /\ working.idams \in Seq(EntryType)
  BY Zenon DEF TrackInv, TrackType
<1>2. PICK n \in Nat : n <= Len(working.idams) /\ M!Sectors(working) = 1 .. n
  BY <1>1, SectorsUpTo
<1>3. PICK f \in [0 .. n -> TmpType] :
          /\ f[0] = MergeStart(errcount)
          /\ \A k \in 1 .. n : f[k] = M!MergeSector(previous, working, f[k - 1], k)
          /\ M!MergedSectors(previous, working, errcount) = f[n]
  <2>1. n \in Nat /\ n <= Len(working.idams) /\ M!Sectors(working) = 1 .. n
    BY <1>2
  <2>2. PICK f \in [0 .. n -> TmpType] : Merging(f, previous, working, n, errcount)
    BY <2>1, MergedUpTo, Zenon
  <2>3. QED
    BY <2>2, Zenon DEF Merging
<1> DEFINE S == {k \in Nat : k <= n => Ordered(f[k], k < n) /\ Covered(working, k, n, f[k])}
<1>4. 0 \in S
  <2>1. f[0].idams = <<>> /\ f[0].errcount = errcount
    BY <1>3 DEF MergeStart
  <2>2. DOMAIN f[0].idams = {} /\ Bad(f[0].idams) = {}
    BY <2>1 DEF Bad
  <2>3. Ordered(f[0], 0 < n)
    BY <2>2 DEF Ordered
  <2>4. Later(working, 0, n) \in SUBSET Bad(working.idams)
    <3>1. DOMAIN working.idams = 1 .. Len(working.idams) /\ Len(working.idams) \in Nat
      BY <1>1, LenProperties
    <3>2. QED
      BY <1>2, <3>1 DEF Later, Bad
  <2>5. /\ Cardinality(Later(working, 0, n)) <= Cardinality(Bad(working.idams))
        /\ IsFiniteSet(Later(working, 0, n)) /\ IsFiniteSet(Bad(working.idams))
    <3>1. IsFiniteSet(Bad(working.idams))
      BY <1>1, BadFinite
    <3>2. QED
      BY <2>4, <3>1, FS_Subset, Zenon
  <2>6. Cardinality(Later(working, 0, n)) \in Nat /\ Cardinality(Bad(working.idams)) \in Nat
    BY <2>5, FS_CardinalityType, Zenon
  <2>7. Cardinality(Bad(f[0].idams)) = 0
    BY <2>2, FS_EmptySet
  <2>8. Covered(working, 0, n, f[0])
    BY <2>1, <2>5, <2>6, <2>7 DEF Covered
  <2>9. QED
    BY <2>3, <2>8
<1>5. ASSUME NEW k \in Nat, k \in S PROVE k + 1 \in S
  <2> SUFFICES ASSUME k + 1 <= n
               PROVE  Ordered(f[k + 1], k + 1 < n) /\ Covered(working, k + 1, n, f[k + 1])
    OBVIOUS
  <2>1. k < n /\ k \in 0 .. n /\ k + 1 \in 1 .. n /\ (k + 1) - 1 = k
    OBVIOUS
  <2>2. Ordered(f[k], k < n) /\ Covered(working, k, n, f[k])
    BY <1>5, <2>1
  <2>3. PICK j \in 1 .. n : j = k + 1 /\ j - 1 = k
    BY <2>1
  <2>4. f[j] = M!MergeSector(previous, working, f[k], j)
    BY <1>3, <2>3
  <2>5. f[k] \in TmpType
    BY <2>1
  <2>6. Ordered(f[k], TRUE)
    BY <2>1, <2>2 DEF Ordered
  <2>7. Covered(working, j - 1, n, f[k])
    BY <2>2, <2>3
  <2>8. Ordered(f[j], j < n) /\ Covered(working, j, n, f[j])
    BY <1>2, <2>3, <2>4, <2>5, <2>6, <2>7, MergeSectorStep, Zenon
  <2>9. QED
    BY <2>3, <2>8
<1>6. n \in S
  <2> HIDE DEF S
  <2> QED
    BY <1>4, <1>5, SetInduction
<1>7. Ordered(f[n], FALSE) /\ Covered(working, n, n, f[n]) /\ f[n] \in TmpType
  BY <1>6 DEF Ordered
<1>8. Cardinality(Bad(f[n].idams)) <= f[n].errcount
  <2>1. Later(working, n, n) = {}
    BY DEF Later
  <2>2. Cardinality(Later(working, n, n)) = 0
    BY <2>1, FS_EmptySet
  <2>3. f[n].idams \in Seq(EntryType) /\ f[n].errcount \in Nat
    BY <1>7, Zenon DEF TmpType
  <2>4. Cardinality(Bad(f[n].idams)) \in Nat
    BY <2>3, BadFinite
  <2>5. QED
    BY <1>7, <2>2, <2>3, <2>4 DEF Covered
<1>9. QED
  BY <1>3, <1>7, <1>8, Zenon

\* merge_sectors(): the track kept is in order, its errors are enough for its flags,
\* and they are not more than those of the track merged before, if there was one.
LEMMA MergeStep ==
    ASSUME NEW opt \in OptionType, NEW previous, TrackInv(opt, previous),
           NEW pstats \in StatsType, Cardinality(Bad(previous.idams)) <= pstats.errcount,
           NEW working, TrackInv(opt, working),
           NEW wstats \in StatsType, Cardinality(Bad(working.idams)) <= wstats.errcount
    PROVE  LET best == M!Merge(previous, pstats, working, wstats)
           IN /\ TrackInv(opt, best.track) /\ best.stats \in StatsType
              /\ Cardinality(Bad(best.track.idams)) <= best.stats.errcount
              /\ previous.data # <<>> => best.stats.errcount <= pstats.errcount
<1>1. /\ pstats.errcount \in Nat /\ wstats.errcount \in Nat /\ wstats.good \in Nat
      /\ pstats.reused \in Nat /\ 0 \in Nat
  BY DEF StatsType
<1>2. PICK best : best = M!Merge(previous, pstats, working, wstats)
  OBVIOUS
<1> SUFFICES /\ TrackInv(opt, best.track) /\ best.stats \in StatsType
             /\ Cardinality(Bad(best.track.idams)) <= best.stats.errcount
             /\ previous.data # <<>> => best.stats.errcount <= pstats.errcount
  BY <1>2, Zenon
<1>3. PICK own : own = [track |-> working, stats |-> [wstats EXCEPT !.reused = 0]]
  OBVIOUS
<1>4. /\ own.track = working /\ own.stats \in StatsType
      /\ own.stats.errcount = wstats.errcount
  BY <1>1, <1>3 DEF StatsType
<1>5. CASE wstats.errcount = 0
  <2>1. best = own
    BY <1>2, <1>3, <1>5, Zenon DEF M!Merge
  <2>2. QED
    BY <1>1, <1>4, <1>5, <2>1
<1>6. CASE wstats.errcount # 0
  <2>1. PICK tmp : tmp = M!MergedSectors(previous, working, wstats.errcount)
    OBVIOUS
  <2>2. /\ tmp \in TmpType /\ Ordered(tmp, FALSE)
        /\ Cardinality(Bad(tmp.idams)) <= tmp.errcount
    BY <1>1, <2>1, MergedSectorsInv, Zenon
  <2>3. PICK better : better = M!Better(working, wstats, tmp)
    OBVIOUS
  <2>4. best = M!Kept(previous, pstats, better)
    <3>1. {M!Kept(previous, pstats, M!Better(working, wstats, t)) : t \in {tmp}} = {best}
            => best = M!Kept(previous, pstats, better)
      BY <2>3, Zenon
    <3>2. best = CHOOSE t \in {M!Kept(previous, pstats, M!Better(working, wstats, u)) : u \in {tmp}} : TRUE
      BY <1>2, <1>6, <2>1, Zenon DEF M!Merge
    <3>3. {M!Kept(previous, pstats, M!Better(working, wstats, u)) : u \in {tmp}}
            = {M!Kept(previous, pstats, better)}
      BY <2>3, Zenon
    <3>4. QED
      BY <3>2, <3>3, Zenon
  <2>5. /\ TrackInv(opt, better.track) /\ better.stats \in StatsType
        /\ Cardinality(Bad(better.track.idams)) <= better.stats.errcount
    <3>1. CASE ~tmp.overflow /\ tmp.errcount < wstats.errcount
      <4>1. PICK track, stat : track = [idams |-> tmp.idams, data |-> tmp.data]
                               /\ stat = [good |-> wstats.good, errcount |-> tmp.errcount,
                                          reused |-> tmp.reused]
        OBVIOUS
      <4>2. better = [track |-> track, stats |-> stat]
        BY <2>3, <3>1, <4>1, Zenon DEF M!Better
      <4>3. better.track = track /\ better.stats = stat
        BY <4>2
      <4>4. track \in TrackType /\ stat \in StatsType
        BY <1>1, <2>2, <4>1 DEF TmpType, TrackType, StatsType
      <4>5. track.idams = tmp.idams /\ track.data = tmp.data /\ stat.errcount = tmp.errcount
        BY <4>1
      <4>6. TrackInv(opt, track)
        BY <2>2, <4>4, <4>5 DEF TrackInv, Ordered, Increasing
      <4>7. QED
        BY <2>2, <4>3, <4>4, <4>5, <4>6
    <3>2. CASE ~(~tmp.overflow /\ tmp.errcount < wstats.errcount)
      <4>1. better = own
        BY <1>3, <2>3, <3>2, Zenon DEF M!Better
      <4>2. QED
        BY <1>4, <4>1
    <3>3. QED
      BY <3>1, <3>2, Zenon
  <2>6. CASE M!KeepsMerged(previous, pstats, better)
    <3>1. PICK kept : kept = [track |-> previous, stats |-> pstats]
      OBVIOUS
    <3>2. best = kept
      BY <2>4, <2>6, <3>1, Zenon DEF M!Kept
    <3>3. kept.track = previous /\ kept.stats = pstats
      BY <3>1
    <3>4. QED
      BY <1>1, <3>2, <3>3
  <2>7. CASE ~M!KeepsMerged(previous, pstats, better)
    <3>1. best = better
      BY <2>4, <2>7, Zenon DEF M!Kept
    <3>2. previous.data # <<>> => M!Length(previous) > 0
      <4>1. previous \in TrackType
        BY DEF TrackInv
      <4>2. QED
        BY <4>1, LengthType
    <3>3. better.stats.errcount \in Nat
      BY <2>5 DEF StatsType
    <3>4. previous.data # <<>> => ~(pstats.errcount < better.stats.errcount)
      BY <2>7, <3>2, Zenon DEF M!KeepsMerged
    <3>5. QED
      BY <1>1, <2>5, <3>1, <3>3, <3>4
  <2>8. QED
    BY <2>6, <2>7, Zenon
<1>7. QED
  BY <1>5, <1>6, Zenon

-----------------------------------------------------------------------------
(* The passes.                                                             *)

PassInv ==
    /\ case \in DOMAIN Cases
    /\ pc \in {"pass", "read", "judge", "done"}
    /\ retry \in 0 .. o.retries /\ pos \in 1 .. N + 1 /\ noise \in 0 .. Cases[case].noise
    /\ slipped \in BOOLEAN
    /\ DecoderInv(o, d)
    /\ TrackInv(o, merged) /\ stats \in StatsType
    /\ Cardinality(Bad(merged.idams)) <= stats.errcount

\* What the assumption says of the case at hand.
LEMMA CaseTypes ==
    ASSUME case \in DOMAIN Cases
    PROVE  /\ o \in OptionType /\ cells \in Seq(CellType) /\ N \in Nat
           /\ Cases[case].begin \subseteq 1 .. N /\ Cases[case].noise \in Nat
           /\ o.retries \in Nat /\ o.first_encoding \in Crc!Encodings /\ o.mark \in Marks
<1>1. o \in OptionType /\ cells \in Seq(CellType)
  BY CasesAssumption DEF o, cells
<1>2. N \in Nat
  BY <1>1, LenProperties DEF N
<1>3. Cases[case].begin \subseteq 1 .. N /\ Cases[case].noise \in Nat
  BY CasesAssumption DEF N, cells
<1>4. o.retries \in Nat /\ o.first_encoding \in Crc!Encodings /\ o.mark \in Marks
  BY <1>1 DEF OptionType
<1>5. QED
  BY <1>1, <1>2, <1>3, <1>4

\* A cell of the track: its byte and its mark reach the byte level.
LEMMA DeliverStep ==
    ASSUME NEW opt \in OptionType, NEW dec, DecoderInv(opt, dec),
           NEW cell \in CellType, NEW ok \in BOOLEAN
    PROVE  LET b  == [v |-> cell.v, ok |-> ok, last |-> cell.last]
               at == [dec EXCEPT !.enc = IF cell.mark = "none" THEN @ ELSE Encoded(cell.mark),
                                 !.splice = FALSE]
           IN DecoderInv(opt, Crc!DecodeByte(opt, at, b, cell.mark))
<1>1. PICK b : b = [v |-> cell.v, ok |-> ok, last |-> cell.last]
  OBVIOUS
<1>2. b \in ByteType
  BY <1>1 DEF CellType, ByteType
<1>3. PICK enc : enc = IF cell.mark = "none" THEN dec.enc ELSE Encoded(cell.mark)
  OBVIOUS
<1>4. dec \in DecoderType
  BY Zenon DEF DecoderInv
<1>5. dec.enc \in Crc!Encodings
  BY <1>4, CountersType
<1>6. enc \in Crc!Encodings
  BY <1>3, <1>5 DEF Encoded, Crc!Encodings
<1>7. PICK at : at = [dec EXCEPT !.enc = enc, !.splice = FALSE]
  OBVIOUS
<1>8. at \in DecoderType
  BY <1>4, <1>6, <1>7, ZenonT(60) DEF DecoderType
<1>9. /\ at.idams = dec.idams /\ at.errcount = dec.errcount /\ at.data = dec.data
      /\ at.ibyte = dec.ibyte /\ at.awaiting_iam = dec.awaiting_iam
  BY <1>4, <1>7 DEF DecoderType
<1>10. DecoderInv(opt, at)
  <2>1. at.errcount >= dec.errcount /\ Len(at.data) >= Len(dec.data)
    <3>1. dec.errcount \in Nat /\ dec.data \in Seq(Nat)
      BY <1>4, CountersType
    <3>2. Len(dec.data) \in Nat
      BY <3>1, LenProperties
    <3>3. QED
      BY <1>9, <3>1, <3>2
  <2>2. QED
    BY <1>8, <1>9, <2>1, TableUntouched
<1>11. DecoderInv(opt, Crc!DecodeByte(opt, at, b, cell.mark))
  BY <1>2, <1>10, DecodeByteStep, Zenon
<1>12. QED
  BY <1>1, <1>3, <1>7, <1>11, Zenon

\* The same for the decoder's state.
LEMMA Delivered ==
    ASSUME PassInv, NEW cell \in CellType, NEW ok \in BOOLEAN, Deliver(cell, ok)
    PROVE  DecoderInv(o, d')
<1>1. PICK opt, dec : opt = o /\ dec = d
  OBVIOUS
<1>2. opt \in OptionType /\ DecoderInv(opt, dec)
  BY <1>1, CaseTypes DEF PassInv
<1>3. PICK new : new = d'
  OBVIOUS
<1>4. DecoderInv(opt, new)
  <2>1. new = Crc!DecodeByte(opt,
                 [dec EXCEPT !.enc = IF cell.mark = "none" THEN @ ELSE Encoded(cell.mark),
                             !.splice = FALSE],
                 [v |-> cell.v, ok |-> ok, last |-> cell.last], cell.mark)
    BY <1>1, <1>3, Zenon DEF Deliver
  <2>2. QED
    BY <1>2, <2>1, DeliverStep, Zenon
<1>5. QED
  BY <1>1, <1>3, <1>4, Zenon

\* What noise makes of a cell is a cell.
LEMMA DamagedType ==
    ASSUME NEW cell \in CellType, o.mark \in Marks, NEW new \in Damaged(cell)
    PROVE  new \in CellType
<1>1. PICK mark : mark = IF cell.mark = "none" THEN o.mark ELSE cell.mark
  OBVIOUS
<1>2. PICK to \in {"none", mark} \X NoiseBytes : new = [cell EXCEPT !.mark = to[1], !.v = to[2]]
  <2>1. new \in {[cell EXCEPT !.mark = to[1], !.v = to[2]] : to \in {"none", mark} \X NoiseBytes}
    BY <1>1, Zenon DEF Damaged
  <2>2. QED
    BY <2>1, Zenon
<1>3. to[1] \in Marks /\ to[2] \in 0 .. 255
  BY <1>1, <1>2, CasesAssumption DEF CellType, Marks
<1>4. QED
  BY <1>2, <1>3 DEF CellType

\* The track that a decoder has read, and the errors it has counted.
LEMMA WorkingInv ==
    ASSUME PassInv
    PROVE  /\ TrackInv(o, Working) /\ WorkingStats \in StatsType
           /\ Cardinality(Bad(Working.idams)) <= WorkingStats.errcount
<1>1. PICK opt, dec : opt = o /\ dec = d
  OBVIOUS
<1>2. opt \in OptionType /\ DecoderInv(opt, dec)
  BY <1>1, CaseTypes DEF PassInv
<1>3. PICK cut : cut = IF InsideSector THEN Crc!CutOff(dec) ELSE dec
  OBVIOUS
<1>4. /\ DecoderInv(opt, cut) /\ Bad(cut.idams) = Bad(dec.idams) /\ cut.data = dec.data
  <2>1. DecoderInv(opt, Crc!CutOff(dec)) /\ Bad(Crc!CutOff(dec).idams) = Bad(dec.idams)
    BY <1>2, CutOffStep, Zenon
  <2>2. Crc!CutOff(dec).data = dec.data
    BY <1>2 DEF Crc!CutOff, DecoderInv, DecoderType
  <2>3. QED
    BY <1>2, <1>3, <2>1, <2>2, Zenon
<1>5. PICK working : working = [idams |-> cut.idams, data |-> dec.data]
  OBVIOUS
<1>6. working = Working
  <2>1. (IF InsideSector THEN Crc!CutOff(d).idams ELSE d.idams) = cut.idams
    BY <1>1, <1>3, Zenon
  <2>2. QED
    BY <1>1, <1>5, <2>1, Zenon DEF Working
<1>7. TrackInv(opt, working)
  <2>1. working.idams = cut.idams /\ working.data = cut.data
    BY <1>4, <1>5
  <2>2. cut \in DecoderType /\ TableInv(opt, cut)
    BY <1>4, Zenon DEF DecoderInv
  <2>3. cut.idams \in Seq(EntryType) /\ cut.data \in Seq(Nat)
    BY <2>2, CountersType
  <2>4. working \in TrackType
    BY <1>4, <1>5, <2>3, Zenon DEF TrackType
  <2>5. opt.tracklen \in Nat /\ opt.tracklen <= TrackMax /\ Hdr \in Nat /\ TrackMax \in Nat
    BY <1>2, TrackPassesAssumption DEF OptionType
  <2>6. Len(cut.data) \in Nat
    BY <2>3, LenProperties
  <2>7. ASSUME NEW i \in DOMAIN working.idams
        PROVE  OnTrack(Len(working.data), working.idams[i].off)
    <3>1. InTable(Len(cut.data), opt.tracklen, cut.idams[i].off)
      BY <2>1, <2>2, Zenon DEF TableInv
    <3>2. cut.idams[i].off \in Nat
      BY <2>1, <2>3, OffsetType
    <3>3. QED
      BY <2>1, <2>5, <2>6, <3>1, <3>2 DEF InTable, OnTrack
  <2>8. Increasing(opt.tracklen, working.idams)
    BY <2>1, <2>2, Zenon DEF TableInv
  <2>9. QED
    BY <2>4, <2>7, <2>8, Zenon DEF TrackInv
<1>8. WorkingStats \in StatsType
  BY <1>1, <1>2 DEF WorkingStats, StatsType, DecoderInv, DecoderType
<1>9. Cardinality(Bad(working.idams)) <= WorkingStats.errcount
  <2>1. WorkingStats.errcount = dec.errcount
    BY <1>1 DEF WorkingStats
  <2>2. Bad(working.idams) = Bad(dec.idams)
    BY <1>4, <1>5
  <2>3. QED
    BY <1>2, <2>1, <2>2 DEF DecoderInv, ErrorsCover
<1>10. QED
  BY <1>1, <1>6, <1>7, <1>8, <1>9, Zenon

\* The end of a pass: what is kept of it and of the track merged before.
LEMMA EndPassStep ==
    ASSUME PassInv, EndPass
    PROVE  /\ TrackInv(o, merged') /\ stats' \in StatsType
           /\ Cardinality(Bad(merged'.idams)) <= stats'.errcount
           /\ (retry > 0 /\ o.join /\ merged.data # <<>>)
                => stats'.errcount <= stats.errcount + Crc!LateErrors(o, d)
<1>1. PICK opt, previous, pstats, working, wstats, late :
          /\ opt = o /\ previous = merged /\ pstats = stats
          /\ working = Working /\ wstats = WorkingStats /\ late = Crc!LateErrors(o, d)
  OBVIOUS
<1>2. /\ opt \in OptionType
      /\ TrackInv(opt, previous) /\ pstats \in StatsType
      /\ Cardinality(Bad(previous.idams)) <= pstats.errcount
      /\ TrackInv(opt, working) /\ wstats \in StatsType
      /\ Cardinality(Bad(working.idams)) <= wstats.errcount
  BY <1>1, CaseTypes, WorkingInv DEF PassInv
<1>3. late \in Nat
  <2>1. PICK post : post = Crc!PostProcess(o, d)
    OBVIOUS
  <2>2. late = (IF post.dbyte # -1 THEN 1 ELSE 0) + (IF post.ebyte # -1 THEN 1 ELSE 0)
    BY <1>1, <2>1 DEF Crc!LateErrors, Crc!NoCount
  <2>3. QED
    BY <2>2
<1>4. PICK both : both = M!Merge(previous, pstats, working, wstats)
  OBVIOUS
<1>5. PICK best : best = IF retry > 0 /\ o.join THEN both
                         ELSE [track |-> working, stats |-> wstats]
  OBVIOUS
<1>6. /\ merged' = best.track
      /\ stats' = [best.stats EXCEPT !.errcount = @ + late]
  <2>1. \E t \in {best} : /\ merged' = t.track
                          /\ stats' = [t.stats EXCEPT !.errcount = @ + Crc!LateErrors(o, d)]
    BY <1>1, <1>4, <1>5, Zenon DEF EndPass
  <2>2. QED
    BY <1>1, <2>1, Zenon
<1>7. /\ TrackInv(opt, both.track) /\ both.stats \in StatsType
      /\ Cardinality(Bad(both.track.idams)) <= both.stats.errcount
      /\ previous.data # <<>> => both.stats.errcount <= pstats.errcount
  BY <1>2, <1>4, MergeStep, Zenon
<1>8. /\ TrackInv(opt, best.track) /\ best.stats \in StatsType
      /\ Cardinality(Bad(best.track.idams)) <= best.stats.errcount
      /\ (retry > 0 /\ o.join /\ previous.data # <<>>)
           => best.stats.errcount <= pstats.errcount
  <2>1. CASE retry > 0 /\ o.join
    BY <1>5, <1>7, <2>1
  <2>2. CASE ~(retry > 0 /\ o.join)
    <3>1. best.track = working /\ best.stats = wstats
      BY <1>5, <2>2
    <3>2. QED
      BY <1>2, <2>2, <3>1, Zenon
  <2>3. QED
    BY <2>1, <2>2, Zenon
<1>9. PICK trk, stat, new : trk = best.track /\ stat = best.stats /\ new = stats'
  OBVIOUS
<1>10. stat \in StatsType /\ pstats \in StatsType /\ new = [stat EXCEPT !.errcount = @ + late]
  BY <1>2, <1>6, <1>8, <1>9
<1>11. new \in StatsType /\ new.errcount = stat.errcount + late
  BY <1>3, <1>10 DEF StatsType
<1>12. stat.errcount \in Nat /\ pstats.errcount \in Nat
  BY <1>10 DEF StatsType
<1>13. Cardinality(Bad(trk.idams)) \in Nat
  <2>1. trk.idams \in Seq(EntryType)
    BY <1>8, <1>9 DEF TrackInv, TrackType
  <2>2. QED
    BY <2>1, BadFinite
<1>14. Cardinality(Bad(trk.idams)) <= new.errcount
  BY <1>3, <1>8, <1>9, <1>11, <1>12, <1>13
<1>15. stat.errcount <= pstats.errcount => new.errcount <= pstats.errcount + late
  BY <1>3, <1>11, <1>12
<1>16. TrackInv(o, merged') /\ stats' \in StatsType
  BY <1>1, <1>6, <1>8, <1>9, <1>11, Zenon
<1>17. Cardinality(Bad(merged'.idams)) <= stats'.errcount
  BY <1>6, <1>9, <1>14, Zenon
<1>18. (retry > 0 /\ o.join /\ merged.data # <<>>)
          => stats'.errcount <= stats.errcount + Crc!LateErrors(o, d)
  BY <1>1, <1>8, <1>9, <1>15, Zenon
<1>19. QED
  BY <1>16, <1>17, <1>18

\* The invariant that all of this comes to.
THEOREM PassInvHolds == Spec => []PassInv
<1>1. Init => PassInv
  <2> SUFFICES ASSUME Init PROVE PassInv
    OBVIOUS
  <2>1. /\ case \in DOMAIN Cases /\ pc = "pass" /\ retry = 0 /\ pos = 1 /\ noise = 0
        /\ slipped = FALSE
    BY DEF Init
  <2>2. PICK opt : opt = o
    OBVIOUS
  <2>3. /\ opt \in OptionType /\ opt.first_encoding \in Crc!Encodings /\ opt.retries \in Nat
        /\ N \in Nat /\ Cases[case].noise \in Nat
    BY <2>1, <2>2, CaseTypes
  <2>4. DecoderInv(opt, Crc!NewDecoder(opt, opt.first_encoding, FALSE))
    <3>1. FALSE \in BOOLEAN
      OBVIOUS
    <3>2. QED
      BY <2>3, <3>1, NewDecoderInv, Zenon
  <2>5. DecoderInv(o, d)
    BY <2>2, <2>4, Zenon DEF Init
  <2>6. merged = M!NoTrack /\ stats = M!NoStats
    BY DEF Init
  <2>7. /\ merged.idams = <<>> /\ merged.data = <<>> /\ merged \in TrackType
        /\ stats \in StatsType /\ stats.errcount = 0
    <3>1. <<>> \in Seq(EntryType) /\ <<>> \in Seq(Nat)
      BY EmptySeq
    <3>2. QED
      BY <2>6, <3>1 DEF M!NoTrack, M!NoStats, TrackType, StatsType
  <2>8. DOMAIN merged.idams = {} /\ Bad(merged.idams) = {}
    BY <2>7 DEF Bad
  <2>9. TrackInv(o, merged)
    BY <2>7, <2>8, Zenon DEF TrackInv, Increasing
  <2>10. Cardinality(Bad(merged.idams)) <= stats.errcount
    <3>1. Cardinality(Bad(merged.idams)) = 0
      BY <2>8, FS_EmptySet
    <3>2. QED
      BY <2>7, <3>1
  <2>11. retry \in 0 .. o.retries /\ pos \in 1 .. N + 1 /\ noise \in 0 .. Cases[case].noise
    BY <2>1, <2>2, <2>3
  <2>12. QED
    BY <2>1, <2>5, <2>7, <2>9, <2>10, <2>11 DEF PassInv
<1>2. PassInv /\ [Next]_vars => PassInv'
  <2> SUFFICES ASSUME PassInv, [Next]_vars PROVE PassInv'
    OBVIOUS
  <2>1. case \in DOMAIN Cases
    BY DEF PassInv
  <2>2. /\ o \in OptionType /\ cells \in Seq(CellType) /\ N \in Nat
        /\ Cases[case].begin \subseteq 1 .. N /\ Cases[case].noise \in Nat
        /\ o.retries \in Nat /\ o.first_encoding \in Crc!Encodings /\ o.mark \in Marks
    BY <2>1, CaseTypes
  <2>3. case' = case => o' = o /\ N' = N /\ cells' = cells
    BY DEF o, N, cells
  <2>4. DecoderInv(o, Crc!NewDecoder(o, o.first_encoding, FALSE))
    <3>1. PICK opt : opt = o
      OBVIOUS
    <3>2. opt \in OptionType /\ opt.first_encoding \in Crc!Encodings /\ FALSE \in BOOLEAN
      BY <2>2, <3>1
    <3>3. DecoderInv(opt, Crc!NewDecoder(opt, opt.first_encoding, FALSE))
      BY <3>2, NewDecoderInv, Zenon
    <3>4. QED
      BY <3>1, <3>3, Zenon
  <2>5. \A dec : DecoderInv(o, dec) => DecoderInv(o, Crc!DecodeIndex(o, dec))
    <3>1. PICK opt : opt = o
      OBVIOUS
    <3>2. ASSUME NEW dec, DecoderInv(opt, dec)
          PROVE  DecoderInv(opt, Crc!DecodeIndex(opt, dec))
      BY <2>2, <3>1, <3>2, DecodeIndexStep, Zenon
    <3>3. QED
      BY <3>1, <3>2, Zenon
  <2>6. ~AtHole => cells[pos] \in CellType /\ pos + 1 \in 1 .. N + 1
    <3>1. PICK n, at : n = N /\ at = pos
      OBVIOUS
    <3>2. ~AtHole => at \in 1 .. n /\ at + 1 \in 1 .. n + 1
      BY <2>2, <3>1 DEF PassInv, AtHole
    <3>3. at \in 1 .. n => cells[at] \in CellType
      BY <2>2, <3>1, ElementOfSeq DEF N
    <3>4. QED
      BY <3>1, <3>2, <3>3
  <2>7. CASE BeginPass
    <3>1. PICK begin \in Cases[case].begin :
            /\ pos' = IF o.hole THEN 1 ELSE begin
            /\ LET new == Crc!NewDecoder(o, o.first_encoding, FALSE)
               IN d' = IF o.hole THEN Crc!DecodeIndex(o, new) ELSE new
      BY <2>7 DEF BeginPass
    <3>2. DecoderInv(o, d')
      <4>1. PICK fresh : fresh = Crc!NewDecoder(o, o.first_encoding, FALSE)
        OBVIOUS
      <4>2. d' = IF o.hole THEN Crc!DecodeIndex(o, fresh) ELSE fresh
        BY <3>1, <4>1, Zenon
      <4>3. DecoderInv(o, fresh) /\ DecoderInv(o, Crc!DecodeIndex(o, fresh))
        BY <2>4, <2>5, <4>1, Zenon
      <4>4. d' = fresh \/ d' = Crc!DecodeIndex(o, fresh)
        BY <4>2, Zenon
      <4>5. QED
        BY <4>3, <4>4, Zenon
    <3>3. pos' \in 1 .. N + 1
      <4>1. pos' = IF o.hole THEN 1 ELSE begin
        BY <3>1, Zenon
      <4>2. begin \in 1 .. N
        BY <2>2
      <4>3. QED
        BY <2>2, <4>1, <4>2
    <3>4. /\ case' = case /\ retry' = retry /\ merged' = merged /\ stats' = stats
          /\ pc' = "read" /\ slipped' = FALSE /\ noise' = Cases[case].noise
      BY <2>7 DEF BeginPass
    <3>5. noise' \in 0 .. Cases[case].noise
      BY <2>2, <3>4
    <3>6. QED
      BY <2>3, <3>2, <3>3, <3>4, <3>5 DEF PassInv
  <2>8. CASE ReadCell
    <3>1. /\ case' = case /\ pc' = pc /\ retry' = retry /\ merged' = merged /\ stats' = stats
          /\ noise' = noise /\ slipped' = FALSE /\ pos' = pos + 1 /\ ~AtHole
          /\ Deliver(cells[pos], ~slipped)
      BY <2>8 DEF ReadCell
    <3>2. cells[pos] \in CellType /\ pos' \in 1 .. N + 1 /\ (~slipped) \in BOOLEAN
      BY <2>6, <3>1
    <3>3. DecoderInv(o, d')
      BY <3>1, <3>2, Delivered, Zenon
    <3>4. QED
      BY <2>3, <3>1, <3>2, <3>3 DEF PassInv
  <2>9. CASE Index
    <3>1. /\ case' = case /\ pc' = pc /\ retry' = retry /\ merged' = merged /\ stats' = stats
          /\ noise' = noise /\ slipped' = slipped /\ pos' = 1
          /\ d' = Crc!DecodeIndex(o, d)
      BY <2>9 DEF Index
    <3>2. DecoderInv(o, d')
      BY <2>5, <3>1, Zenon DEF PassInv
    <3>3. pos' \in 1 .. N + 1
      BY <2>2, <3>1
    <3>4. QED
      BY <2>3, <3>1, <3>2, <3>3 DEF PassInv
  <2>10. CASE NoisyCell
    <3>1. PICK cell \in Damaged(cells[pos]) : Deliver(cell, FALSE)
      BY <2>10 DEF NoisyCell
    <3>2. /\ case' = case /\ pc' = pc /\ retry' = retry /\ merged' = merged /\ stats' = stats
          /\ noise > 0 /\ noise' = noise - 1 /\ slipped' = FALSE /\ pos' = pos + 1 /\ ~AtHole
      BY <2>10 DEF NoisyCell
    <3>3. cells[pos] \in CellType /\ pos' \in 1 .. N + 1
      BY <2>6, <3>2
    <3>4. cell \in CellType
      BY <2>2, <3>1, <3>3, DamagedType, Zenon
    <3>5. DecoderInv(o, d')
      BY <3>1, <3>4, Delivered, Zenon
    <3>6. noise' \in 0 .. Cases[case].noise
      BY <2>2, <3>2 DEF PassInv
    <3>7. QED
      BY <2>3, <3>2, <3>3, <3>5, <3>6 DEF PassInv
  <2>11. CASE LostCell
    <3>1. /\ case' = case /\ pc' = pc /\ retry' = retry /\ merged' = merged /\ stats' = stats
          /\ d' = d /\ noise > 0 /\ noise' = noise - 1 /\ slipped' = TRUE /\ pos' = pos + 1
          /\ ~AtHole
      BY <2>11 DEF LostCell
    <3>2. pos' \in 1 .. N + 1
      BY <2>6, <3>1
    <3>3. noise' \in 0 .. Cases[case].noise
      BY <2>2, <3>1 DEF PassInv
    <3>4. QED
      BY <2>3, <3>1, <3>2, <3>3 DEF PassInv
  <2>12. CASE EndPass
    <3>1. /\ case' = case /\ pc' = "judge" /\ retry' = retry /\ pos' = pos /\ d' = d
          /\ noise' = noise /\ slipped' = slipped
      BY <2>12 DEF EndPass
    <3>2. /\ TrackInv(o, merged') /\ stats' \in StatsType
          /\ Cardinality(Bad(merged'.idams)) <= stats'.errcount
      BY <2>12, EndPassStep
    <3>3. QED
      BY <2>3, <3>1, <3>2 DEF PassInv
  <2>13. CASE Retry
    <3>1. /\ case' = case /\ pc' = "pass" /\ retry' = retry + 1 /\ retry < o.retries
          /\ pos' = 1 /\ noise' = 0 /\ slipped' = FALSE /\ merged' = merged /\ stats' = stats
          /\ d' = Crc!NewDecoder(o, o.first_encoding, FALSE)
      BY <2>13 DEF Retry, Failing
    <3>2. /\ retry' \in 0 .. o.retries /\ pos' \in 1 .. N + 1
          /\ noise' \in 0 .. Cases[case].noise
      BY <2>2, <3>1 DEF PassInv
    <3>3. DecoderInv(o, d')
      BY <2>4, <3>1, Zenon
    <3>4. QED
      BY <2>3, <3>1, <3>2, <3>3 DEF PassInv
  <2>14. CASE Accept
    <3>1. /\ case' = case /\ pc' = "done" /\ retry' = retry /\ pos' = pos /\ d' = d
          /\ noise' = noise /\ slipped' = slipped /\ merged' = merged
          /\ stats' = [stats EXCEPT !.good = @ + stats.reused]
      BY <2>14 DEF Accept
    <3>2. stats' \in StatsType /\ stats'.errcount = stats.errcount
      BY <3>1 DEF PassInv, StatsType
    <3>3. QED
      BY <2>3, <3>1, <3>2 DEF PassInv
  <2>15. CASE UNCHANGED vars
    BY <2>3, <2>15 DEF PassInv, vars
  <2>16. QED
    BY <2>7, <2>8, <2>9, <2>10, <2>11, <2>12, <2>13, <2>14, <2>15, Zenon DEF Next
<1>3. QED
  BY <1>1, <1>2, PTL DEF Spec

-----------------------------------------------------------------------------
(* What it says.                                                           *)

\* Types: above all, the counters of gwflux_decode_bit() stay in range, and no
\* pointer leaves the track's buffer.
THEOREM TypeCorrect == Spec => []TypeOK
<1>1. PassInv => TypeOK
  <2> SUFFICES ASSUME PassInv PROVE TypeOK
    OBVIOUS
  <2>1. o \in OptionType
    BY CaseTypes DEF PassInv
  <2>2. o.tracklen \in Nat /\ o.tracklen <= TrackMax /\ Hdr \in Nat /\ TrackMax \in Nat
    BY <2>1, TrackPassesAssumption DEF OptionType
  <2>3. d \in DecoderType /\ merged \in TrackType
    BY Zenon DEF PassInv, DecoderInv, TrackInv
  <2>4. /\ d.ibyte \in -1 .. 18 /\ d.dbyte >= -1 /\ d.ebyte \in -1 .. 6
        /\ d.enc \in Crc!Encodings /\ d.crc \in {"open", "zero", "bad"}
        /\ d.idams \in Seq(EntryType) /\ merged.idams \in Seq(EntryType)
    BY <2>3, SMTT(60) DEF DecoderType, TrackType, Counter
  <2>5. stats \in [good : Nat, errcount : Nat, reused : Nat]
    BY DEF PassInv, StatsType
  <2>6. ASSUME NEW e \in ToSet(merged.idams)
        PROVE  e.off \in Hdr .. TrackMax /\ {e.bad, e.cut} \subseteq BOOLEAN
    <3>1. PICK i \in DOMAIN merged.idams : e = merged.idams[i]
      BY <2>6 DEF ToSet
    <3>2. e.off \in Hdr .. TrackMax
      BY <3>1, Zenon DEF PassInv, TrackInv, OnTrack
    <3>3. e \in EntryType
      BY <2>4, <3>1, OffsetType
    <3>4. QED
      BY <3>2, <3>3 DEF EntryType
  <2>7. ASSUME NEW e \in ToSet(d.idams)
        PROVE  e.off \in Hdr .. TrackMax /\ {e.bad, e.cut} \subseteq BOOLEAN
    <3>1. PICK i \in DOMAIN d.idams : e = d.idams[i]
      BY <2>7 DEF ToSet
    <3>2. InTable(Len(d.data), o.tracklen, e.off)
      BY <3>1, Zenon DEF PassInv, DecoderInv, TableInv
    <3>3. e \in EntryType
      BY <2>4, <3>1, OffsetType
    <3>4. e.off \in Hdr .. TrackMax
      BY <2>2, <3>2, <3>3 DEF InTable, EntryType
    <3>5. QED
      BY <3>3, <3>4 DEF EntryType
  <2>8. QED
    BY <2>4, <2>5, <2>6, <2>7, Zenon DEF TypeOK, PassInv
<1>2. QED
  BY <1>1, PassInvHolds, PTL

\* Errors and flags are counted in different places, and agree: whatever comes from
\* the disk, there is an error for every sector flagged, in a pass and in the track
\* merged from all of them.
THEOREM FlagsCounted == Spec => []FlagsAreErrors
<1>1. PassInv => FlagsAreErrors
  BY Zenon DEF PassInv, FlagsAreErrors, BadSectors, Bad, DecoderInv, ErrorsCover
<1>2. QED
  BY <1>1, PassInvHolds, PTL

\* The pointers of the IDAM table increase, in a pass and in the merged track, but for
\* marks that come when the track is full, and an ID being read has an entry to flag.
THEOREM PointersIncrease == Spec => []TableInOrder
<1>1. PassInv => TableInOrder
  <2> SUFFICES ASSUME PassInv PROVE TableInOrder
    OBVIOUS
  <2>1. Increasing(o.tracklen, merged.idams) /\ Increasing(o.tracklen, d.idams)
    BY Zenon DEF PassInv, DecoderInv, TrackInv, TableInv
  <2>2. d.ibyte # -1 => d.idams # <<>>
    BY Zenon DEF PassInv, DecoderInv, TableInv
  <2>3. QED
    BY <2>1, <2>2, Zenon DEF TableInOrder, Increasing
<1>2. QED
  BY <1>1, PassInvHolds, PTL

\* A further pass over a track never leaves it with more errors than it had, but for
\* those found behind the merge, in gw_post_process_track().
THEOREM PassesOnlyHelp == Spec => ErrorsNeverRise
<1>1. PassInv /\ [Next]_vars
        => [pc = "read" /\ pc' = "judge" /\ retry > 0 /\ o.join /\ merged.data # <<>>
              => stats'.errcount <= stats.errcount + Crc!LateErrors(o, d)]_vars
  <2> SUFFICES ASSUME PassInv, Next, pc = "read", pc' = "judge",
                      retry > 0, o.join, merged.data # <<>>
               PROVE  stats'.errcount <= stats.errcount + Crc!LateErrors(o, d)
    BY DEF vars
  <2>1. EndPass
    BY Zenon DEF Next, BeginPass, ReadCell, Index, NoisyCell, LostCell, Retry, Accept
  <2>2. QED
    BY <2>1, EndPassStep
<1>2. QED
  BY <1>1, PassInvHolds, PTL DEF Spec, ErrorsNeverRise

-----------------------------------------------------------------------------
(* The good sectors.                                                       *)

\* Those among the first m entries of a table, and how many may have been counted.
GoodTo(idams, m)  == {i \in 1 .. m : ~idams[i].bad}
WholeTo(idams, m) == {i \in 1 .. m : ~idams[i].bad /\ ~idams[i].cut}

Tally(opt, idams, m, good) ==
    /\ good <= Cardinality(GoodTo(idams, m))
    /\ opt.join => Cardinality(WholeTo(idams, m)) <= good

\* All sectors of the table are judged; all but the last.
AllTallied(opt, idams, good) == Tally(opt, idams, Len(idams), good)
LastOpen(opt, idams, good)   == idams # <<>> /\ Tally(opt, idams, Len(idams) - 1, good)

\* These sets are finite, and their sizes numbers.
LEMMA TallyFinite ==
    ASSUME NEW idams, NEW m \in Nat
    PROVE  /\ IsFiniteSet(GoodTo(idams, m)) /\ Cardinality(GoodTo(idams, m)) \in Nat
           /\ IsFiniteSet(WholeTo(idams, m)) /\ Cardinality(WholeTo(idams, m)) \in Nat
<1>1. IsFiniteSet(1 .. m)
  BY FS_Interval, 1 \in Int
<1>2. GoodTo(idams, m) \in SUBSET (1 .. m) /\ WholeTo(idams, m) \in SUBSET (1 .. m)
  BY DEF GoodTo, WholeTo
<1>3. IsFiniteSet(GoodTo(idams, m)) /\ IsFiniteSet(WholeTo(idams, m))
  BY <1>1, <1>2, FS_Subset, Zenon
<1>4. QED
  BY <1>3, FS_CardinalityType, Zenon

\* What an entry adds to their number.
InGood(e)  == IF e.bad THEN 0 ELSE 1
InWhole(e) == IF e.bad \/ e.cut THEN 0 ELSE 1

\* An entry more.
LEMMA OneMore ==
    ASSUME NEW idams \in Seq(EntryType), NEW m \in Nat, m + 1 \in DOMAIN idams
    PROVE  /\ Cardinality(GoodTo(idams, m + 1))
                = Cardinality(GoodTo(idams, m)) + InGood(idams[m + 1])
           /\ Cardinality(WholeTo(idams, m + 1))
                = Cardinality(WholeTo(idams, m)) + InWhole(idams[m + 1])
<1>1. 1 .. m + 1 = (1 .. m) \cup {m + 1} /\ m + 1 \notin 1 .. m
  OBVIOUS
<1>2. PICK e : e = idams[m + 1]
  OBVIOUS
<1>3. e \in EntryType
  BY <1>2, ElementOfSeq, LenProperties
<1>4. e.bad \in BOOLEAN /\ e.cut \in BOOLEAN
  BY <1>3 DEF EntryType
<1>5. /\ e.bad => GoodTo(idams, m + 1) = GoodTo(idams, m)
      /\ ~e.bad => GoodTo(idams, m + 1) = GoodTo(idams, m) \cup {m + 1}
      /\ e.bad \/ e.cut => WholeTo(idams, m + 1) = WholeTo(idams, m)
      /\ ~e.bad /\ ~e.cut => WholeTo(idams, m + 1) = WholeTo(idams, m) \cup {m + 1}
  BY <1>1, <1>2 DEF GoodTo, WholeTo
<1>6. m + 1 \notin GoodTo(idams, m) /\ m + 1 \notin WholeTo(idams, m)
  BY <1>1 DEF GoodTo, WholeTo
<1>7. /\ Cardinality(GoodTo(idams, m) \cup {m + 1}) = Cardinality(GoodTo(idams, m)) + 1
      /\ Cardinality(WholeTo(idams, m) \cup {m + 1}) = Cardinality(WholeTo(idams, m)) + 1
  BY <1>6, TallyFinite, FS_AddElement
<1>8. Cardinality(GoodTo(idams, m)) \in Nat /\ Cardinality(WholeTo(idams, m)) \in Nat
  BY TallyFinite
<1>9. Cardinality(GoodTo(idams, m + 1)) = Cardinality(GoodTo(idams, m)) + InGood(e)
  <2>1. CASE e.bad
    BY <1>5, <1>8, <2>1 DEF InGood
  <2>2. CASE ~e.bad
    BY <1>5, <1>7, <2>2, Zenon DEF InGood
  <2>3. QED
    BY <2>1, <2>2
<1>10. Cardinality(WholeTo(idams, m + 1)) = Cardinality(WholeTo(idams, m)) + InWhole(e)
  <2>1. CASE e.bad \/ e.cut
    BY <1>5, <1>8, <2>1 DEF InWhole
  <2>2. CASE ~(e.bad \/ e.cut)
    BY <1>5, <1>7, <2>2, Zenon DEF InWhole
  <2>3. QED
    BY <2>1, <2>2
<1>11. QED
  BY <1>2, <1>9, <1>10

\* The next entry is judged: one not flagged has been counted or not, if it is cut off;
\* a flagged one has not.
LEMMA TallyNext ==
    ASSUME NEW opt, NEW idams \in Seq(EntryType), NEW m \in Nat, m + 1 \in DOMAIN idams,
           NEW good \in Nat, Tally(opt, idams, m, good)
    PROVE  /\ ~opt.join \/ idams[m + 1].bad \/ idams[m + 1].cut => Tally(opt, idams, m + 1, good)
           /\ ~idams[m + 1].bad => Tally(opt, idams, m + 1, good + 1)
<1>1. PICK g \in Nat, w \in Nat : g = Cardinality(GoodTo(idams, m)) /\ w = Cardinality(WholeTo(idams, m))
  BY TallyFinite
<1>2. PICK h \in Nat, x \in Nat :
         h = Cardinality(GoodTo(idams, m + 1)) /\ x = Cardinality(WholeTo(idams, m + 1))
  BY TallyFinite, m + 1 \in Nat
<1>3. good <= g /\ (opt.join => w <= good)
  BY <1>1 DEF Tally
<1>4. h = g + InGood(idams[m + 1]) /\ x = w + InWhole(idams[m + 1])
  BY <1>1, <1>2, OneMore
<1>5. /\ ~opt.join \/ idams[m + 1].bad \/ idams[m + 1].cut => good <= h /\ (opt.join => x <= good)
      /\ ~idams[m + 1].bad => good + 1 <= h /\ (opt.join => x <= good + 1)
  <2>1. CASE idams[m + 1].bad
    BY <1>3, <1>4, <2>1 DEF InGood, InWhole
  <2>2. CASE ~idams[m + 1].bad
    <3>1. h = g + 1 /\ (x = w \/ x = w + 1) /\ (idams[m + 1].cut => x = w)
      BY <1>4, <2>2 DEF InGood, InWhole
    <3>2. QED
      BY <1>3, <2>2, <3>1
  <2>3. QED
    BY <2>1, <2>2
<1>6. QED
  BY <1>2, <1>5 DEF Tally

\* Tables of which one differs from the other in that more is cut off.
LEMMA TallyAlike ==
    ASSUME NEW opt, NEW idams \in Seq(EntryType), NEW t \in Seq(EntryType), NEW m \in Nat,
           \A i \in 1 .. m : t[i].bad = idams[i].bad /\ (idams[i].cut => t[i].cut),
           NEW good \in Nat, Tally(opt, idams, m, good)
    PROVE  Tally(opt, t, m, good)
<1>1. GoodTo(t, m) = GoodTo(idams, m)
  BY DEF GoodTo
<1>2. WholeTo(t, m) \in SUBSET WholeTo(idams, m)
  BY DEF WholeTo
<1>3. Cardinality(WholeTo(t, m)) <= Cardinality(WholeTo(idams, m))
  BY <1>2, TallyFinite, FS_Subset
<1>4. /\ Cardinality(WholeTo(t, m)) \in Nat /\ Cardinality(WholeTo(idams, m)) \in Nat
      /\ Cardinality(GoodTo(idams, m)) \in Nat
  BY TallyFinite
<1>5. QED
  BY <1>1, <1>3, <1>4 DEF Tally

\* What a table with a last entry is.
LEMMA LastEntry ==
    ASSUME NEW idams \in Seq(EntryType), idams # <<>>
    PROVE  \E m \in Nat : /\ Len(idams) = m + 1 /\ Len(idams) - 1 = m
                          /\ DOMAIN idams = 1 .. m + 1 /\ m + 1 \in DOMAIN idams
                          /\ Last(idams) = idams[m + 1]
<1>1. Len(idams) \in Nat \ {0}
  BY EmptySeq
<1>2. PICK m \in Nat : Len(idams) = m + 1
  <2>1. Len(idams) - 1 \in Nat /\ Len(idams) = (Len(idams) - 1) + 1
    BY <1>1
  <2>2. QED
    BY <2>1
<1>3. DOMAIN idams = 1 .. m + 1 /\ m + 1 \in 1 .. m + 1 /\ Len(idams) - 1 = m
  BY <1>2, LenProperties
<1>4. Last(idams) = idams[m + 1]
  BY <1>2 DEF Last
<1>5. QED
  BY <1>2, <1>3, <1>4

\* The last sector is judged.
LEMMA LastJudged ==
    ASSUME NEW opt, NEW idams \in Seq(EntryType), NEW good \in Nat, LastOpen(opt, idams, good)
    PROVE  /\ ~opt.join \/ Last(idams).bad \/ Last(idams).cut => AllTallied(opt, idams, good)
           /\ ~Last(idams).bad => AllTallied(opt, idams, good + 1)
<1>1. PICK m \in Nat : /\ Len(idams) = m + 1 /\ Len(idams) - 1 = m
                       /\ m + 1 \in DOMAIN idams /\ Last(idams) = idams[m + 1]
  BY LastEntry DEF LastOpen
<1>2. Tally(opt, idams, m, good)
  BY <1>1 DEF LastOpen
<1>3. QED
  BY <1>1, <1>2, TallyNext DEF AllTallied

\* The last sector is flagged, or cut off: a table of the same length.
LEMMA LastReplaced ==
    ASSUME NEW opt, NEW idams \in Seq(EntryType), NEW good \in Nat, LastOpen(opt, idams, good),
           NEW e \in EntryType
    PROVE  LET t == ReplaceAt(idams, Len(idams), e)
           IN t \in Seq(EntryType) /\ LastOpen(opt, t, good) /\ Last(t) = e
<1>1. PICK m \in Nat : Len(idams) = m + 1 /\ Len(idams) - 1 = m /\ DOMAIN idams = 1 .. m + 1
  BY LastEntry DEF LastOpen
<1>2. PICK t : t = [idams EXCEPT ![m + 1] = e]
  OBVIOUS
<1>3. /\ t \in Seq(EntryType) /\ Len(t) = m + 1
      /\ \A j \in 1 .. m + 1 : t[j] = IF j = m + 1 THEN e ELSE idams[j]
  BY <1>1, <1>2, ExceptSeq
<1>4. t[m + 1] = e /\ \A j \in 1 .. m : t[j] = idams[j]
  BY <1>3
<1>5. Tally(opt, t, m, good)
  <2>1. Tally(opt, idams, m, good)
    BY <1>1 DEF LastOpen
  <2>2. QED
    BY <1>3, <1>4, <2>1, TallyAlike
<1>6. t # <<>> /\ Len(t) - 1 = m
  BY <1>3
<1>7. Last(t) = e
  BY <1>3, <1>4 DEF Last
<1>8. ReplaceAt(idams, Len(idams), e) = t
  BY <1>1, <1>2, Zenon DEF ReplaceAt
<1>9. QED
  BY <1>3, <1>5, <1>6, <1>7, <1>8 DEF LastOpen

\* Flagging the last sector judges it: it is not counted.
LEMMA FlagTally ==
    ASSUME NEW opt, NEW idams \in Seq(EntryType), NEW good \in Nat, LastOpen(opt, idams, good)
    PROVE  LET t == FlaggedTable(opt, idams)
           IN /\ t # <<>> /\ LastOpen(opt, t, good) /\ AllTallied(opt, t, good)
              /\ opt.join => Last(t).bad
<1>1. idams # <<>>
  BY DEF LastOpen
<1>2. CASE opt.join
  <2>1. PICK e : e = [Last(idams) EXCEPT !.bad = TRUE]
    OBVIOUS
  <2>2. e \in EntryType /\ e.bad
    <3>1. Last(idams) \in EntryType
      BY <1>1, LastEntry, ElementOfSeq, SMTT(60)
    <3>2. QED
      BY <2>1, <3>1 DEF EntryType
  <2>3. PICK t : t = ReplaceAt(idams, Len(idams), e)
    OBVIOUS
  <2>4. FlaggedTable(opt, idams) = t
    BY <1>1, <1>2, <2>1, <2>3, Zenon DEF FlaggedTable
  <2>5. t \in Seq(EntryType) /\ LastOpen(opt, t, good) /\ Last(t) = e
    BY <2>2, <2>3, LastReplaced, Zenon
  <2>6. AllTallied(opt, t, good)
    BY <2>2, <2>5, LastJudged
  <2>7. QED
    BY <2>2, <2>4, <2>5, <2>6 DEF LastOpen
<1>3. CASE ~opt.join
  <2>1. FlaggedTable(opt, idams) = idams
    BY <1>3, Zenon DEF FlaggedTable
  <2>2. QED
    BY <1>1, <1>3, <2>1, LastJudged
<1>4. QED
  BY <1>2, <1>3

CutOffTable(idams) ==
    IF idams = <<>> THEN idams ELSE ReplaceAt(idams, Len(idams), [Last(idams) EXCEPT !.cut = TRUE])

\* Cutting it off judges it too, counted or not.
LEMMA CutTally ==
    ASSUME NEW opt, NEW idams \in Seq(EntryType), NEW good \in Nat
    PROVE  LET t == CutOffTable(idams)
           IN /\ t \in Seq(EntryType)
              /\ LastOpen(opt, idams, good) =>
                    /\ t # <<>> /\ LastOpen(opt, t, good) /\ AllTallied(opt, t, good)
                    /\ Last(t).bad = Last(idams).bad
              /\ AllTallied(opt, idams, good) => AllTallied(opt, t, good)
<1>1. CASE idams = <<>>
  BY <1>1 DEF CutOffTable, LastOpen
<1>2. CASE idams # <<>>
  <2>1. PICK m \in Nat : /\ Len(idams) = m + 1 /\ Len(idams) - 1 = m /\ DOMAIN idams = 1 .. m + 1
                         /\ Last(idams) = idams[m + 1]
    BY <1>2, LastEntry
  <2>2. PICK e : e = [idams[m + 1] EXCEPT !.cut = TRUE]
    OBVIOUS
  <2>3. e \in EntryType /\ e.cut /\ e.bad = idams[m + 1].bad
    <3>1. idams[m + 1] \in EntryType
      BY <2>1, ElementOfSeq
    <3>2. QED
      BY <2>2, <3>1 DEF EntryType
  <2>4. PICK t : t = CutOffTable(idams)
    OBVIOUS
  <2>5. t = ReplaceAt(idams, Len(idams), e)
    BY <1>2, <2>1, <2>2, <2>4, Zenon DEF CutOffTable
  <2>6. t = [idams EXCEPT ![m + 1] = e]
    BY <2>1, <2>5, Zenon DEF ReplaceAt
  <2>7. /\ t \in Seq(EntryType) /\ Len(t) = m + 1
        /\ \A j \in 1 .. m + 1 : t[j] = IF j = m + 1 THEN e ELSE idams[j]
    BY <2>1, <2>3, <2>6, ExceptSeq
  <2>8. ASSUME LastOpen(opt, idams, good)
        PROVE  /\ t # <<>> /\ LastOpen(opt, t, good) /\ AllTallied(opt, t, good)
               /\ Last(t).bad = Last(idams).bad
    <3>1. LastOpen(opt, t, good) /\ Last(t) = e
      BY <2>3, <2>5, <2>8, LastReplaced, Zenon
    <3>2. AllTallied(opt, t, good)
      BY <2>3, <2>7, <3>1, LastJudged
    <3>3. QED
      BY <2>1, <2>3, <3>1, <3>2 DEF LastOpen
  <2>9. ASSUME AllTallied(opt, idams, good)
        PROVE  AllTallied(opt, t, good)
    <3>1. \A i \in 1 .. m + 1 : t[i].bad = idams[i].bad /\ (idams[i].cut => t[i].cut)
      BY <2>3, <2>7
    <3>2. m + 1 \in Nat /\ Tally(opt, idams, m + 1, good)
      BY <2>1, <2>9 DEF AllTallied
    <3>3. Tally(opt, t, m + 1, good)
      BY <2>7, <3>1, <3>2, TallyAlike
    <3>4. QED
      BY <2>7, <3>3 DEF AllTallied
  <2>10. QED
    BY <2>4, <2>7, <2>8, <2>9, Zenon
<1>3. QED
  BY <1>1, <1>2

\* A new entry is yet to be judged.
LEMMA AppendTally ==
    ASSUME NEW opt, NEW idams \in Seq(EntryType), NEW good \in Nat, AllTallied(opt, idams, good),
           NEW e \in EntryType
    PROVE  LET t == Append(idams, e)
           IN t # <<>> /\ LastOpen(opt, t, good) /\ Last(t) = e
<1>1. PICK n \in Nat : n = Len(idams)
  BY LenProperties
<1>2. PICK t : t = Append(idams, e)
  OBVIOUS
<1>3. /\ t \in Seq(EntryType) /\ t # <<>> /\ Len(t) = n + 1 /\ Len(t) - 1 = n
      /\ \A i \in 1 .. n : t[i] = idams[i]
      /\ t[n + 1] = e
  BY <1>1, <1>2, AppendProperties
<1>4. Tally(opt, t, n, good)
  <2>1. Tally(opt, idams, n, good)
    BY <1>1 DEF AllTallied
  <2>2. QED
    BY <1>3, <2>1, TallyAlike
<1>5. Last(t) = e
  BY <1>3 DEF Last
<1>6. QED
  BY <1>2, <1>3, <1>4, <1>5 DEF LastOpen

\* Taken back, it need not be.
LEMMA FrontTally ==
    ASSUME NEW opt, NEW idams \in Seq(EntryType), NEW good \in Nat, LastOpen(opt, idams, good)
    PROVE  LET t == SubSeq(idams, 1, Len(idams) - 1)
           IN t \in Seq(EntryType) /\ AllTallied(opt, t, good)
<1>1. PICK m \in Nat : Len(idams) = m + 1 /\ Len(idams) - 1 = m /\ DOMAIN idams = 1 .. m + 1
  BY LastEntry DEF LastOpen
<1>2. PICK t : t = SubSeq(idams, 1, m)
  OBVIOUS
<1>3. \A i \in 1 .. m : idams[i] \in EntryType
  BY <1>1, ElementOfSeq
<1>4. t \in Seq(EntryType) /\ Len(t) = m /\ \A i \in 1 .. m : t[i] = idams[i]
  BY <1>2, <1>3, SubSeqProperties
<1>5. Tally(opt, t, m, good)
  <2>1. Tally(opt, idams, m, good)
    BY <1>1 DEF LastOpen
  <2>2. QED
    BY <1>4, <2>1, TallyAlike
<1>6. QED
  BY <1>1, <1>2, <1>4, <1>5 DEF AllTallied

-----------------------------------------------------------------------------
(* The decoder counts them.                                                *)

\* The last sector's ID is being read; its data mark is awaited or its data read.
Unjudged(dec)  == dec.ibyte \in 0 .. 6 /\ ~dec.awaiting_dam
Expecting(dec) == dec.awaiting_dam \/ dec.dbyte >= 0

LastUnjudged(opt, dec) ==
    LastOpen(opt, dec.idams, dec.good) /\ ~dec.valid_id /\ ~Last(dec.idams).bad

LastExpected(opt, dec) ==
    /\ LastOpen(opt, dec.idams, dec.good)
    /\ dec.valid_id => ~Last(dec.idams).bad
    /\ opt.join /\ ~dec.valid_id => Last(dec.idams).bad

\* Without a CRC over extra bytes, only the last sector has not been counted yet,
\* and valid_id says of it what its flag says.
GoodBetween(opt, dec) ==
    /\ dec.ebyte = -1
    /\ dec.ibyte # -1 \/ dec.awaiting_dam => dec.dbyte = -1
    /\ Unjudged(dec) => LastUnjudged(opt, dec)
    /\ Expecting(dec) => LastExpected(opt, dec)
    /\ ~Unjudged(dec) /\ ~Expecting(dec) => AllTallied(opt, dec.idams, dec.good)

GoodInv(opt, dec) ==
    GoodBetween(opt, dec) /\ dec.dbyte # 0 /\ (dec.awaiting_dam => dec.ibyte \notin 0 .. 6)

\* What a step leaves alone that is not about sectors.
SameSector(dec, new) ==
    /\ new.idams = dec.idams /\ new.good = dec.good /\ new.valid_id = dec.valid_id
    /\ new.awaiting_dam = dec.awaiting_dam
    /\ new.ibyte = dec.ibyte /\ new.dbyte = dec.dbyte /\ new.ebyte = dec.ebyte

\* A step that leaves these fields alone keeps the count.
LEMMA SameSectorGood ==
    ASSUME NEW opt, NEW dec, GoodInv(opt, dec), NEW new, SameSector(dec, new)
    PROVE  GoodInv(opt, new)
  BY DEF SameSector, GoodInv, GoodBetween, Unjudged, Expecting, LastUnjudged, LastExpected

\* Their types.
LEMMA SectorTypes ==
    ASSUME NEW dec \in DecoderType
    PROVE  /\ dec.idams \in Seq(EntryType) /\ dec.good \in Nat
           /\ dec.valid_id \in BOOLEAN /\ dec.awaiting_dam \in BOOLEAN
           /\ dec.ibyte \in -1 .. 18 /\ dec.dbyte \in Counter /\ dec.ebyte \in -1 .. 6
  BY Zenon DEF DecoderType

\* dmk_in_range() leaves them alone, ...
LEMMA CheckedSame ==
    ASSUME NEW opt, NEW dec \in DecoderType
    PROVE  SameSector(dec, Crc!Checked(opt, dec))
<1>1. PICK new : new = Crc!Checked(opt, dec)
  OBVIOUS
<1>2. \/ new = dec
      \/ new = [dec EXCEPT !.ignored = dec.ignored + 1]
      \/ new = [dec EXCEPT !.full = TRUE]
  BY <1>1 DEF Crc!Checked
<1>3. SameSector(dec, new)
  BY <1>2 DEF SameSector, DecoderType
<1>4. QED
  BY <1>1, <1>3, Zenon

\* ... and so does dmk_data().
LEMMA DataSame ==
    ASSUME NEW opt, NEW dec \in DecoderType, NEW v
    PROVE  SameSector(dec, Crc!Data(opt, dec, v))
<1>1. CASE ~Crc!InRange(opt, dec)
  BY <1>1, CheckedSame, Zenon DEF Crc!Data
<1>2. CASE Crc!InRange(opt, dec)
  <2>1. PICK w : w = IF dec.awaiting_dam /\ v \in Crc!DamLike THEN Crc!NotADam ELSE v
    OBVIOUS
  <2>2. PICK data : data = IF Hdr + Len(dec.data) > opt.tracklen - 2 THEN dec.data
                           ELSE dec.data \o IF Crc!DoubledFM(opt, dec.enc) THEN <<w, w>> ELSE <<w>>
    OBVIOUS
  <2>3. PICK new : new = [dec EXCEPT !.data = data]
    OBVIOUS
  <2>4. Crc!Data(opt, dec, v) = new
    BY <1>2, <2>1, <2>2, <2>3, Zenon DEF Crc!Data
  <2>5. SameSector(dec, new)
    BY <2>3 DEF SameSector, DecoderType
  <2>6. QED
    BY <2>4, <2>5, Zenon
<1>3. QED
  BY <1>1, <1>2, Zenon

\* Nothing is pending but, at most, an ID that has just been cut off.
Ready(opt, dec) ==
    /\ dec.ebyte = -1 /\ dec.dbyte = -1 /\ ~dec.awaiting_dam
    /\ AllTallied(opt, dec.idams, dec.good)
    /\ dec.ibyte \in 0 .. 6 => LastUnjudged(opt, dec)

\* A mark inside an ID cuts it off, and so judges it, ...
LEMMA CutIdGood ==
    ASSUME NEW opt \in OptionType, NEW dec \in DecoderType, GoodInv(opt, dec)
    PROVE  LET new == Crc!CutId(dec)
           IN /\ new \in DecoderType /\ GoodInv(opt, new)
              /\ Unjudged(new) => AllTallied(opt, new.idams, new.good)
<1>1. PICK new : new = Crc!CutId(dec)
  OBVIOUS
<1>2. /\ dec.idams \in Seq(EntryType) /\ dec.good \in Nat /\ dec.valid_id \in BOOLEAN
      /\ dec.awaiting_dam \in BOOLEAN
  BY SectorTypes, Zenon
<1>3. CASE dec.ibyte \notin 0 .. 6
  BY <1>3, Zenon DEF Crc!CutId, Unjudged
<1>4. CASE dec.ibyte \in 0 .. 6
  <2>1. Unjudged(dec) /\ LastUnjudged(opt, dec) /\ ~Expecting(dec)
    BY <1>2, <1>4 DEF GoodInv, GoodBetween, Unjudged, Expecting
  <2>2. PICK t : t = CutOffTable(dec.idams)
    OBVIOUS
  <2>3. t \in Seq(EntryType) /\ LastOpen(opt, t, dec.good) /\ AllTallied(opt, t, dec.good)
        /\ Last(t).bad = Last(dec.idams).bad
    BY <1>2, <2>1, <2>2, CutTally, Zenon DEF LastUnjudged
  <2>4. new = [dec EXCEPT !.idams = t]
    BY <1>1, <1>4, <2>2, Zenon
       DEF Crc!CutId, Crc!CutOff, CutOffTable, ReplaceAt, Last, Crc!ReplaceAt, Crc!Last
  <2>5. new \in DecoderType
    BY <2>3, <2>4, ZenonT(60) DEF DecoderType
  <2>6. /\ new.idams = t /\ new.good = dec.good /\ new.valid_id = dec.valid_id
        /\ new.awaiting_dam = dec.awaiting_dam
        /\ new.ibyte = dec.ibyte /\ new.dbyte = dec.dbyte /\ new.ebyte = dec.ebyte
    BY <2>4 DEF DecoderType
  <2>7. LastUnjudged(opt, new) /\ Unjudged(new) /\ ~Expecting(new)
    BY <2>1, <2>3, <2>6 DEF LastUnjudged, Unjudged, Expecting
  <2>8. GoodInv(opt, new)
    BY <2>6, <2>7 DEF GoodInv, GoodBetween
  <2>9. QED
    BY <1>1, <2>3, <2>5, <2>6, <2>8, Zenon
<1>5. QED
  BY <1>3, <1>4, Zenon

\* The sector whose data mark or data has not come is flagged.
LEMMA CheckMissingDamGood ==
    ASSUME NEW opt \in OptionType, NEW dec \in DecoderType, GoodInv(opt, dec),
           Unjudged(dec) => AllTallied(opt, dec.idams, dec.good)
    PROVE  LET new == Crc!CheckMissingDam(opt, dec)
           IN new \in DecoderType /\ Ready(opt, new)
<1>1. PICK new : new = Crc!CheckMissingDam(opt, dec)
  OBVIOUS
<1>2. /\ dec.idams \in Seq(EntryType) /\ dec.good \in Nat /\ dec.valid_id \in BOOLEAN
      /\ dec.awaiting_dam \in BOOLEAN /\ dec.dbyte \in Counter /\ dec.errcount \in Nat
      /\ dec.ibyte \in -1 .. 18
  BY SectorTypes, CountersType, Zenon
<1>3. CASE ~dec.awaiting_dam /\ dec.dbyte <= 0
  <2>1. new = dec
    BY <1>1, <1>3, Zenon DEF Crc!CheckMissingDam
  <2>2. dec.dbyte = -1 /\ ~Expecting(dec)
    BY <1>2, <1>3 DEF GoodInv, Counter, Expecting
  <2>3. Ready(opt, dec)
    BY <1>3, <2>2 DEF Ready, GoodInv, GoodBetween, Unjudged
  <2>4. QED
    BY <1>1, <2>1, <2>3, Zenon
<1>4. CASE ~(~dec.awaiting_dam /\ dec.dbyte <= 0)
  <2>1. Expecting(dec)
    BY <1>2, <1>4 DEF Expecting, Counter
  <2>2. LastOpen(opt, dec.idams, dec.good)
    BY <2>1 DEF GoodInv, GoodBetween, LastExpected
  <2>3. PICK errs \in Nat : errs = dec.errcount + 1
    BY <1>2
  <2>4. PICK at : at = [dec EXCEPT !.awaiting_dam = FALSE, !.valid_id = FALSE, !.ibyte = -1,
                                   !.dbyte = -1, !.ebyte = -1, !.errcount = errs]
    OBVIOUS
  <2>5. at \in DecoderType
    BY <2>3, <2>4, NoCountType, ZenonT(60) DEF DecoderType
  <2>6. /\ at.idams = dec.idams /\ at.good = dec.good /\ ~at.awaiting_dam
        /\ at.ibyte = -1 /\ at.dbyte = -1 /\ at.ebyte = -1
    BY <2>4 DEF DecoderType
  <2>7. PICK t : t = FlaggedTable(opt, at.idams)
    OBVIOUS
  <2>8. new = [at EXCEPT !.idams = t] /\ t \in Seq(EntryType)
    <3>1. new = Crc!Flag(opt, at)
      BY <1>1, <1>4, <2>3, <2>4, Zenon DEF Crc!CheckMissingDam, Crc!NoCount
    <3>2. QED
      BY <2>5, <2>7, <3>1, FlagShape, Zenon
  <2>9. new \in DecoderType
    BY <2>5, <2>8, ZenonT(60) DEF DecoderType
  <2>10. /\ new.idams = t /\ new.good = dec.good /\ ~new.awaiting_dam
         /\ new.ibyte = -1 /\ new.dbyte = -1 /\ new.ebyte = -1
    BY <2>5, <2>6, <2>8 DEF DecoderType
  <2>11. AllTallied(opt, t, dec.good)
    BY <1>2, <2>2, <2>6, <2>7, FlagTally
  <2>12. Ready(opt, new)
    BY <2>10, <2>11 DEF Ready
  <2>13. QED
    BY <1>1, <2>9, <2>12, Zenon
<1>5. QED
  BY <1>3, <1>4, Zenon

\* What a mark finds when it comes.
LEMMA MarkReady ==
    ASSUME NEW opt \in OptionType, NEW dec \in DecoderType, GoodInv(opt, dec)
    PROVE  LET new == Crc!CheckMissingDam(opt, Crc!CutId(dec))
           IN new \in DecoderType /\ Ready(opt, new)
<1>1. PICK cut : cut = Crc!CutId(dec)
  OBVIOUS
<1>2. /\ cut \in DecoderType /\ GoodInv(opt, cut)
      /\ Unjudged(cut) => AllTallied(opt, cut.idams, cut.good)
  BY <1>1, CutIdGood, Zenon
<1>3. PICK new : new = Crc!CheckMissingDam(opt, cut)
  OBVIOUS
<1>4. new \in DecoderType /\ Ready(opt, new)
  BY <1>2, <1>3, CheckMissingDamGood, Zenon
<1>5. QED
  BY <1>1, <1>3, <1>4, Zenon

\* With no ID begun or read, all sectors are judged.
LEMMA ReadyIsGood ==
    ASSUME NEW opt, NEW dec \in DecoderType, dec.ebyte = -1, dec.dbyte = -1, ~dec.awaiting_dam,
           dec.ibyte \in 0 .. 6 => LastUnjudged(opt, dec),
           dec.ibyte \notin 0 .. 6 => AllTallied(opt, dec.idams, dec.good)
    PROVE  GoodInv(opt, dec)
<1>1. ~Expecting(dec)
  BY DEF Expecting
<1>2. Unjudged(dec) <=> dec.ibyte \in 0 .. 6
  BY DEF Unjudged
<1>3. QED
  BY <1>1, <1>2 DEF GoodInv, GoodBetween

\* An IAM: nothing is being read after it.
LEMMA IndexMarkGood ==
    ASSUME NEW opt \in OptionType, NEW dec, DecoderInv(opt, dec), GoodInv(opt, dec),
           NEW b \in ByteType
    PROVE  GoodInv(opt, Crc!IndexMark(opt, dec, b))
<1>1. PICK cut, ended : cut = Crc!CutId(dec) /\ ended = Crc!CheckMissingDam(opt, cut)
  OBVIOUS
<1>2. ended \in DecoderType /\ Ready(opt, ended)
  <2>1. dec \in DecoderType
    BY DEF DecoderInv
  <2>2. ended = Crc!CheckMissingDam(opt, Crc!CutId(dec))
    BY <1>1
  <2>3. QED
    BY <2>1, <2>2, MarkReady, Zenon
<1>3. PICK at : at = Crc!Iam(opt, ended, b)
  OBVIOUS
<1>4. at \in DecoderType
  <2>1. DecoderInv(opt, cut)
    BY <1>1, CutIdStep, Zenon
  <2>2. DecoderInv(opt, ended)
    BY <1>1, <2>1, CheckMissingDamStep, Zenon
  <2>3. DecoderInv(opt, at)
    BY <1>3, <2>2, IamStep, Zenon
  <2>4. QED
    BY <2>3 DEF DecoderInv
<1>5. at.idams = ended.idams /\ at.good = ended.good /\ ~at.awaiting_dam
  <2>1. PICK place, first : /\ place = IF Crc!DoubledFM(opt, ended.enc) THEN 2 * opt.iam_pos ELSE opt.iam_pos
                            /\ first = (ended.awaiting_iam \/ ended.idams = <<>>)
    OBVIOUS
  <2>2. PICK d1 : d1 = IF opt.iam_pos >= 0 /\ first
                       THEN [ended EXCEPT !.data = Crc!Placed(ended.data, place, ended.enc),
                                          !.awaiting_iam = FALSE]
                       ELSE ended
    OBVIOUS
  <2>3. PICK v : v = [d1 EXCEPT !.awaiting_dam = FALSE, !.valid_id = FALSE]
    OBVIOUS
  <2>d. d1 \in DecoderType
    <3>1. CASE opt.iam_pos >= 0 /\ first
      <4>1. place \in Nat
        BY <2>1, <3>1 DEF OptionType
      <4>2. ended.data \in Seq(Nat)
        BY <1>2, CountersType, Zenon
      <4>3. PICK data \in Seq(Nat) : data = Crc!Placed(ended.data, place, ended.enc)
        BY <4>1, <4>2, PlacedType
      <4>4. d1 = [ended EXCEPT !.data = data, !.awaiting_iam = FALSE]
        BY <2>2, <3>1, <4>3
      <4>5. QED
        BY <1>2, <4>3, <4>4, ZenonT(60) DEF DecoderType
    <3>2. CASE ~(opt.iam_pos >= 0 /\ first)
      BY <1>2, <2>2, <3>2
    <3>3. QED
      BY <3>1, <3>2, Zenon
  <2>4. \/ at = Crc!Checked(opt, ended)
        \/ at = [ended EXCEPT !.full = TRUE]
        \/ at = Crc!Data(opt, v, b.v)
    BY <1>3, <2>1, <2>2, <2>3 DEF Crc!Iam
  <2>5. ~ended.awaiting_dam
    BY <1>2 DEF Ready
  <2>6. CASE at = Crc!Checked(opt, ended)
    <3>1. SameSector(ended, at)
      BY <1>2, <2>6, CheckedSame, Zenon
    <3>2. QED
      BY <2>5, <3>1 DEF SameSector
  <2>7. CASE at = [ended EXCEPT !.full = TRUE]
    BY <1>2, <2>5, <2>7 DEF DecoderType
  <2>8. CASE at = Crc!Data(opt, v, b.v)
    <3>1. v \in DecoderType
      BY <2>3, <2>d, ZenonT(60) DEF DecoderType
    <3>2. d1.idams = ended.idams /\ d1.good = ended.good
      BY <1>2, <2>2 DEF DecoderType
    <3>3. v.idams = d1.idams /\ v.good = d1.good /\ ~v.awaiting_dam
      BY <2>3, <2>d DEF DecoderType
    <3>4. SameSector(v, at)
      BY <2>8, <3>1, DataSame, Zenon
    <3>5. QED
      BY <3>2, <3>3, <3>4 DEF SameSector
  <2>9. QED
    BY <2>4, <2>6, <2>7, <2>8, Zenon
<1>6. PICK new : new = [at EXCEPT !.ibyte = -1, !.dbyte = -1, !.ebyte = -1]
  OBVIOUS
<1>7. new \in DecoderType
  BY <1>4, <1>6, NoCountType, ZenonT(60) DEF DecoderType
<1>8. /\ new.idams = ended.idams /\ new.good = ended.good /\ ~new.awaiting_dam
      /\ new.ibyte = -1 /\ new.dbyte = -1 /\ new.ebyte = -1
  BY <1>4, <1>5, <1>6 DEF DecoderType
<1>9. AllTallied(opt, new.idams, new.good)
  BY <1>2, <1>8 DEF Ready
<1>10. GoodInv(opt, new)
  BY <1>7, <1>8, <1>9, ReadyIsGood
<1>11. QED
  BY <1>1, <1>3, <1>6, <1>10, Zenon DEF Crc!IndexMark, Crc!NoCount

\* An IDAM: an entry is added that is yet to be judged, or none if there is no room.
LEMMA IdMarkGood ==
    ASSUME NEW opt \in OptionType, NEW dec, DecoderInv(opt, dec), GoodInv(opt, dec),
           ~dec.awaiting_iam, NEW b \in ByteType
    PROVE  GoodInv(opt, Crc!IdMark(opt, dec, b))
<1>1. PICK cut, ended : cut = Crc!CutId(dec) /\ ended = Crc!CheckMissingDam(opt, cut)
  OBVIOUS
<1>2. ended \in DecoderType /\ Ready(opt, ended)
  <2>1. dec \in DecoderType
    BY DEF DecoderInv
  <2>2. ended = Crc!CheckMissingDam(opt, Crc!CutId(dec))
    BY <1>1
  <2>3. QED
    BY <2>1, <2>2, MarkReady, Zenon
<1>3. PICK at : at = Crc!Idam(opt, ended, b)
  OBVIOUS
<1>4. at \in DecoderType
  <2>1. DecoderInv(opt, cut) /\ cut.awaiting_iam = dec.awaiting_iam
    BY <1>1, CutIdStep, Zenon
  <2>2. DecoderInv(opt, ended) /\ ended.awaiting_iam = cut.awaiting_iam
    BY <1>1, <2>1, CheckMissingDamStep, Zenon
  <2>3. ~ended.awaiting_iam
    BY <2>1, <2>2
  <2>4. DecoderInv(opt, at)
    BY <1>3, <2>2, <2>3, IdamStep, Zenon
  <2>5. QED
    BY <2>4 DEF DecoderInv
<1>5. /\ ended.idams \in Seq(EntryType) /\ ended.good \in Nat /\ ended.data \in Seq(Nat)
      /\ ended.enc \in Crc!Encodings
  BY <1>2, SectorTypes, CountersType, Zenon
<1>6. PICK data : data = IF ~ended.awaiting_iam /\ Crc!AwaitingTrackStart(opt, ended)
                         THEN Crc!Placed(ended.data, Gap1Plus, ended.enc) ELSE ended.data
  OBVIOUS
<1>7. data \in Seq(Nat)
  BY <1>5, <1>6, PlacedType, TrackPassesAssumption
<1>8. PICK d1 : d1 = [ended EXCEPT !.data = data, !.awaiting_dam = FALSE, !.valid_id = FALSE]
  OBVIOUS
<1>9. d1 \in DecoderType
  BY <1>2, <1>7, <1>8, ZenonT(60) DEF DecoderType
<1>10. /\ d1.idams = ended.idams /\ d1.good = ended.good /\ ~d1.valid_id /\ ~d1.awaiting_dam
       /\ d1.ibyte = ended.ibyte /\ d1.data = data /\ d1.errcount = ended.errcount
  BY <1>2, <1>8 DEF DecoderType
<1>11. \/ /\ at.idams = ended.idams /\ at.good = ended.good /\ ~at.awaiting_dam
          /\ at.ibyte = ended.ibyte
          /\ ended.ibyte \in 0 .. 6 => ~at.valid_id
       \/ /\ LastUnjudged(opt, at) /\ ~at.awaiting_dam /\ at.ibyte = 0
  <2>e. ~ended.awaiting_dam /\ (ended.ibyte \in 0 .. 6 => ~ended.valid_id)
    BY <1>2 DEF Ready, LastUnjudged
  <2>1. CASE ~Crc!InRange(opt, ended)
    <3>1. at = Crc!Checked(opt, ended)
      BY <1>3, <2>1 DEF Crc!Idam
    <3>2. SameSector(ended, at)
      BY <1>2, <3>1, CheckedSame, Zenon
    <3>3. QED
      BY <2>e, <3>2 DEF SameSector
  <2>2. CASE Crc!InRange(opt, ended) /\ ~Crc!Room(opt, d1)
    <3>1. at = d1
      BY <1>3, <1>6, <1>8, <2>2 DEF Crc!Idam
    <3>2. QED
      BY <1>10, <3>1
  <2>3. CASE /\ Crc!InRange(opt, ended) /\ Crc!Room(opt, d1)
             /\ Len(ended.idams) >= MaxIdams
    <3>1. at = [d1 EXCEPT !.errcount = d1.errcount + 1]
      BY <1>3, <1>6, <1>8, <2>3 DEF Crc!Idam
    <3>2. at.idams = d1.idams /\ at.good = d1.good /\ at.valid_id = d1.valid_id
          /\ at.awaiting_dam = d1.awaiting_dam /\ at.ibyte = d1.ibyte
      BY <1>9, <3>1 DEF DecoderType
    <3>3. QED
      BY <1>10, <3>2
  <2>4. CASE /\ Crc!InRange(opt, ended) /\ Crc!Room(opt, d1)
             /\ ~(Len(ended.idams) >= MaxIdams)
    <3>1. PICK e : e = Crc!Entry(Hdr + Len(data), ended.enc)
      OBVIOUS
    <3>2. e \in EntryType /\ ~e.bad
      <4>1. Hdr + Len(data) \in Nat
        BY <1>7, TrackPassesAssumption, LenProperties
      <4>2. QED
        BY <1>5, <3>1, <4>1 DEF Crc!Entry, EntryType
    <3>3. PICK t : t = Append(ended.idams, e)
      OBVIOUS
    <3>4. t \in Seq(EntryType)
      BY <1>5, <3>2, <3>3, AppendProperties
    <3>5. PICK begun : begun = [d1 EXCEPT !.idams = t, !.ibyte = 0]
      OBVIOUS
    <3>6. at = Crc!Data(opt, begun, b.v)
      <4>1. at = Crc!Data(opt, [d1 EXCEPT
                   !.idams = Append(d1.idams, Crc!Entry(Hdr + Len(d1.data), ended.enc)),
                   !.ibyte = 0], b.v)
        BY <1>3, <1>6, <1>8, <2>4 DEF Crc!Idam
      <4>2. QED
        BY <1>10, <3>1, <3>3, <3>5, <4>1
    <3>7. begun \in DecoderType
      <4>1. 0 \in -1 .. 18
        OBVIOUS
      <4>2. QED
        BY <1>9, <3>4, <3>5, <4>1, ZenonT(60) DEF DecoderType
    <3>8. /\ begun.idams = t /\ begun.good = ended.good /\ ~begun.valid_id
          /\ ~begun.awaiting_dam /\ begun.ibyte = 0
      BY <1>9, <1>10, <3>5 DEF DecoderType
    <3>9. LastOpen(opt, t, ended.good) /\ Last(t) = e
      <4>1. AllTallied(opt, ended.idams, ended.good)
        BY <1>2 DEF Ready
      <4>2. QED
        BY <1>5, <3>2, <3>3, <4>1, AppendTally, Zenon
    <3>10. SameSector(begun, at)
      BY <3>6, <3>7, DataSame, Zenon
    <3>11. QED
      BY <3>2, <3>8, <3>9, <3>10 DEF SameSector, LastUnjudged
  <2>5. QED
    <3>1. \/ ~Crc!InRange(opt, ended)
          \/ Crc!InRange(opt, ended) /\ ~Crc!Room(opt, d1)
          \/ Crc!InRange(opt, ended) /\ Crc!Room(opt, d1) /\ Len(ended.idams) >= MaxIdams
          \/ Crc!InRange(opt, ended) /\ Crc!Room(opt, d1) /\ ~(Len(ended.idams) >= MaxIdams)
      BY Zenon
    <3>2. QED
      BY <2>1, <2>2, <2>3, <2>4, <3>1, Zenon
<1>12. PICK crc : crc = CrcStep(Crc!A1Crc(opt, dec, "ID_CRC"), b)
  OBVIOUS
<1>13. PICK new : new = [at EXCEPT !.crc = crc, !.dbyte = -1, !.ebyte = -1]
  OBVIOUS
<1>14. new \in DecoderType
  <2>1. crc \in {"open", "zero", "bad"}
    BY <1>12, CrcStepType DEF CrcType
  <2>2. QED
    BY <1>4, <1>13, <2>1, NoCountType, ZenonT(60) DEF DecoderType
<1>15. /\ new.idams = at.idams /\ new.good = at.good /\ new.valid_id = at.valid_id
       /\ new.awaiting_dam = at.awaiting_dam /\ new.ibyte = at.ibyte
       /\ new.dbyte = -1 /\ new.ebyte = -1
  BY <1>4, <1>13 DEF DecoderType
<1>16. GoodInv(opt, new)
  <2>1. CASE /\ at.idams = ended.idams /\ at.good = ended.good /\ ~at.awaiting_dam
             /\ at.ibyte = ended.ibyte
             /\ ended.ibyte \in 0 .. 6 => ~at.valid_id
    <3>1. AllTallied(opt, new.idams, new.good)
      BY <1>2, <1>15, <2>1 DEF Ready
    <3>2. new.ibyte \in 0 .. 6 => LastUnjudged(opt, new)
      BY <1>2, <1>15, <2>1 DEF Ready, LastUnjudged
    <3>3. QED
      BY <1>14, <1>15, <2>1, <3>1, <3>2, ReadyIsGood
  <2>2. CASE LastUnjudged(opt, at) /\ ~at.awaiting_dam /\ at.ibyte = 0
    <3>1. LastUnjudged(opt, new)
      BY <1>15, <2>2 DEF LastUnjudged
    <3>2. new.ibyte \in 0 .. 6
      BY <1>15, <2>2
    <3>3. QED
      BY <1>14, <1>15, <2>2, <3>1, <3>2, ReadyIsGood
  <2>3. QED
    BY <1>11, <2>1, <2>2
<1>17. QED
  BY <1>1, <1>3, <1>12, <1>13, <1>16, Zenon DEF Crc!IdMark, Crc!NoCount

\* A data mark is taken for one only when it is awaited.
LEMMA DataMarkGood ==
    ASSUME NEW opt \in OptionType, NEW dec, DecoderInv(opt, dec), GoodInv(opt, dec),
           dec.awaiting_dam, NEW b \in ByteType
    PROVE  GoodInv(opt, Crc!DataMark(opt, dec, b))
<1>1. dec \in DecoderType
  BY DEF DecoderInv
<1>2. LastExpected(opt, dec)
  BY DEF GoodInv, GoodBetween, Expecting
<1>3. PICK at : at = [dec EXCEPT !.awaiting_dam = FALSE]
  OBVIOUS
<1>4. at \in DecoderType
  BY <1>1, <1>3, ZenonT(60) DEF DecoderType
<1>5. /\ at.idams = dec.idams /\ at.good = dec.good /\ at.valid_id = dec.valid_id
      /\ ~at.awaiting_dam
  BY <1>1, <1>3 DEF DecoderType
<1>6. PICK d1 : d1 = Crc!Data(opt, at, b.v)
  OBVIOUS
<1>7. SameSector(at, d1)
  BY <1>4, <1>6, DataSame, Zenon
<1>8. DecoderInv(opt, Crc!DataMark(opt, dec, b))
  BY DataMarkStep, Zenon
<1>9. d1 \in DecoderType
  <2>1. /\ at.errcount = dec.errcount /\ at.data = dec.data
        /\ at.ibyte = dec.ibyte /\ at.awaiting_iam = dec.awaiting_iam
    BY <1>1, <1>3 DEF DecoderType
  <2>2. DecoderInv(opt, at)
    BY <1>1, <1>4, <1>5, <2>1, TableUntouched, LenProperties, CountersType, SMTT(60)
  <2>3. b.v \in 0 .. 255
    BY DEF ByteType
  <2>4. DecoderInv(opt, d1)
    BY <1>6, <2>2, <2>3, DataStep, Zenon
  <2>5. QED
    BY <2>4 DEF DecoderInv
<1>10. PICK enc : enc = IF Crc!SwitchesToRX02(opt, dec, b.v) THEN "RX02" ELSE d1.enc
  OBVIOUS
<1>11. PICK d2 : d2 = [d1 EXCEPT !.enc = enc]
  OBVIOUS
<1>12. PICK crc, size : /\ crc = CrcStep(Crc!A1Crc(opt, d2, "DATA_CRC"), b)
                        /\ size = Crc!SecSizeOf(d2.sizecode, d2.enc, opt.maxsecsize, opt.quirk)
  OBVIOUS
<1>13. size \in Nat
  <2>1. d2.sizecode = d1.sizecode /\ d1.sizecode \in Nat /\ opt.maxsecsize \in Nat
    BY <1>9, <1>11 DEF DecoderType, OptionType
  <2>2. QED
    BY <1>12, <2>1, SecSizeType
<1>14. PICK new : new = [d2 EXCEPT !.crc = crc, !.ibyte = -1, !.dbyte = size + 2, !.ebyte = -1]
  OBVIOUS
<1>15. Crc!DataMark(opt, dec, b) = new
  BY <1>3, <1>6, <1>10, <1>11, <1>12, <1>14, Zenon DEF Crc!DataMark, Crc!NoCount
<1>16. /\ new.idams = d1.idams /\ new.good = d1.good /\ new.valid_id = d1.valid_id
       /\ new.awaiting_dam = d1.awaiting_dam
       /\ new.ibyte = -1 /\ new.dbyte = size + 2 /\ new.ebyte = -1
  BY <1>9, <1>11, <1>14 DEF DecoderType
<1>17. /\ new.idams = dec.idams /\ new.good = dec.good /\ new.valid_id = dec.valid_id
       /\ ~new.awaiting_dam
  BY <1>5, <1>7, <1>16 DEF SameSector
<1>18. LastExpected(opt, new)
  BY <1>2, <1>17 DEF LastExpected
<1>19. new.dbyte # 0 /\ Expecting(new) /\ ~Unjudged(new)
  BY <1>13, <1>16 DEF Expecting, Unjudged
<1>20. GoodInv(opt, new)
  BY <1>16, <1>17, <1>18, <1>19 DEF GoodInv, GoodBetween
<1>21. QED
  BY <1>15, <1>20, Zenon

\* What is no mark may be stored, but judges nothing.
LEMMA NoMarkSame ==
    ASSUME NEW opt, NEW dec \in DecoderType, NEW b, NEW mark
    PROVE  SameSector(dec, Crc!NoMark(opt, dec, b, mark))
<1>1. PICK new : new = Crc!NoMark(opt, dec, b, mark)
  OBVIOUS
<1> SUFFICES SameSector(dec, new)
  BY <1>1, Zenon
<1>2. \/ new = dec
      \/ new = [dec EXCEPT !.errcount = dec.errcount + 1]
      \/ new = Crc!Checked(opt, dec)
      \/ new = [dec EXCEPT !.backward = dec.backward + 1]
      \/ new = Crc!Data(opt, dec, b.v)
  BY <1>1 DEF Crc!NoMark
<1>3. CASE new = dec
  BY <1>3 DEF SameSector
<1>4. CASE new = [dec EXCEPT !.errcount = dec.errcount + 1]
  BY <1>4 DEF SameSector, DecoderType
<1>5. CASE new = Crc!Checked(opt, dec)
  BY <1>5, CheckedSame, Zenon
<1>6. CASE new = [dec EXCEPT !.backward = dec.backward + 1]
  BY <1>6 DEF SameSector, DecoderType
<1>7. CASE new = Crc!Data(opt, dec, b.v)
  BY <1>7, DataSame, Zenon
<1>8. QED
  BY <1>2, <1>3, <1>4, <1>5, <1>6, <1>7, Zenon

\* Between an ID's last byte, judged with the byte after it, and that byte counted.
GoodJudged(opt, dec) ==
    /\ GoodBetween(opt, dec) /\ dec.dbyte # 0
    /\ dec.awaiting_dam => dec.ibyte \notin 0 .. 5
    /\ dec.ibyte = 6 => dec.awaiting_dam

\* The same ID once more goes, before it is judged.
LEMMA WraparoundGood ==
    ASSUME NEW opt, NEW dec \in DecoderType, LastExpected(opt, dec), dec.awaiting_dam,
           dec.ibyte \in {6, -1}, dec.dbyte = -1, dec.ebyte = -1
    PROVE  GoodJudged(opt, Crc!CheckWraparound(opt, dec))
<1>1. PICK new : new = Crc!CheckWraparound(opt, dec)
  OBVIOUS
<1>2. CASE new = dec
  <2>1. Expecting(dec) /\ ~Unjudged(dec)
    BY DEF Expecting, Unjudged
  <2>2. GoodJudged(opt, dec)
    BY <2>1 DEF GoodJudged, GoodBetween
  <2>3. QED
    BY <1>1, <1>2, <2>2, Zenon
<1>3. CASE new # dec
  <2>1. PICK t : t = SubSeq(dec.idams, 1, Len(dec.idams) - 1)
    OBVIOUS
  <2>2. new = [dec EXCEPT !.idams = t, !.awaiting_dam = FALSE, !.ibyte = -1, !.full = TRUE]
    BY <1>1, <1>3, <2>1, Zenon DEF Crc!CheckWraparound, Crc!Front, Crc!NoCount
  <2>3. AllTallied(opt, t, dec.good)
    BY <2>1, FrontTally, SectorTypes, Zenon DEF LastExpected
  <2>4. /\ new.idams = t /\ new.good = dec.good /\ ~new.awaiting_dam
        /\ new.ibyte = -1 /\ new.dbyte = -1 /\ new.ebyte = -1
    BY <2>2 DEF DecoderType
  <2>5. ~Expecting(new) /\ ~Unjudged(new)
    BY <2>4 DEF Expecting, Unjudged
  <2>6. GoodJudged(opt, new)
    BY <2>3, <2>4, <2>5 DEF GoodJudged, GoodBetween
  <2>7. QED
    BY <1>1, <2>6, Zenon
<1>4. QED
  BY <1>2, <1>3

\* The ID is judged with the byte after it.
LEMMA IdByteGood ==
    ASSUME NEW opt \in OptionType, NEW dec \in DecoderType, GoodInv(opt, dec), NEW b
    PROVE  GoodJudged(opt, Crc!IdByte(opt, dec, b))
<1>1. PICK new : new = Crc!IdByte(opt, dec, b)
  OBVIOUS
<1>2. /\ dec.idams \in Seq(EntryType) /\ dec.good \in Nat /\ dec.valid_id \in BOOLEAN
      /\ dec.awaiting_dam \in BOOLEAN /\ dec.errcount \in Nat /\ dec.ibyte \in -1 .. 18
  BY SectorTypes, CountersType, Zenon
<1>3. CASE dec.ibyte = 6
  <2>1. LastUnjudged(opt, dec) /\ dec.dbyte = -1 /\ dec.ebyte = -1
    BY <1>3 DEF GoodInv, GoodBetween, Unjudged
  <2>2. PICK judged : judged = IF IsZero(dec.crc) THEN [dec EXCEPT !.valid_id = TRUE]
                               ELSE [Crc!Flag(opt, dec) EXCEPT !.errcount = @ + 1, !.ibyte = -1]
    OBVIOUS
  <2>3. PICK at : at = [judged EXCEPT !.awaiting_dam = TRUE]
    OBVIOUS
  <2>4. new = Crc!CheckWraparound(opt, at)
    <3>1. dec.ibyte # 0 /\ dec.ibyte # 3 /\ dec.ibyte # 18
      BY <1>3
    <3>2. QED
      BY <1>1, <1>3, <2>2, <2>3, <3>1, Zenon DEF Crc!IdByte, Crc!NoCount
  <2>5. CASE IsZero(dec.crc)
    <3>1. at = [dec EXCEPT !.valid_id = TRUE, !.awaiting_dam = TRUE]
      BY <2>2, <2>3, <2>5, ZenonT(60) DEF DecoderType
    <3>2. at \in DecoderType
      BY <3>1, ZenonT(60) DEF DecoderType
    <3>3. /\ at.idams = dec.idams /\ at.good = dec.good /\ at.valid_id /\ at.awaiting_dam
          /\ at.ibyte = 6 /\ at.dbyte = -1 /\ at.ebyte = -1
      BY <1>3, <2>1, <3>1 DEF DecoderType
    <3>4. LastExpected(opt, at)
      BY <2>1, <3>3 DEF LastUnjudged, LastExpected
    <3>5. GoodJudged(opt, new)
      BY <2>4, <3>2, <3>3, <3>4, WraparoundGood
    <3>6. QED
      BY <1>1, <3>5, Zenon
  <2>6. CASE ~IsZero(dec.crc)
    <3>1. PICK t : t = FlaggedTable(opt, dec.idams)
      OBVIOUS
    <3>2. Crc!Flag(opt, dec) = [dec EXCEPT !.idams = t] /\ t \in Seq(EntryType)
      BY <3>1, FlagShape, Zenon
    <3>3. PICK errs \in Nat : errs = dec.errcount + 1
      BY <1>2
    <3>4. PICK flagged : flagged = [dec EXCEPT !.idams = t]
      OBVIOUS
    <3>5. flagged \in DecoderType
      BY <3>2, <3>4, ZenonT(60) DEF DecoderType
    <3>6. /\ flagged.errcount = dec.errcount /\ flagged.idams = t /\ flagged.good = dec.good
          /\ flagged.valid_id = dec.valid_id /\ flagged.dbyte = dec.dbyte
          /\ flagged.ebyte = dec.ebyte
      BY <3>4 DEF DecoderType
    <3>7. at = [flagged EXCEPT !.errcount = errs, !.ibyte = -1, !.awaiting_dam = TRUE]
      <4>1. judged = [flagged EXCEPT !.errcount = errs, !.ibyte = -1]
        BY <2>2, <2>6, <3>2, <3>3, <3>4, <3>6, Zenon
      <4>2. QED
        BY <2>3, <3>5, <4>1 DEF DecoderType
    <3>8. at \in DecoderType
      BY <3>3, <3>5, <3>7, NoCountType, ZenonT(60) DEF DecoderType
    <3>9. /\ at.idams = t /\ at.good = dec.good /\ at.valid_id = dec.valid_id /\ at.awaiting_dam
          /\ at.ibyte = -1 /\ at.dbyte = -1 /\ at.ebyte = -1
      BY <2>1, <3>5, <3>6, <3>7 DEF DecoderType
    <3>10. LastOpen(opt, t, dec.good) /\ (opt.join => Last(t).bad)
      BY <1>2, <2>1, <3>1, FlagTally, Zenon DEF LastUnjudged
    <3>11. LastExpected(opt, at)
      BY <2>1, <3>9, <3>10 DEF LastUnjudged, LastExpected
    <3>12. GoodJudged(opt, new)
      BY <2>4, <3>8, <3>9, <3>11, WraparoundGood
    <3>13. QED
      BY <1>1, <3>12, Zenon
  <2>7. QED
    BY <2>5, <2>6, Zenon
<1>4. CASE dec.ibyte # 6
  <2>1. \/ new = [dec EXCEPT !.curcyl = b.v]
        \/ new = [dec EXCEPT !.sizecode = b.v]
        \/ dec.ibyte = 18 /\ new = [dec EXCEPT !.ibyte = -1]
        \/ new = dec
    BY <1>1, <1>4 DEF Crc!IdByte, Crc!NoCount
  <2>2. GoodJudged(opt, dec)
    BY <1>4 DEF GoodInv, GoodJudged
  <2>3. CASE SameSector(dec, new)
    <3>1. GoodJudged(opt, new)
      BY <2>2, <2>3 DEF SameSector, GoodJudged, GoodBetween, Unjudged, Expecting, LastUnjudged, LastExpected
    <3>2. QED
      BY <1>1, <3>1, Zenon
  <2>4. CASE dec.ibyte = 18 /\ new = [dec EXCEPT !.ibyte = -1]
    <3>1. /\ new.idams = dec.idams /\ new.good = dec.good /\ new.valid_id = dec.valid_id
          /\ new.awaiting_dam = dec.awaiting_dam
          /\ new.ibyte = -1 /\ new.dbyte = dec.dbyte /\ new.ebyte = dec.ebyte
      BY <2>4 DEF DecoderType
    <3>2. GoodJudged(opt, new)
      BY <2>2, <2>4, <3>1 DEF GoodJudged, GoodBetween, Unjudged, Expecting, LastUnjudged, LastExpected
    <3>3. QED
      BY <1>1, <3>2, Zenon
  <2>5. new = [dec EXCEPT !.curcyl = b.v] \/ new = [dec EXCEPT !.sizecode = b.v] \/ new = dec
          => SameSector(dec, new)
    BY DEF SameSector, DecoderType
  <2>6. QED
    BY <2>1, <2>3, <2>4, <2>5, Zenon
<1>5. QED
  BY <1>3, <1>4

\* A byte counted: the end of the data, where dbyte comes to 0, is dealt with next.
LEMMA CountedGood ==
    ASSUME NEW opt \in OptionType, NEW dec, DecoderInv(opt, dec), GoodJudged(opt, dec),
           dec.ibyte # 18, NEW b \in ByteType
    PROVE  LET new == Crc!Counted(opt, dec, b)
           IN GoodBetween(opt, new) /\ (new.awaiting_dam => new.ibyte \notin 0 .. 6)
<1>1. dec \in DecoderType
  BY DEF DecoderInv
<1>2. PICK at : at = Crc!Data(opt, dec, b.v)
  OBVIOUS
<1>3. SameSector(dec, at)
  BY <1>1, <1>2, DataSame, Zenon
<1>4. at \in DecoderType
  <2>1. b.v \in 0 .. 255
    BY DEF ByteType
  <2>2. DecoderInv(opt, at)
    BY <1>2, <2>1, DataStep, Zenon
  <2>3. QED
    BY <2>2 DEF DecoderInv
<1>5. PICK ibyte, dbyte, ebyte, crc :
           /\ ibyte = IF at.ibyte >= 0 THEN at.ibyte + 1 ELSE at.ibyte
           /\ dbyte = IF at.dbyte > 0 THEN at.dbyte - 1 ELSE at.dbyte
           /\ ebyte = IF at.ebyte > 0 THEN at.ebyte - 1 ELSE at.ebyte
           /\ crc = CrcStep(at.crc, b)
  OBVIOUS
<1>6. PICK new : new = [at EXCEPT !.ibyte = ibyte, !.dbyte = dbyte, !.ebyte = ebyte, !.crc = crc]
  OBVIOUS
<1>7. Crc!Counted(opt, dec, b) = new
  BY <1>2, <1>5, <1>6, Zenon DEF Crc!Counted
<1>8. /\ new.idams = dec.idams /\ new.good = dec.good /\ new.valid_id = dec.valid_id
      /\ new.awaiting_dam = dec.awaiting_dam
  BY <1>3, <1>4, <1>6 DEF DecoderType, SameSector
<1>9. new.ibyte = ibyte /\ new.dbyte = dbyte /\ new.ebyte = ebyte
  BY <1>4, <1>6 DEF DecoderType
<1>10. /\ dec.ibyte \in -1 .. 18 /\ dec.dbyte \in Counter /\ dec.dbyte # 0
       /\ dec.ebyte = -1 /\ dec.awaiting_dam \in BOOLEAN
       /\ dec.ibyte # -1 \/ dec.awaiting_dam => dec.dbyte = -1
       /\ dec.awaiting_dam => dec.ibyte \notin 0 .. 5
       /\ dec.ibyte = 6 => dec.awaiting_dam
  BY <1>1, SectorTypes DEF GoodJudged, GoodBetween
<1>11. /\ ibyte = IF dec.ibyte >= 0 THEN dec.ibyte + 1 ELSE dec.ibyte
       /\ dbyte = IF dec.dbyte > 0 THEN dec.dbyte - 1 ELSE dec.dbyte
       /\ ebyte = -1
  BY <1>3, <1>5, <1>10 DEF SameSector
<1>12. /\ ibyte = -1 <=> dec.ibyte = -1
       /\ ibyte \in 0 .. 6 => dec.ibyte \in 0 .. 5
       /\ dec.ibyte \in 0 .. 5 => ibyte \in 0 .. 6
       /\ dec.awaiting_dam => ibyte \notin 0 .. 6
       /\ dec.dbyte >= 0 <=> dbyte >= 0
       /\ dec.dbyte = -1 => dbyte = -1
  BY <1>10, <1>11 DEF Counter
<1>13. (Unjudged(new) => Unjudged(dec)) /\ (Unjudged(dec) => Unjudged(new))
  BY <1>8, <1>9, <1>10, <1>12 DEF Unjudged
<1>14. Expecting(new) <=> Expecting(dec)
  BY <1>8, <1>9, <1>12 DEF Expecting
<1>15. GoodBetween(opt, new)
  <2>1. new.ibyte # -1 \/ new.awaiting_dam => new.dbyte = -1
    BY <1>8, <1>9, <1>10, <1>12
  <2>2. (Unjudged(new) => LastUnjudged(opt, new)) /\ (Expecting(new) => LastExpected(opt, new))
    BY <1>8, <1>13, <1>14 DEF GoodJudged, GoodBetween, LastUnjudged, LastExpected
  <2>3. ~Unjudged(new) /\ ~Expecting(new) => AllTallied(opt, new.idams, new.good)
    BY <1>8, <1>13, <1>14 DEF GoodJudged, GoodBetween
  <2>4. QED
    BY <1>9, <1>11, <2>1, <2>2, <2>3 DEF GoodBetween
<1>16. QED
  BY <1>7, <1>8, <1>9, <1>12, <1>15, Zenon

\* A sector ends: it counts as good when its flag is not set and will not be.
LEMMA DataEndGood ==
    ASSUME NEW opt \in OptionType, "EXTRA_CRC" \notin opt.quirk,
           NEW dec \in DecoderType, GoodBetween(opt, dec),
           dec.awaiting_dam => dec.ibyte \notin 0 .. 6
    PROVE  GoodInv(opt, Crc!DataEnd(opt, dec))
<1>1. /\ dec.idams \in Seq(EntryType) /\ dec.good \in Nat /\ dec.valid_id \in BOOLEAN
      /\ dec.awaiting_dam \in BOOLEAN /\ dec.errcount \in Nat
  BY SectorTypes, CountersType, Zenon
<1>2. CASE dec.dbyte # 0
  <2>1. Crc!DataEnd(opt, dec) = dec
    BY <1>2, Zenon DEF Crc!DataEnd
  <2>2. GoodInv(opt, dec)
    BY <1>2 DEF GoodInv
  <2>3. QED
    BY <2>1, <2>2, Zenon
<1>3. CASE dec.dbyte = 0
  <2>1. LastExpected(opt, dec)
    BY <1>3 DEF GoodBetween, Expecting
  <2>2. dec.ibyte = -1 /\ ~dec.awaiting_dam /\ dec.ebyte = -1
    BY <1>1, <1>3 DEF GoodBetween
  <2>3. PICK judged : judged = IF IsZero(dec.crc) THEN Crc!GoodSector(dec)
                               ELSE Crc!CountedOnce(opt, dec)
    OBVIOUS
  <2>4. /\ AllTallied(opt, judged.idams, judged.good)
        /\ judged.ibyte = -1 /\ ~judged.awaiting_dam /\ judged.ebyte = -1
        /\ DOMAIN judged = DOMAIN dec
    <3>1. CASE IsZero(dec.crc) /\ dec.valid_id
      <4>1. PICK first, seen : /\ first = IF dec.good = 0 THEN dec.enc ELSE dec.first_encoding
                               /\ seen = (dec.rx02_seen \/ dec.enc = "RX02")
        OBVIOUS
      <4>2. judged = [dec EXCEPT !.first_encoding = first, !.good = dec.good + 1,
                                 !.rx02_seen = seen, !.cyl_seen = dec.curcyl]
        BY <2>3, <3>1, <4>1, Zenon DEF Crc!GoodSector
      <4>3. /\ judged.idams = dec.idams /\ judged.good = dec.good + 1
            /\ judged.ibyte = dec.ibyte /\ judged.awaiting_dam = dec.awaiting_dam
            /\ judged.ebyte = dec.ebyte
        BY <4>2 DEF DecoderType
      <4>4. AllTallied(opt, dec.idams, dec.good + 1)
        BY <1>1, <2>1, <3>1, LastJudged DEF LastExpected
      <4>5. DOMAIN judged = DOMAIN dec
        BY <4>2
      <4>6. QED
        BY <2>2, <4>3, <4>4, <4>5
    <3>2. CASE IsZero(dec.crc) /\ ~dec.valid_id
      <4>1. judged = dec
        BY <2>3, <3>2, Zenon DEF Crc!GoodSector
      <4>2. AllTallied(opt, dec.idams, dec.good)
        BY <1>1, <2>1, <3>2, LastJudged DEF LastExpected
      <4>3. QED
        BY <2>2, <4>1, <4>2
    <3>3. CASE ~IsZero(dec.crc)
      <4>1. PICK errs : errs = IF opt.join /\ Crc!Flagged(dec) THEN dec.errcount ELSE dec.errcount + 1
        OBVIOUS
      <4>2. PICK at : at = [dec EXCEPT !.errcount = errs]
        OBVIOUS
      <4>3. errs \in Nat
        BY <1>1, <4>1
      <4>4. at \in DecoderType
        BY <4>2, <4>3, ZenonT(60) DEF DecoderType
      <4>5. /\ at.idams = dec.idams /\ at.good = dec.good /\ at.ibyte = dec.ibyte
            /\ at.awaiting_dam = dec.awaiting_dam /\ at.ebyte = dec.ebyte
        BY <4>2 DEF DecoderType
      <4>6. PICK t : t = FlaggedTable(opt, at.idams)
        OBVIOUS
      <4>7. judged = [at EXCEPT !.idams = t]
        <5>1. judged = Crc!Flag(opt, at)
          BY <2>3, <3>3, <4>1, <4>2, Zenon DEF Crc!CountedOnce
        <5>2. QED
          BY <4>4, <4>6, <5>1, FlagShape, Zenon
      <4>8. /\ judged.idams = t /\ judged.good = dec.good /\ judged.ibyte = dec.ibyte
            /\ judged.awaiting_dam = dec.awaiting_dam /\ judged.ebyte = dec.ebyte
        BY <4>4, <4>5, <4>7 DEF DecoderType
      <4>9. AllTallied(opt, t, dec.good)
        BY <1>1, <2>1, <4>5, <4>6, FlagTally DEF LastExpected
      <4>10. DOMAIN judged = DOMAIN dec
        BY <4>2, <4>7
      <4>11. QED
        BY <2>2, <4>8, <4>9, <4>10
    <3>4. QED
      BY <3>1, <3>2, <3>3, Zenon
  <2>5. PICK enc, crc : /\ enc = IF judged.enc = "RX02" THEN "FM" ELSE judged.enc
                        /\ crc = IF "EXTRA_CRC" \in opt.quirk THEN "open" ELSE judged.crc
    OBVIOUS
  <2>6. PICK new : new = [judged EXCEPT !.dbyte = -1, !.valid_id = FALSE, !.splice = TRUE,
                                        !.enc = enc, !.ebyte = judged.ebyte, !.crc = crc]
    OBVIOUS
  <2>7. Crc!DataEnd(opt, dec) = new
    BY <1>3, <2>3, <2>5, <2>6, Zenon DEF Crc!DataEnd, Crc!NoCount
  <2>8. /\ new.idams = judged.idams /\ new.good = judged.good
        /\ new.ibyte = -1 /\ ~new.awaiting_dam /\ new.ebyte = -1 /\ new.dbyte = -1
    BY <2>4, <2>6 DEF DecoderType
  <2>9. ~Unjudged(new) /\ ~Expecting(new)
    BY <2>8 DEF Unjudged, Expecting
  <2>10. GoodInv(opt, new)
    BY <2>4, <2>8, <2>9 DEF GoodInv, GoodBetween
  <2>11. QED
    BY <2>7, <2>10, Zenon
<1>4. QED
  BY <1>2, <1>3

\* A byte that is no mark: the steps above one after the other.
LEMMA PlainByteGood ==
    ASSUME NEW opt \in OptionType, "EXTRA_CRC" \notin opt.quirk,
           NEW dec, DecoderInv(opt, dec), GoodInv(opt, dec), NEW b \in ByteType, NEW mark
    PROVE  GoodInv(opt, Crc!PlainByte(opt, dec, b, mark))
<1>1. PICK unmarked : unmarked = Crc!NoMark(opt, dec, b, mark)
  OBVIOUS
<1>2. DecoderInv(opt, unmarked) /\ GoodInv(opt, unmarked)
  <2>1. dec \in DecoderType
    BY DEF DecoderInv
  <2>2. SameSector(dec, unmarked)
    BY <1>1, <2>1, NoMarkSame, Zenon
  <2>3. GoodInv(opt, unmarked)
    BY <2>2, SameSectorGood, Zenon
  <2>4. QED
    BY <1>1, <2>3, NoMarkStep, Zenon
<1>3. PICK at : at = Crc!IdByte(opt, unmarked, b)
  OBVIOUS
<1>4. DecoderInv(opt, at) /\ at.ibyte # 18 /\ GoodJudged(opt, at)
  <2>1. unmarked \in DecoderType
    BY <1>2 DEF DecoderInv
  <2>2. GoodJudged(opt, at)
    BY <1>2, <1>3, <2>1, IdByteGood, Zenon
  <2>3. QED
    BY <1>2, <1>3, <2>2, IdByteStep, Zenon
<1>5. PICK counted : counted = Crc!Counted(opt, at, b)
  OBVIOUS
<1>6. /\ counted \in DecoderType /\ GoodBetween(opt, counted)
      /\ counted.awaiting_dam => counted.ibyte \notin 0 .. 6
  <2>1. DecoderInv(opt, counted)
    BY <1>4, <1>5, CountedStep, Zenon
  <2>2. counted \in DecoderType
    BY <2>1 DEF DecoderInv
  <2>3. QED
    BY <1>4, <1>5, <2>2, CountedGood, Zenon
<1>7. PICK ended : ended = Crc!DataEnd(opt, counted)
  OBVIOUS
<1>8. GoodInv(opt, ended)
  BY <1>6, <1>7, DataEndGood, Zenon
<1>9. Crc!ExtraEnd(opt, ended) = ended
  <2>1. ended.ebyte # 0
    BY <1>8 DEF GoodInv, GoodBetween
  <2>2. QED
    BY <2>1, Zenon DEF Crc!ExtraEnd
<1>10. Crc!PlainByte(opt, dec, b, mark) = ended
  <2>1. {Crc!ExtraEnd(opt, e) :
            e \in {Crc!DataEnd(opt, c) :
            c \in {Crc!Counted(opt, a, b) :
            a \in {Crc!IdByte(opt, u, b) : u \in {unmarked}}}}} = {ended}
    BY <1>3, <1>5, <1>7, <1>9, Zenon
  <2>2. QED
    BY <1>1, <2>1, Zenon DEF Crc!PlainByte
<1>11. QED
  BY <1>8, <1>10, Zenon

\* A byte of the stream, whatever it is.
LEMMA DecodeByteGood ==
    ASSUME NEW opt \in OptionType, "EXTRA_CRC" \notin opt.quirk,
           NEW dec, DecoderInv(opt, dec), GoodInv(opt, dec), NEW b \in ByteType, NEW mark
    PROVE  GoodInv(opt, Crc!DecodeByte(opt, dec, b, mark))
<1>1. \/ Crc!DecodeByte(opt, dec, b, mark) = Crc!IndexMark(opt, dec, b)
      \/ /\ Crc!IsIdam(dec, b, mark)
         /\ Crc!DecodeByte(opt, dec, b, mark) = Crc!IdMark(opt, dec, b)
      \/ /\ Crc!IsDam(opt, dec, b, mark)
         /\ Crc!DecodeByte(opt, dec, b, mark) = Crc!DataMark(opt, dec, b)
      \/ Crc!DecodeByte(opt, dec, b, mark) = Crc!PlainByte(opt, dec, b, mark)
  BY DEF Crc!DecodeByte
<1>2. Crc!IsIdam(dec, b, mark) => ~dec.awaiting_iam
  BY DEF Crc!IsIdam
<1>3. Crc!IsDam(opt, dec, b, mark) => dec.awaiting_dam
  BY DEF Crc!IsDam
<1>4. QED
  BY <1>1, <1>2, <1>3, IndexMarkGood, IdMarkGood, DataMarkGood, PlainByteGood, Zenon

\* The index hole is not inside the table.
LEMMA DecodeIndexGood ==
    ASSUME NEW opt \in OptionType, NEW dec \in DecoderType, GoodInv(opt, dec)
    PROVE  GoodInv(opt, Crc!DecodeIndex(opt, dec))
<1>1. PICK data : data = IF dec.index_edge = 0 /\ opt.ignore < 0
                         THEN dec.data \o [i \in 1 .. -opt.ignore |-> 255] ELSE dec.data
  OBVIOUS
<1>2. PICK new : new = [dec EXCEPT !.index_edge = dec.index_edge + 1, !.data = data]
  OBVIOUS
<1>3. Crc!DecodeIndex(opt, dec) = new
  BY <1>1, <1>2, Zenon DEF Crc!DecodeIndex
<1>4. SameSector(dec, new)
  BY <1>2 DEF SameSector, DecoderType
<1>5. QED
  BY <1>3, <1>4, SameSectorGood, Zenon

\* An empty table tells nothing.
LEMMA TallyEmpty ==
    ASSUME NEW opt
    PROVE  AllTallied(opt, <<>>, 0)
<1>1. GoodTo(<<>>, Len(<<>>)) = {} /\ WholeTo(<<>>, Len(<<>>)) = {}
  BY DEF GoodTo, WholeTo
<1>2. QED
  BY <1>1, FS_EmptySet DEF AllTallied, Tally

\* At the start of a pass there is nothing to count.
LEMMA NewDecoderGood ==
    ASSUME NEW opt \in OptionType, NEW enc \in Crc!Encodings, NEW seen \in BOOLEAN
    PROVE  GoodInv(opt, Crc!NewDecoder(opt, enc, seen))
<1>1. PICK new : new = Crc!NewDecoder(opt, enc, seen)
  OBVIOUS
<1>2. /\ new.idams = <<>> /\ new.good = 0 /\ ~new.awaiting_dam
      /\ new.ibyte = -1 /\ new.dbyte = -1 /\ new.ebyte = -1
  BY <1>1 DEF Crc!NewDecoder, Crc!NoCount
<1>3. ~Unjudged(new) /\ ~Expecting(new)
  BY <1>2 DEF Unjudged, Expecting
<1>4. AllTallied(opt, new.idams, new.good)
  BY <1>2, TallyEmpty
<1>5. GoodInv(opt, new)
  BY <1>2, <1>3, <1>4 DEF GoodInv, GoodBetween
<1>6. QED
  BY <1>1, <1>5, Zenon

\* The end of the stream cuts off the sector inside which it comes.
WorkingTable(dec) ==
    IF dec.ibyte # -1 \/ dec.awaiting_dam \/ dec.dbyte > 0 THEN Crc!CutOff(dec).idams ELSE dec.idams

\* Its table has all that the pass has counted.
LEMMA WorkingTally ==
    ASSUME NEW opt \in OptionType, NEW dec \in DecoderType, GoodInv(opt, dec)
    PROVE  AllTallied(opt, WorkingTable(dec), dec.good)
<1>1. dec.idams \in Seq(EntryType) /\ dec.good \in Nat /\ dec.dbyte \in Counter
  BY SectorTypes, Zenon
<1>2. PICK t : t = CutOffTable(dec.idams)
  OBVIOUS
<1>3. Crc!CutOff(dec).idams = t
  <2>1. Crc!CutOff(dec) = [dec EXCEPT !.idams = t]
    BY <1>2, Zenon DEF Crc!CutOff, CutOffTable, ReplaceAt, Last, Crc!ReplaceAt, Crc!Last
  <2>2. [dec EXCEPT !.idams = t].idams = t
    BY DEF DecoderType
  <2>3. QED
    BY <2>1, <2>2
<1>4. \/ LastOpen(opt, dec.idams, dec.good)
      \/ /\ AllTallied(opt, dec.idams, dec.good)
         /\ ~Expecting(dec) /\ ~Unjudged(dec)
  BY DEF GoodInv, GoodBetween, LastUnjudged, LastExpected
<1>5. AllTallied(opt, t, dec.good)
  BY <1>1, <1>2, <1>4, CutTally, Zenon
<1>6. CASE dec.ibyte # -1 \/ dec.awaiting_dam \/ dec.dbyte > 0
  BY <1>3, <1>5, <1>6, Zenon DEF WorkingTable
<1>7. CASE ~(dec.ibyte # -1 \/ dec.awaiting_dam \/ dec.dbyte > 0)
  <2>1. ~Expecting(dec) /\ ~Unjudged(dec)
    BY <1>1, <1>7 DEF Expecting, Unjudged, GoodInv, Counter
  <2>2. AllTallied(opt, dec.idams, dec.good)
    BY <2>1 DEF GoodInv, GoodBetween
  <2>3. QED
    BY <1>7, <2>2, Zenon DEF WorkingTable
<1>8. QED
  BY <1>6, <1>7

-----------------------------------------------------------------------------
(* Merging counts them.                                                    *)

\* What is merged with the first k sectors of the track just read: none that is
\* flagged has come for a good one, and for every good one more, one was reused.
MergeCount(idams, k, tmp) ==
    ~tmp.overflow =>
        /\ Cardinality(GoodTo(tmp.idams, Len(tmp.idams)))
             = Cardinality(GoodTo(idams, k)) + tmp.reused
        /\ Cardinality(WholeTo(tmp.idams, Len(tmp.idams)))
             <= Cardinality(WholeTo(idams, k)) + tmp.reused

\* A sector added to tmp, which leaves the other fields alone.
OneAdded(old, new, e) ==
    /\ Cardinality(GoodTo(new.idams, Len(new.idams)))
         = Cardinality(GoodTo(old.idams, Len(old.idams))) + InGood(e)
    /\ Cardinality(WholeTo(new.idams, Len(new.idams)))
         = Cardinality(WholeTo(old.idams, Len(old.idams))) + InWhole(e)

\* An entry appended to a table.
LEMMA AppendCount ==
    ASSUME NEW idams \in Seq(EntryType), NEW e \in EntryType
    PROVE  LET t == Append(idams, e)
           IN /\ Cardinality(GoodTo(t, Len(t)))
                   = Cardinality(GoodTo(idams, Len(idams))) + InGood(e)
              /\ Cardinality(WholeTo(t, Len(t)))
                   = Cardinality(WholeTo(idams, Len(idams))) + InWhole(e)
<1>1. PICK m \in Nat : m = Len(idams)
  BY LenProperties
<1>2. PICK t : t = Append(idams, e)
  OBVIOUS
<1>3. /\ t \in Seq(EntryType) /\ Len(t) = m + 1 /\ t[m + 1] = e
      /\ \A i \in 1 .. m : t[i] = idams[i]
  BY <1>1, <1>2, AppendProperties
<1>4. m + 1 \in DOMAIN t
  BY <1>3, LenProperties
<1>5. GoodTo(t, m) = GoodTo(idams, m) /\ WholeTo(t, m) = WholeTo(idams, m)
  BY <1>3 DEF GoodTo, WholeTo
<1>6. /\ Cardinality(GoodTo(t, m + 1)) = Cardinality(GoodTo(t, m)) + InGood(t[m + 1])
      /\ Cardinality(WholeTo(t, m + 1)) = Cardinality(WholeTo(t, m)) + InWhole(t[m + 1])
  BY <1>3, <1>4, OneMore
<1>7. QED
  BY <1>1, <1>2, <1>3, <1>5, <1>6, Zenon

\* A sector copied to tmp is an entry with the flags it had.
LEMMA CopiedCount ==
    ASSUME NEW begun \in TmpType, NEW track \in TrackType, NEW i \in DOMAIN track.idams,
           NEW len \in Nat
    PROVE  LET new == M!Copied(begun, track, i, len)
           IN /\ OneAdded(begun, new, track.idams[i])
              /\ new.overflow = begun.overflow /\ new.reused = begun.reused
<1>1. /\ begun.data \in Seq(Nat) /\ begun.idams \in Seq(EntryType)
      /\ track.idams \in Seq(EntryType)
  BY Zenon DEF TmpType, TrackType
<1>2. PICK at \in Nat : at = Len(begun.data)
  BY <1>1, LenProperties
<1>3. PICK bytes : bytes = M!Bytes(track, track.idams[i].off, len)
  OBVIOUS
<1>4. PICK was \in EntryType : was = track.idams[i]
  BY <1>1, OffsetType
<1>5. PICK e : e = [was EXCEPT !.off = Hdr + at]
  OBVIOUS
<1>6. e \in EntryType /\ e.bad = was.bad /\ e.cut = was.cut
  <2>1. Hdr + at \in Nat
    BY <1>2, TrackPassesAssumption, SMTT(60)
  <2>2. e \in EntryType
    BY <1>5, <2>1, Zenon DEF EntryType
  <2>3. e.bad = was.bad /\ e.cut = was.cut
    BY <1>5 DEF EntryType
  <2>4. QED
    BY <2>2, <2>3
<1>7. InGood(e) = InGood(was) /\ InWhole(e) = InWhole(was)
  BY <1>6, Zenon DEF InGood, InWhole
<1>8. PICK data, t : data = begun.data \o bytes /\ t = Append(begun.idams, e)
  OBVIOUS
<1>9. PICK new : new = [begun EXCEPT !.data = data, !.idams = t]
  OBVIOUS
<1>10. M!Copied(begun, track, i, len) = new
  BY <1>2, <1>3, <1>4, <1>5, <1>8, <1>9, Zenon DEF M!Copied
<1>11. new.idams = t /\ new.overflow = begun.overflow /\ new.reused = begun.reused
  BY <1>9 DEF TmpType
<1>12. /\ Cardinality(GoodTo(t, Len(t)))
            = Cardinality(GoodTo(begun.idams, Len(begun.idams))) + InGood(e)
       /\ Cardinality(WholeTo(t, Len(t)))
            = Cardinality(WholeTo(begun.idams, Len(begun.idams))) + InWhole(e)
  BY <1>1, <1>6, <1>8, AppendCount, Zenon
<1>13. OneAdded(begun, new, was)
  BY <1>7, <1>11, <1>12, Zenon DEF OneAdded
<1>14. QED
  BY <1>4, <1>10, <1>11, <1>13, Zenon

\* The bytes before the first sector are no sector.
LEMMA PrefixedCount ==
    ASSUME NEW old \in TmpType, NEW bytes
    PROVE  LET new == [old EXCEPT !.data = @ \o bytes]
           IN new.idams = old.idams /\ new.overflow = old.overflow /\ new.reused = old.reused
  BY DEF TmpType

\* Sector k of the track just read comes to tmp itself, ...
LEMMA CountOwn ==
    ASSUME NEW idams \in Seq(EntryType), NEW k \in DOMAIN idams,
           NEW old \in TmpType, NEW new \in TmpType,
           OneAdded(old, new, idams[k]), new.overflow = old.overflow, new.reused = old.reused,
           MergeCount(idams, k - 1, old)
    PROVE  MergeCount(idams, k, new)
<1>1. PICK m \in Nat : k = m + 1 /\ k - 1 = m /\ m + 1 \in DOMAIN idams
  BY LenProperties
<1>2. /\ Cardinality(GoodTo(idams, m + 1)) = Cardinality(GoodTo(idams, m)) + InGood(idams[m + 1])
      /\ Cardinality(WholeTo(idams, m + 1)) = Cardinality(WholeTo(idams, m)) + InWhole(idams[m + 1])
  BY <1>1, OneMore
<1>3. /\ Cardinality(GoodTo(idams, m)) \in Nat /\ Cardinality(WholeTo(idams, m)) \in Nat
  BY TallyFinite
<1>4. old.idams \in Seq(EntryType) /\ old.reused \in Nat
  BY Zenon DEF TmpType
<1>5. /\ Cardinality(GoodTo(old.idams, Len(old.idams))) \in Nat
      /\ Cardinality(WholeTo(old.idams, Len(old.idams))) \in Nat
  BY <1>4, LenProperties, TallyFinite
<1>6. PICK e : e = idams[k] /\ e = idams[m + 1]
  BY <1>1
<1>7. InGood(e) \in Nat /\ InWhole(e) \in Nat
  BY DEF InGood, InWhole
<1>8. PICK g \in Nat, w \in Nat, h \in Nat, x \in Nat, r \in Nat, inG \in Nat, inW \in Nat :
          /\ g = Cardinality(GoodTo(idams, m)) /\ w = Cardinality(WholeTo(idams, m))
          /\ h = Cardinality(GoodTo(old.idams, Len(old.idams)))
          /\ x = Cardinality(WholeTo(old.idams, Len(old.idams)))
          /\ r = old.reused /\ inG = InGood(e) /\ inW = InWhole(e)
  BY <1>3, <1>4, <1>5, <1>7, Zenon
<1>9. /\ Cardinality(GoodTo(idams, m + 1)) = g + inG
      /\ Cardinality(WholeTo(idams, m + 1)) = w + inW
  BY <1>2, <1>6, <1>8, Zenon
<1>10. /\ Cardinality(GoodTo(new.idams, Len(new.idams))) = h + inG
       /\ Cardinality(WholeTo(new.idams, Len(new.idams))) = x + inW
  BY <1>6, <1>8, Zenon DEF OneAdded
<1>11. ~old.overflow => h = g + r /\ x <= w + r
  BY <1>1, <1>8, Zenon DEF MergeCount
<1>12. ~old.overflow => h + inG = (g + inG) + r /\ x + inW <= (w + inW) + r
  BY <1>11
<1>13. QED
  BY <1>1, <1>8, <1>9, <1>10, <1>12, Zenon DEF MergeCount

\* ... or a good one of the track merged so far in its place.
LEMMA CountReused ==
    ASSUME NEW idams \in Seq(EntryType), NEW k \in DOMAIN idams, idams[k].bad,
           NEW old \in TmpType, NEW new \in TmpType, NEW e, ~e.bad,
           OneAdded(old, new, e), new.overflow = old.overflow, new.reused = old.reused + 1,
           MergeCount(idams, k - 1, old)
    PROVE  MergeCount(idams, k, new)
<1>1. PICK m \in Nat : k = m + 1 /\ k - 1 = m /\ m + 1 \in DOMAIN idams
  BY LenProperties
<1>2. /\ Cardinality(GoodTo(idams, m + 1)) = Cardinality(GoodTo(idams, m)) + InGood(idams[m + 1])
      /\ Cardinality(WholeTo(idams, m + 1)) = Cardinality(WholeTo(idams, m)) + InWhole(idams[m + 1])
  BY <1>1, OneMore
<1>3. /\ Cardinality(GoodTo(idams, m)) \in Nat /\ Cardinality(WholeTo(idams, m)) \in Nat
  BY TallyFinite
<1>4. old.idams \in Seq(EntryType) /\ old.reused \in Nat
  BY Zenon DEF TmpType
<1>5. /\ Cardinality(GoodTo(old.idams, Len(old.idams))) \in Nat
      /\ Cardinality(WholeTo(old.idams, Len(old.idams))) \in Nat
  BY <1>4, LenProperties, TallyFinite
<1>6. /\ InGood(idams[m + 1]) = 0 /\ InWhole(idams[m + 1]) = 0
      /\ InGood(e) = 1 /\ InWhole(e) \in 0 .. 1
  BY <1>1 DEF InGood, InWhole
<1>7. QED
  BY <1>1, <1>2, <1>3, <1>4, <1>5, <1>6 DEF MergeCount, OneAdded

\* One sector of the track just read.
LEMMA MergeSectorCount ==
    ASSUME NEW opt, NEW previous, TrackInv(opt, previous),
           NEW working, TrackInv(opt, working),
           NEW n \in Nat, M!Sectors(working) = 1 .. n, n <= Len(working.idams),
           NEW k \in 1 .. n, NEW old \in TmpType,
           MergeCount(working.idams, k - 1, old)
    PROVE  MergeCount(working.idams, k, M!MergeSector(previous, working, old, k))
<1>1. previous \in TrackType /\ working \in TrackType
  BY DEF TrackInv
<1>2. previous.idams \in Seq(EntryType) /\ working.idams \in Seq(EntryType)
  BY <1>1, Zenon DEF TrackType
<1>3. k \in DOMAIN working.idams
  BY <1>2, LenProperties
<1>4. PICK new : new = M!MergeSector(previous, working, old, k)
  OBVIOUS
<1>5. new \in TmpType
  BY <1>4, MergeSectorStep, Zenon
<1> SUFFICES MergeCount(working.idams, k, new)
  BY <1>4, Zenon
<1>6. PICK alts : alts = IF working.idams[k].bad THEN M!Alternatives(previous, working, k) ELSE {}
  OBVIOUS
<1>7. PICK begun : begun = IF k = 1 /\ alts # {} THEN [old EXCEPT !.data = @ \o M!Preamble(previous)]
                           ELSE old
  OBVIOUS
<1>8. PICK usable : usable = {p \in alts : M!PreviousLen(previous, p) > 0
                                           /\ M!Fits(begun, M!PreviousLen(previous, p))}
  OBVIOUS
<1>9. PICK own : own = IF k = 1 /\ M!HasPreamble(working)
                       THEN [begun EXCEPT !.data = @ \o M!Preamble(working)] ELSE begun
  OBVIOUS
<1>10. PICK len : len = M!SectorLen(working, k, M!Length(working) - Hdr)
  OBVIOUS
<1>11. PICK m \in Nat : m <= Len(previous.idams) /\ M!Sectors(previous) = 1 .. m
  BY <1>1, SectorsUpTo
<1>12. ASSUME NEW p \in alts
       PROVE  /\ p \in 1 .. m /\ p \in DOMAIN previous.idams /\ ~previous.idams[p].bad
              /\ working.idams[k].bad
              /\ k = 1 => M!HasPreamble(previous)
  <2>1. working.idams[k].bad /\ p \in M!Alternatives(previous, working, k)
    BY <1>6
  <2>2. p \in 1 .. m /\ ~previous.idams[p].bad /\ (k = 1 => M!HasPreamble(previous))
    BY <1>11, <2>1, Zenon DEF M!Alternatives
  <2>3. p \in DOMAIN previous.idams
    BY <1>2, <1>11, <2>2, LenProperties
  <2>4. QED
    BY <2>1, <2>2, <2>3
<1>13. /\ begun \in TmpType /\ begun.idams = old.idams
       /\ begun.overflow = old.overflow /\ begun.reused = old.reused
  <2>1. CASE k = 1 /\ alts # {}
    <3>1. M!HasPreamble(previous)
      BY <1>12, <2>1
    <3>2. begun = [old EXCEPT !.data = @ \o M!Preamble(previous)]
      BY <1>7, <2>1
    <3>3. begun \in TmpType
      BY <3>1, <3>2, PrefixedStep, ZenonT(60)
    <3>4. QED
      BY <3>2, <3>3, PrefixedCount, Zenon
  <2>2. CASE ~(k = 1 /\ alts # {})
    BY <1>7, <2>2
  <2>3. QED
    BY <2>1, <2>2, Zenon
<1>14. /\ own \in TmpType /\ own.idams = old.idams
       /\ own.overflow = old.overflow /\ own.reused = old.reused
  <2>1. CASE k = 1 /\ M!HasPreamble(working)
    <3>1. own = [begun EXCEPT !.data = @ \o M!Preamble(working)]
      BY <1>9, <2>1
    <3>2. own \in TmpType
      BY <1>13, <2>1, <3>1, PrefixedStep, ZenonT(60)
    <3>3. own.idams = begun.idams /\ own.overflow = begun.overflow /\ own.reused = begun.reused
      BY <1>13, <3>1, PrefixedCount, Zenon
    <3>4. QED
      BY <1>13, <3>2, <3>3, Zenon
  <2>2. CASE ~(k = 1 /\ M!HasPreamble(working))
    BY <1>9, <1>13, <2>2
  <2>3. QED
    BY <2>1, <2>2, Zenon
<1>15. CASE usable # {}
  <2>1. PICK p : p = M!Min(usable)
    OBVIOUS
  <2>2. p \in usable
    <3>1. usable \in SUBSET Nat
      BY <1>8, <1>12
    <3>2. \E x \in usable : \A y \in usable : x <= y
      BY <1>15, <3>1, SmallestMember
    <3>3. QED
      BY <2>1, <3>2 DEF M!Min
  <2>3. /\ p \in DOMAIN previous.idams /\ p \in 1 .. m /\ ~previous.idams[p].bad
        /\ working.idams[k].bad
    BY <1>8, <1>12, <2>2
  <2>4. PICK plen : plen = M!PreviousLen(previous, p)
    OBVIOUS
  <2>5. plen \in Nat
    <3>1. plen > 0
      BY <1>8, <2>2, <2>4
    <3>2. plen \in Int
      BY <1>1, <1>11, <2>3, <2>4, SectorLenType, LengthType, Zenon DEF M!PreviousLen
    <3>3. QED
      BY <3>1, <3>2
  <2>6. PICK copied : copied = M!Copied(begun, previous, p, plen)
    OBVIOUS
  <2>7. /\ OneAdded(begun, copied, previous.idams[p])
        /\ copied.overflow = begun.overflow /\ copied.reused = begun.reused
    BY <1>1, <1>13, <2>3, <2>5, <2>6, CopiedCount, Zenon
  <2>8. PICK errs : errs = IF copied.errcount > 0 THEN copied.errcount - 1 ELSE copied.errcount
    OBVIOUS
  <2>9. new = [copied EXCEPT !.reused = copied.reused + 1, !.errcount = errs]
    BY <1>4, <1>6, <1>7, <1>8, <1>15, <2>1, <2>4, <2>6, <2>8, ZenonT(60) DEF M!MergeSector
  <2>10. copied \in TmpType
    <3>1. /\ begun.idams = begun.idams /\ begun.errcount = begun.errcount
          /\ Len(begun.data) >= Len(begun.data)
      <4>1. begun.data \in Seq(Nat)
        BY <1>13, Zenon DEF TmpType
      <4>2. QED
        BY <4>1, LenProperties
    <3>2. M!Fits(begun, plen)
      BY <1>8, <2>2, <2>4
    <3>3. QED
      BY <1>1, <1>13, <2>3, <2>5, <2>6, <3>1, <3>2, CopiedStep, ZenonT(60)
  <2>11. /\ new.idams = copied.idams /\ new.overflow = copied.overflow
         /\ new.reused = copied.reused + 1
    BY <2>9, <2>10 DEF TmpType
  <2>12. /\ new.overflow = old.overflow /\ new.reused = old.reused + 1
         /\ OneAdded(old, new, previous.idams[p])
    BY <1>13, <2>7, <2>11, Zenon DEF OneAdded
  <2>13. QED
    BY <1>2, <1>3, <1>5, <2>3, <2>12, CountReused, Zenon
<1>16. CASE usable = {} /\ ((k = 1 /\ ~M!HasPreamble(working)) \/ len < 0 \/ ~M!Fits(own, len))
  <2>1. new = [own EXCEPT !.overflow = TRUE]
    BY <1>4, <1>6, <1>7, <1>8, <1>9, <1>10, <1>16, ZenonT(60) DEF M!MergeSector
  <2>2. new.overflow
    BY <1>14, <2>1 DEF TmpType
  <2>3. QED
    BY <2>2, Zenon DEF MergeCount
<1>17. CASE usable = {} /\ ~((k = 1 /\ ~M!HasPreamble(working)) \/ len < 0 \/ ~M!Fits(own, len))
  <2>1. new = M!Copied(own, working, k, len)
    BY <1>4, <1>6, <1>7, <1>8, <1>9, <1>10, <1>17, Zenon DEF M!MergeSector
  <2>2. len \in Int
    BY <1>1, <1>10, SectorLenType, LengthType
  <2>3. len \in Nat
    BY <1>17, <2>2
  <2>4. /\ OneAdded(own, new, working.idams[k])
        /\ new.overflow = own.overflow /\ new.reused = own.reused
    BY <1>1, <1>3, <1>14, <2>1, <2>3, CopiedCount, Zenon
  <2>5. /\ OneAdded(old, new, working.idams[k])
        /\ new.overflow = old.overflow /\ new.reused = old.reused
    BY <1>14, <2>4, Zenon DEF OneAdded
  <2>6. QED
    BY <1>2, <1>3, <1>5, <2>5, CountOwn, Zenon
<1>18. QED
  BY <1>15, <1>16, <1>17, Zenon

\* All of them.
LEMMA MergedCount ==
    ASSUME NEW opt, NEW previous, TrackInv(opt, previous),
           NEW working, TrackInv(opt, working),
           M!Sectors(working) = DOMAIN working.idams, NEW errcount \in Nat
    PROVE  MergeCount(working.idams, Len(working.idams),
                      M!MergedSectors(previous, working, errcount))
<1>1. working \in TrackType /\ working.idams \in Seq(EntryType)
  BY Zenon DEF TrackInv, TrackType
<1>2. PICK n \in Nat : n = Len(working.idams) /\ n <= Len(working.idams)
                       /\ M!Sectors(working) = 1 .. n
  BY <1>1, LenProperties
<1>3. PICK f \in [0 .. n -> TmpType] : Merging(f, previous, working, n, errcount)
  BY <1>2, MergedUpTo, Zenon
<1>4. /\ f[0] = MergeStart(errcount)
      /\ \A k \in 1 .. n : f[k] = M!MergeSector(previous, working, f[k - 1], k)
      /\ M!MergedSectors(previous, working, errcount) = f[n]
  BY <1>3, Zenon DEF Merging
<1> DEFINE S == {k \in Nat : k <= n => MergeCount(working.idams, k, f[k])}
<1>5. 0 \in S
  <2>1. f[0].idams = <<>> /\ f[0].reused = 0
    BY <1>4 DEF MergeStart
  <2>2. /\ GoodTo(<<>>, Len(<<>>)) = {} /\ WholeTo(<<>>, Len(<<>>)) = {}
        /\ GoodTo(working.idams, 0) = {} /\ WholeTo(working.idams, 0) = {}
    BY DEF GoodTo, WholeTo
  <2>3. Cardinality({}) = 0
    BY FS_EmptySet
  <2>4. MergeCount(working.idams, 0, f[0])
    BY <2>1, <2>2, <2>3 DEF MergeCount
  <2>5. QED
    BY <2>4
<1>6. ASSUME NEW k \in Nat, k \in S PROVE k + 1 \in S
  <2> SUFFICES ASSUME k + 1 <= n
               PROVE  MergeCount(working.idams, k + 1, f[k + 1])
    OBVIOUS
  <2>1. PICK j \in 1 .. n : j = k + 1 /\ j - 1 = k /\ k \in 0 .. n
    OBVIOUS
  <2>2. MergeCount(working.idams, j - 1, f[k]) /\ f[k] \in TmpType
    BY <1>6, <2>1
  <2>3. f[j] = M!MergeSector(previous, working, f[k], j)
    BY <1>4, <2>1
  <2>4. MergeCount(working.idams, j, M!MergeSector(previous, working, f[k], j))
    BY <1>2, <2>1, <2>2, MergeSectorCount, Zenon
  <2>5. QED
    BY <2>1, <2>3, <2>4
<1>7. n \in S
  <2> HIDE DEF S
  <2> QED
    BY <1>5, <1>6, SetInduction
<1>8. MergeCount(working.idams, n, f[n])
  BY <1>7
<1>9. QED
  BY <1>2, <1>4, <1>8, Zenon

\* What is reported of a track: the good sectors read and those reused.
Reported(opt, track, stat) == AllTallied(opt, track.idams, stat.good + stat.reused)

\* merge_sectors(): whatever track is kept, its sectors are counted, if every sector
\* of the track just read was looked at.
LEMMA MergeTally ==
    ASSUME NEW opt \in OptionType, NEW previous, TrackInv(opt, previous),
           NEW pstats \in StatsType, Reported(opt, previous, pstats),
           NEW working, TrackInv(opt, working),
           NEW wstats \in StatsType, AllTallied(opt, working.idams, wstats.good),
           Cardinality(Bad(working.idams)) <= wstats.errcount,
           M!Sectors(working) = DOMAIN working.idams
    PROVE  LET best == M!Merge(previous, pstats, working, wstats)
           IN Reported(opt, best.track, best.stats)
<1>1. wstats.errcount \in Nat /\ wstats.good \in Nat /\ 0 \in Nat
  BY DEF StatsType
<1>2. PICK best : best = M!Merge(previous, pstats, working, wstats)
  OBVIOUS
<1> SUFFICES Reported(opt, best.track, best.stats)
  BY <1>2, Zenon
<1>3. PICK own : own = [track |-> working, stats |-> [wstats EXCEPT !.reused = 0]]
  OBVIOUS
<1>4. Reported(opt, own.track, own.stats)
  <2>1. own.track = working /\ own.stats.good = wstats.good /\ own.stats.reused = 0
    BY <1>3 DEF StatsType
  <2>2. own.stats.good + own.stats.reused = wstats.good
    BY <1>1, <2>1
  <2>3. QED
    BY <2>1, <2>2, Zenon DEF Reported
<1>5. CASE wstats.errcount = 0
  <2>1. best = own
    BY <1>2, <1>3, <1>5, Zenon DEF M!Merge
  <2>2. QED
    BY <1>4, <2>1
<1>6. CASE wstats.errcount # 0
  <2>1. PICK tmp : tmp = M!MergedSectors(previous, working, wstats.errcount)
    OBVIOUS
  <2>2. tmp \in TmpType
    BY <1>1, <2>1, MergedSectorsInv, Zenon
  <2>3. MergeCount(working.idams, Len(working.idams), tmp)
    BY <1>1, <2>1, MergedCount, Zenon
  <2>4. PICK better : better = M!Better(working, wstats, tmp)
    OBVIOUS
  <2>5. best = M!Kept(previous, pstats, better)
    <3>1. best = CHOOSE t \in {M!Kept(previous, pstats, M!Better(working, wstats, u)) : u \in {tmp}} : TRUE
      BY <1>2, <1>6, <2>1, Zenon DEF M!Merge
    <3>2. {M!Kept(previous, pstats, M!Better(working, wstats, u)) : u \in {tmp}}
            = {M!Kept(previous, pstats, better)}
      BY <2>4, Zenon
    <3>3. QED
      BY <3>1, <3>2, Zenon
  <2>6. Reported(opt, better.track, better.stats)
    <3>1. CASE ~tmp.overflow /\ tmp.errcount < wstats.errcount
      <4>1. PICK track, stat : track = [idams |-> tmp.idams, data |-> tmp.data]
                               /\ stat = [good |-> wstats.good, errcount |-> tmp.errcount,
                                          reused |-> tmp.reused]
        OBVIOUS
      <4>2. better = [track |-> track, stats |-> stat]
        BY <2>4, <3>1, <4>1, Zenon DEF M!Better
      <4>3. better.track = track /\ better.stats = stat
        BY <4>2
      <4>4. /\ track.idams = tmp.idams
            /\ stat.good = wstats.good /\ stat.reused = tmp.reused
        BY <4>1
      <4>5. PICK len \in Nat, tlen \in Nat : len = Len(working.idams) /\ tlen = Len(tmp.idams)
        BY <2>2, LenProperties DEF TrackInv, TrackType, TmpType
      <4>6. PICK g \in Nat, w \in Nat, h \in Nat, x \in Nat, r \in Nat :
              /\ g = Cardinality(GoodTo(working.idams, len))
              /\ w = Cardinality(WholeTo(working.idams, len))
              /\ h = Cardinality(GoodTo(tmp.idams, tlen))
              /\ x = Cardinality(WholeTo(tmp.idams, tlen))
              /\ r = tmp.reused
        <5>1. tmp.reused \in Nat
          BY <2>2, Zenon DEF TmpType
        <5>2. QED
          BY <5>1, TallyFinite, Zenon
      <4>7. h = g + r /\ x <= w + r
        BY <2>3, <3>1, <4>5, <4>6, Zenon DEF MergeCount
      <4>8. wstats.good <= g /\ (opt.join => w <= wstats.good)
        BY <4>5, <4>6, Zenon DEF AllTallied, Tally
      <4>9. wstats.good + r <= h /\ (opt.join => x <= wstats.good + r)
        BY <1>1, <4>7, <4>8
      <4>10. AllTallied(opt, tmp.idams, wstats.good + r)
        BY <4>5, <4>6, <4>9, Zenon DEF AllTallied, Tally
      <4>11. QED
        BY <4>3, <4>4, <4>6, <4>10, Zenon DEF Reported
    <3>2. CASE ~(~tmp.overflow /\ tmp.errcount < wstats.errcount)
      <4>1. better = own
        BY <1>3, <2>4, <3>2, Zenon DEF M!Better
      <4>2. QED
        BY <1>4, <4>1
    <3>3. QED
      BY <3>1, <3>2, Zenon
  <2>7. CASE M!KeepsMerged(previous, pstats, better)
    <3>1. PICK kept : kept = [track |-> previous, stats |-> pstats]
      OBVIOUS
    <3>2. best = kept
      BY <2>5, <2>7, <3>1, Zenon DEF M!Kept
    <3>3. kept.track = previous /\ kept.stats = pstats
      BY <3>1
    <3>4. QED
      BY <3>2, <3>3, Zenon
  <2>8. CASE ~M!KeepsMerged(previous, pstats, better)
    BY <2>5, <2>6, <2>8, Zenon DEF M!Kept
  <2>9. QED
    BY <2>7, <2>8, Zenon
<1>7. QED
  BY <1>5, <1>6, Zenon

-----------------------------------------------------------------------------
(* The good sectors, pass after pass.                                      *)

\* dmk_get_phys_sector() looks no further than the first ID in the last ten bytes of
\* the longest track, and a merge drops what it does not look at.
IdsFit == \A i \in DOMAIN d.idams : d.idams[i].off <= TrackMax - 10

\* A sector of the track just read is then one that a merge looks at.
LEMMA AllLookedAt ==
    ASSUME NEW dec \in DecoderType, NEW data,
           \A i \in DOMAIN dec.idams : dec.idams[i].off <= TrackMax - 10
    PROVE  LET working == [idams |-> WorkingTable(dec), data |-> data]
           IN M!Sectors(working) = DOMAIN working.idams
<1>1. PICK working : working = [idams |-> WorkingTable(dec), data |-> data]
  OBVIOUS
<1> DEFINE idams == dec.idams
<1>2. idams \in Seq(EntryType)
  BY SectorTypes, Zenon
<1>3. PICK t : t = CutOffTable(idams)
  OBVIOUS
<1>4. DOMAIN t = DOMAIN idams /\ \A i \in DOMAIN idams : t[i].off = idams[i].off
  <2>1. CASE idams = <<>>
    BY <1>3, <2>1, Zenon DEF CutOffTable
  <2>2. CASE idams # <<>>
    <3>1. t = ReplaceAt(idams, Len(idams), [Last(idams) EXCEPT !.cut = TRUE])
      BY <1>3, <2>2 DEF CutOffTable
    <3>2. QED
      BY <1>2, <2>2, <3>1, CutTable, Zenon
  <2>3. QED
    BY <2>1, <2>2
<1>5. Crc!CutOff(dec).idams = t
  <2>1. Crc!CutOff(dec) = [dec EXCEPT !.idams = t]
    BY <1>3, Zenon DEF Crc!CutOff, CutOffTable, ReplaceAt, Last, Crc!ReplaceAt, Crc!Last
  <2>2. [dec EXCEPT !.idams = t].idams = t
    BY DEF DecoderType
  <2>3. QED
    BY <2>1, <2>2
<1>6. /\ DOMAIN WorkingTable(dec) = DOMAIN idams
      /\ \A i \in DOMAIN idams : WorkingTable(dec)[i].off = idams[i].off
  <2>1. WorkingTable(dec) = t \/ WorkingTable(dec) = idams
    BY <1>5, Zenon DEF WorkingTable
  <2>2. QED
    BY <1>4, <2>1, Zenon
<1>7. working.idams = WorkingTable(dec)
  BY <1>1
<1>8. ASSUME NEW i \in DOMAIN working.idams
      PROVE  ~(working.idams[i].off > TrackMax - 10)
  <2>1. PICK off \in Nat : off = idams[i].off /\ off = working.idams[i].off
    BY <1>2, <1>6, <1>7, <1>8, OffsetType
  <2>2. off <= TrackMax - 10 /\ TrackMax \in Nat
    BY <1>6, <1>7, <1>8, <2>1, TrackPassesAssumption
  <2>3. QED
    BY <2>1, <2>2
<1>9. {i \in DOMAIN working.idams : working.idams[i].off > TrackMax - 10} = {}
  BY <1>8, Zenon
<1>10. M!Sectors(working) = DOMAIN working.idams
  BY <1>9, Zenon DEF M!Sectors
<1>11. QED
  BY <1>1, <1>10, Zenon

\* The counts of a pass are those of its table, and those of the merged track its own.
CountInv ==
    "EXTRA_CRC" \notin o.quirk =>
        /\ GoodInv(o, d)
        /\ IF pc = "done" THEN AllTallied(o, merged.idams, stats.good)
                          ELSE Reported(o, merged, stats)

\* A cell of the track, whatever noise makes of it.
LEMMA DeliverGood ==
    ASSUME NEW opt \in OptionType, "EXTRA_CRC" \notin opt.quirk,
           NEW dec, DecoderInv(opt, dec), GoodInv(opt, dec),
           NEW cell \in CellType, NEW ok \in BOOLEAN
    PROVE  LET b  == [v |-> cell.v, ok |-> ok, last |-> cell.last]
               at == [dec EXCEPT !.enc = IF cell.mark = "none" THEN @ ELSE Encoded(cell.mark),
                                 !.splice = FALSE]
           IN GoodInv(opt, Crc!DecodeByte(opt, at, b, cell.mark))
<1>1. PICK b : b = [v |-> cell.v, ok |-> ok, last |-> cell.last]
  OBVIOUS
<1>2. b \in ByteType
  BY <1>1 DEF CellType, ByteType
<1>3. PICK enc : enc = IF cell.mark = "none" THEN dec.enc ELSE Encoded(cell.mark)
  OBVIOUS
<1>4. dec \in DecoderType
  BY Zenon DEF DecoderInv
<1>5. dec.enc \in Crc!Encodings
  BY <1>4, CountersType
<1>6. enc \in Crc!Encodings
  BY <1>3, <1>5 DEF Encoded, Crc!Encodings
<1>7. PICK at : at = [dec EXCEPT !.enc = enc, !.splice = FALSE]
  OBVIOUS
<1>8. at \in DecoderType
  BY <1>4, <1>6, <1>7, ZenonT(60) DEF DecoderType
<1>9. /\ at.idams = dec.idams /\ at.errcount = dec.errcount /\ at.data = dec.data
      /\ at.ibyte = dec.ibyte /\ at.awaiting_iam = dec.awaiting_iam
  BY <1>4, <1>7 DEF DecoderType
<1>10. DecoderInv(opt, at)
  <2>1. at.errcount >= dec.errcount /\ Len(at.data) >= Len(dec.data)
    <3>1. dec.errcount \in Nat /\ dec.data \in Seq(Nat)
      BY <1>4, CountersType
    <3>2. Len(dec.data) \in Nat
      BY <3>1, LenProperties
    <3>3. QED
      BY <1>9, <3>1, <3>2
  <2>2. QED
    BY <1>8, <1>9, <2>1, TableUntouched
<1>11. GoodInv(opt, at)
  <2>1. SameSector(dec, at)
    BY <1>4, <1>7 DEF SameSector, DecoderType
  <2>2. QED
    BY <2>1, SameSectorGood
<1>12. GoodInv(opt, Crc!DecodeByte(opt, at, b, cell.mark))
  BY <1>2, <1>10, <1>11, DecodeByteGood, Zenon
<1>13. QED
  BY <1>1, <1>3, <1>7, <1>12, Zenon

\* The same for the decoder's state.
LEMMA DeliveredGood ==
    ASSUME PassInv, "EXTRA_CRC" \notin o.quirk, GoodInv(o, d),
           NEW cell \in CellType, NEW ok \in BOOLEAN, Deliver(cell, ok)
    PROVE  GoodInv(o, d')
<1>1. PICK opt, dec : opt = o /\ dec = d
  OBVIOUS
<1>2. opt \in OptionType /\ DecoderInv(opt, dec)
  BY <1>1, CaseTypes DEF PassInv
<1>3. "EXTRA_CRC" \notin opt.quirk /\ GoodInv(opt, dec)
  BY <1>1, Zenon
<1>4. PICK new : new = d'
  OBVIOUS
<1>5. GoodInv(opt, new)
  <2>1. new = Crc!DecodeByte(opt,
                 [dec EXCEPT !.enc = IF cell.mark = "none" THEN @ ELSE Encoded(cell.mark),
                             !.splice = FALSE],
                 [v |-> cell.v, ok |-> ok, last |-> cell.last], cell.mark)
    BY <1>1, <1>4, Zenon DEF Deliver
  <2>2. QED
    BY <1>2, <1>3, <2>1, DeliverGood, Zenon
<1>6. QED
  BY <1>1, <1>4, <1>5, Zenon

\* The end of a pass.
LEMMA EndPassGood ==
    ASSUME PassInv, IdsFit, GoodInv(o, d), Reported(o, merged, stats), EndPass
    PROVE  Reported(o, merged', stats')
<1>1. PICK opt, dec, previous, pstats, working, wstats, late :
          /\ opt = o /\ dec = d /\ previous = merged /\ pstats = stats
          /\ working = Working /\ wstats = WorkingStats /\ late = Crc!LateErrors(o, d)
  OBVIOUS
<1>2. /\ opt \in OptionType
      /\ TrackInv(opt, previous) /\ pstats \in StatsType
      /\ TrackInv(opt, working) /\ wstats \in StatsType
      /\ Cardinality(Bad(working.idams)) <= wstats.errcount
      /\ DecoderInv(opt, dec)
  BY <1>1, CaseTypes, WorkingInv DEF PassInv
<1>3. dec \in DecoderType
  BY <1>2, Zenon DEF DecoderInv
<1>4. GoodInv(opt, dec) /\ Reported(opt, previous, pstats)
  BY <1>1, Zenon
<1>5. working = [idams |-> WorkingTable(dec), data |-> dec.data]
  BY <1>1, Zenon DEF Working, WorkingTable, InsideSector
<1>6. working.idams = WorkingTable(dec)
  BY <1>5
<1>7. wstats.good = dec.good /\ wstats.reused = 0 /\ dec.good \in Nat
  <2>1. wstats.good = dec.good /\ wstats.reused = 0
    BY <1>1 DEF WorkingStats
  <2>2. QED
    BY <1>3, <2>1, SectorTypes
<1>8. AllTallied(opt, working.idams, wstats.good)
  BY <1>2, <1>3, <1>4, <1>6, <1>7, WorkingTally, Zenon
<1>9. M!Sectors(working) = DOMAIN working.idams
  <2>1. \A i \in DOMAIN dec.idams : dec.idams[i].off <= TrackMax - 10
    BY <1>1, Zenon DEF IdsFit
  <2>2. QED
    BY <1>3, <1>5, <2>1, AllLookedAt, Zenon
<1>10. PICK both : both = M!Merge(previous, pstats, working, wstats)
  OBVIOUS
<1>11. Reported(opt, both.track, both.stats)
  BY <1>2, <1>4, <1>8, <1>9, <1>10, MergeTally, Zenon
<1>12. PICK best : best = IF retry > 0 /\ o.join THEN both
                          ELSE [track |-> working, stats |-> wstats]
  OBVIOUS
<1>13. /\ merged' = best.track
       /\ stats' = [best.stats EXCEPT !.errcount = @ + late]
  <2>1. \E t \in {best} : /\ merged' = t.track
                          /\ stats' = [t.stats EXCEPT !.errcount = @ + Crc!LateErrors(o, d)]
    BY <1>1, <1>10, <1>12, Zenon DEF EndPass
  <2>2. QED
    BY <1>1, <2>1, Zenon
<1>14. Reported(opt, best.track, best.stats) /\ best.stats \in StatsType
  <2>1. CASE retry > 0 /\ o.join
    <3>1. both.stats \in StatsType
      <4>1. Cardinality(Bad(previous.idams)) <= pstats.errcount
        BY <1>1 DEF PassInv
      <4>2. QED
        BY <1>2, <1>10, <4>1, MergeStep, Zenon
    <3>2. QED
      BY <1>11, <1>12, <2>1, <3>1, Zenon
  <2>2. CASE ~(retry > 0 /\ o.join)
    <3>1. best = [track |-> working, stats |-> wstats]
      BY <1>12, <2>2
    <3>2. best.track = working /\ best.stats = wstats
      BY <3>1
    <3>3. wstats.good + wstats.reused = wstats.good
      BY <1>7
    <3>4. QED
      BY <1>2, <1>8, <3>2, <3>3, Zenon DEF Reported
  <2>3. QED
    BY <2>1, <2>2
<1>15. PICK stat, new : stat = best.stats /\ new = stats'
  OBVIOUS
<1>16. new.good = stat.good /\ new.reused = stat.reused
  <2>1. stat \in StatsType /\ new = [stat EXCEPT !.errcount = @ + late]
    BY <1>13, <1>14, <1>15
  <2>2. QED
    BY <2>1 DEF StatsType
<1>17. Reported(opt, merged', new)
  BY <1>13, <1>14, <1>15, <1>16, Zenon DEF Reported
<1>18. QED
  BY <1>1, <1>15, <1>17, Zenon

\* At the start nothing is counted.
LEMMA CountInit == Init => CountInv
<1> SUFFICES ASSUME Init PROVE CountInv
  OBVIOUS
<1>1. case \in DOMAIN Cases /\ pc = "pass" /\ merged = M!NoTrack /\ stats = M!NoStats
  BY DEF Init
<1>2. PICK opt : opt = o
  OBVIOUS
<1>3. opt \in OptionType /\ opt.first_encoding \in Crc!Encodings /\ FALSE \in BOOLEAN
  BY <1>1, <1>2, CaseTypes
<1>4. GoodInv(opt, Crc!NewDecoder(opt, opt.first_encoding, FALSE))
  BY <1>3, NewDecoderGood, Zenon
<1>5. GoodInv(o, d)
  BY <1>2, <1>4, Zenon DEF Init
<1>6. merged.idams = <<>> /\ stats.good + stats.reused = 0
  BY <1>1 DEF M!NoTrack, M!NoStats
<1>7. Reported(o, merged, stats)
  BY <1>6, TallyEmpty, Zenon DEF Reported
<1>8. QED
  BY <1>1, <1>5, <1>7 DEF CountInv

\* A step keeps count, of whatever action.
LEMMA CountStep == PassInv /\ IdsFit /\ CountInv /\ [Next]_vars => CountInv'
<1> SUFFICES ASSUME PassInv, IdsFit, CountInv, [Next]_vars PROVE CountInv'
  OBVIOUS
<1>1. case \in DOMAIN Cases
  BY DEF PassInv
<1>2. /\ o \in OptionType /\ cells \in Seq(CellType) /\ N \in Nat
      /\ o.first_encoding \in Crc!Encodings /\ o.mark \in Marks
  BY <1>1, CaseTypes
<1>3. o' = o
  <2>1. case' = case
    BY DEF Next, vars, BeginPass, ReadCell, Index, NoisyCell, LostCell, EndPass, Retry, Accept
  <2>2. QED
    BY <2>1 DEF o
<1> SUFFICES ASSUME "EXTRA_CRC" \notin o.quirk
             PROVE  /\ GoodInv(o, d')
                    /\ IF pc' = "done" THEN AllTallied(o, merged'.idams, stats'.good)
                                       ELSE Reported(o, merged', stats')
  BY <1>3, Zenon DEF CountInv
<1>4. GoodInv(o, d) /\ (pc # "done" => Reported(o, merged, stats))
      /\ (pc = "done" => AllTallied(o, merged.idams, stats.good))
  BY Zenon DEF CountInv
<1>5. GoodInv(o, Crc!NewDecoder(o, o.first_encoding, FALSE))
  <2>1. PICK opt : opt = o
    OBVIOUS
  <2>2. opt \in OptionType /\ opt.first_encoding \in Crc!Encodings /\ FALSE \in BOOLEAN
    BY <1>2, <2>1
  <2>3. GoodInv(opt, Crc!NewDecoder(opt, opt.first_encoding, FALSE))
    BY <2>2, NewDecoderGood, Zenon
  <2>4. QED
    BY <2>1, <2>3, Zenon
<1>6. \A dec \in DecoderType : GoodInv(o, dec) => GoodInv(o, Crc!DecodeIndex(o, dec))
  <2>1. PICK opt : opt = o
    OBVIOUS
  <2>2. ASSUME NEW dec \in DecoderType, GoodInv(opt, dec)
        PROVE  GoodInv(opt, Crc!DecodeIndex(opt, dec))
    BY <1>2, <2>1, <2>2, DecodeIndexGood, Zenon
  <2>3. QED
    BY <2>1, <2>2, Zenon
<1>7. ~AtHole => cells[pos] \in CellType
  <2>1. PICK n, at : n = N /\ at = pos
    OBVIOUS
  <2>2. ~AtHole => at \in 1 .. n
    BY <1>2, <2>1 DEF PassInv, AtHole
  <2>3. at \in 1 .. n => cells[at] \in CellType
    BY <1>2, <2>1, ElementOfSeq DEF N
  <2>4. QED
    BY <2>1, <2>2, <2>3
<1>8. CASE BeginPass
  <2>1. PICK fresh : fresh = Crc!NewDecoder(o, o.first_encoding, FALSE)
    OBVIOUS
  <2>2. d' = Crc!DecodeIndex(o, fresh) \/ d' = fresh
    BY <1>8, <2>1, Zenon DEF BeginPass
  <2>3. fresh \in DecoderType
    <3>1. PICK opt : opt = o
      OBVIOUS
    <3>2. opt \in OptionType /\ opt.first_encoding \in Crc!Encodings /\ FALSE \in BOOLEAN
      BY <1>2, <3>1
    <3>3. DecoderInv(opt, Crc!NewDecoder(opt, opt.first_encoding, FALSE))
      BY <3>2, NewDecoderInv, Zenon
    <3>4. QED
      BY <2>1, <3>1, <3>3, Zenon DEF DecoderInv
  <2>4. GoodInv(o, fresh) /\ GoodInv(o, Crc!DecodeIndex(o, fresh))
    BY <1>5, <1>6, <2>1, <2>3, Zenon
  <2>5. GoodInv(o, d')
    BY <2>2, <2>4, Zenon
  <2>6. pc = "pass" /\ pc' = "read" /\ merged' = merged /\ stats' = stats
    BY <1>8 DEF BeginPass
  <2>7. QED
    BY <1>4, <2>5, <2>6
<1>9. CASE ReadCell
  <2>1. /\ pc = "read" /\ pc' = pc /\ merged' = merged /\ stats' = stats
        /\ ~AtHole /\ Deliver(cells[pos], ~slipped)
    BY <1>9 DEF ReadCell
  <2>2. cells[pos] \in CellType /\ (~slipped) \in BOOLEAN
    BY <1>7, <2>1
  <2>3. GoodInv(o, d')
    BY <1>4, <2>1, <2>2, DeliveredGood, Zenon
  <2>4. QED
    BY <1>4, <2>1, <2>3
<1>10. CASE Index
  <2>1. pc = "read" /\ pc' = pc /\ merged' = merged /\ stats' = stats /\ d' = Crc!DecodeIndex(o, d)
    BY <1>10 DEF Index
  <2>2. d \in DecoderType
    BY Zenon DEF PassInv, DecoderInv
  <2>3. GoodInv(o, d')
    BY <1>4, <1>6, <2>1, <2>2, Zenon
  <2>4. QED
    BY <1>4, <2>1, <2>3
<1>11. CASE NoisyCell
  <2>1. PICK cell \in Damaged(cells[pos]) : Deliver(cell, FALSE)
    BY <1>11 DEF NoisyCell
  <2>2. pc = "read" /\ pc' = pc /\ merged' = merged /\ stats' = stats /\ ~AtHole
    BY <1>11 DEF NoisyCell
  <2>3. cells[pos] \in CellType
    BY <1>7, <2>2
  <2>4. cell \in CellType /\ FALSE \in BOOLEAN
    BY <1>2, <2>1, <2>3, DamagedType, Zenon
  <2>5. GoodInv(o, d')
    BY <1>4, <2>1, <2>4, DeliveredGood, Zenon
  <2>6. QED
    BY <1>4, <2>2, <2>5
<1>12. CASE LostCell
  <2>1. pc = "read" /\ pc' = pc /\ merged' = merged /\ stats' = stats /\ d' = d
    BY <1>12 DEF LostCell
  <2>2. QED
    BY <1>4, <2>1
<1>13. CASE EndPass
  <2>1. pc = "read" /\ pc' = "judge" /\ d' = d
    BY <1>13 DEF EndPass
  <2>2. Reported(o, merged', stats')
    BY <1>4, <1>13, <2>1, EndPassGood
  <2>3. QED
    BY <1>4, <2>1, <2>2
<1>14. CASE Retry
  <2>1. /\ pc = "judge" /\ pc' = "pass" /\ merged' = merged /\ stats' = stats
        /\ d' = Crc!NewDecoder(o, o.first_encoding, FALSE)
    BY <1>14 DEF Retry
  <2>2. GoodInv(o, d')
    BY <1>5, <2>1, Zenon
  <2>3. QED
    BY <1>4, <2>1, <2>2
<1>15. CASE Accept
  <2>1. /\ pc = "judge" /\ pc' = "done" /\ d' = d /\ merged' = merged
        /\ stats' = [stats EXCEPT !.good = @ + stats.reused]
    BY <1>15 DEF Accept
  <2>2. stats'.good = stats.good + stats.reused
    BY <2>1 DEF PassInv, StatsType
  <2>3. AllTallied(o, merged'.idams, stats'.good)
    BY <1>4, <2>1, <2>2, Zenon DEF Reported
  <2>4. QED
    BY <1>4, <2>1, <2>3
<1>16. CASE UNCHANGED vars
  BY <1>4, <1>16 DEF vars
<1>17. QED
  BY <1>8, <1>9, <1>10, <1>11, <1>12, <1>13, <1>14, <1>15, <1>16, Zenon DEF Next

\* The good sectors reported of a track are sectors of its image that are not flagged,
\* and, where sectors are flagged, none is left out that is neither flagged nor cut
\* off: whatever noise makes of the passes and however they are merged, as long as no
\* ID is stored in the last ten bytes of the longest track.
THEOREM GoodReported == Spec /\ []IdsFit => []ReportedGood
<1>1. PassInv /\ CountInv => ReportedGood
  <2> SUFFICES ASSUME PassInv, CountInv, pc = "done", "EXTRA_CRC" \notin o.quirk
               PROVE  /\ stats.good <= Cardinality(Good(merged.idams))
                      /\ o.join => stats.good >= Cardinality(Whole(merged.idams))
    BY DEF ReportedGood
  <2>1. PICK idams, m : idams = merged.idams /\ m = Len(idams)
    OBVIOUS
  <2>2. idams \in Seq(EntryType) /\ stats.good \in Nat
    BY <2>1, Zenon DEF PassInv, TrackInv, TrackType, StatsType
  <2>3. DOMAIN idams = 1 .. m /\ m \in Nat
    BY <2>1, <2>2, LenProperties
  <2>4. Good(idams) = GoodTo(idams, m) /\ Whole(idams) = WholeTo(idams, m)
    BY <2>3, Zenon DEF Good, Whole, GoodTo, WholeTo
  <2>5. AllTallied(o, idams, stats.good)
    BY <2>1, Zenon DEF CountInv
  <2>6. Cardinality(WholeTo(idams, m)) \in Nat
    BY <2>3, TallyFinite
  <2>7. QED
    BY <2>1, <2>2, <2>4, <2>5, <2>6 DEF AllTallied, Tally
<1>2. QED
  BY <1>1, CountInit, CountStep, PassInvHolds, PTL DEF Spec

-----------------------------------------------------------------------------
(* Tracks that fit their buffer.                                           *)

\* The most bytes that dmk_data() stores for one.
Width(opt) == IF opt.sden THEN 1 ELSE 2

\* Where the first mark of a track may be put, and that much may be stored before.
StartBytes(opt) == IF 2 * opt.iam_pos > Gap1Plus THEN 2 * opt.iam_pos ELSE Gap1Plus

Within(dec, size, edge) == Len(dec.data) <= size /\ dec.index_edge = edge

SameBytes(dec, new) == new.data = dec.data /\ new.index_edge = dec.index_edge

LEMMA SameWithin ==
    ASSUME NEW dec, NEW new, NEW size, NEW edge, Within(dec, size, edge), SameBytes(dec, new)
    PROVE  Within(new, size, edge)
  BY DEF Within, SameBytes

LEMMA WidthType ==
    ASSUME NEW opt \in OptionType
    PROVE  Width(opt) \in {1, 2} /\ StartBytes(opt) \in Nat /\ Gap1Plus <= StartBytes(opt)
<1>1. opt.iam_pos \in Nat \cup {-1} /\ Gap1Plus \in Nat
  BY TrackPassesAssumption DEF OptionType
<1>2. QED
  BY <1>1 DEF Width, StartBytes

\* dmk_in_range() stores nothing.
LEMMA CheckedBytes ==
    ASSUME NEW opt, NEW dec \in DecoderType
    PROVE  SameBytes(dec, Crc!Checked(opt, dec))
<1>1. PICK new : new = Crc!Checked(opt, dec)
  OBVIOUS
<1>2. \/ new = dec
      \/ new = [dec EXCEPT !.ignored = dec.ignored + 1]
      \/ new = [dec EXCEPT !.full = TRUE]
  BY <1>1 DEF Crc!Checked
<1>3. SameBytes(dec, new)
  BY <1>2 DEF DecoderType, SameBytes
<1>4. QED
  BY <1>1, <1>3, Zenon

\* dmk_data() stores a byte once or, in FM, twice.
LEMMA DataBytes ==
    ASSUME NEW opt \in OptionType, NEW dec \in DecoderType, NEW v \in 0 .. 255,
           NEW size \in Nat, NEW edge, Within(dec, size, edge)
    PROVE  Within(Crc!Data(opt, dec, v), size + Width(opt), edge)
<1> DEFINE w    == IF dec.awaiting_dam /\ v \in Crc!DamLike THEN Crc!NotADam ELSE v
           put  == IF Crc!DoubledFM(opt, dec.enc) THEN <<w, w>> ELSE <<w>>
<1>1. dec.data \in Seq(Nat) /\ Len(dec.data) \in Nat
  BY CountersType, LenProperties
<1>2. PICK new : new = Crc!Data(opt, dec, v)
  OBVIOUS
<1>3. CASE ~Crc!InRange(opt, dec)
  <2>1. SameBytes(dec, new)
    BY <1>2, <1>3, CheckedBytes, Zenon DEF Crc!Data
  <2>2. Within(new, size, edge)
    BY <2>1, SameWithin, Zenon
  <2>3. QED
    BY <1>1, <1>2, <2>1, <2>2, WidthType DEF Within, SameBytes
<1>4. CASE Crc!InRange(opt, dec)
  <2>1. PICK data : data = IF Hdr + Len(dec.data) > opt.tracklen - 2 THEN dec.data
                           ELSE dec.data \o put
    OBVIOUS
  <2>2. new = [dec EXCEPT !.data = data]
    BY <1>2, <1>4, <2>1 DEF Crc!Data
  <2>3. new.data = data /\ new.index_edge = dec.index_edge
    BY <2>2 DEF DecoderType
  <2>4. put \in Seq(Nat)
    BY DEF Crc!NotADam
  <2>5. Len(put) \in Nat /\ Len(put) <= Width(opt)
    BY DEF Width, Crc!DoubledFM
  <2>6. Len(data) \in Nat /\ Len(data) <= Len(dec.data) + Width(opt)
    <3> HIDE DEF put
    <3>1. Len(dec.data \o put) = Len(dec.data) + Len(put)
      BY <1>1, <2>4, ConcatProperties
    <3>2. QED
      BY <1>1, <2>1, <2>5, <3>1, WidthType
  <2>7. QED
    BY <1>1, <1>2, <2>3, <2>6, WidthType DEF Within
<1>5. QED
  BY <1>3, <1>4, Zenon

\* Flagging a sector stores nothing.
LEMMA FlagBytes ==
    ASSUME NEW opt \in OptionType, NEW dec \in DecoderType
    PROVE  SameBytes(dec, Crc!Flag(opt, dec))
<1>1. PICK t : t = FlaggedTable(opt, dec.idams)
  OBVIOUS
<1>2. Crc!Flag(opt, dec) = [dec EXCEPT !.idams = t]
  BY <1>1, FlagShape, Zenon
<1>3. QED
  BY <1>2 DEF DecoderType, SameBytes

LEMMA CountedOnceBytes ==
    ASSUME NEW opt \in OptionType, NEW dec \in DecoderType
    PROVE  SameBytes(dec, Crc!CountedOnce(opt, dec))
<1>1. PICK n : n = IF opt.join /\ Crc!Flagged(dec) THEN dec.errcount ELSE dec.errcount + 1
  OBVIOUS
<1>2. PICK at : at = [dec EXCEPT !.errcount = n]
  OBVIOUS
<1>3. at \in DecoderType
  <2>1. n \in Nat
    BY <1>1, CountersType
  <2>2. QED
    BY <1>2, <2>1, ZenonT(60) DEF DecoderType
<1>4. Crc!CountedOnce(opt, dec) = Crc!Flag(opt, at)
  BY <1>1, <1>2, Zenon DEF Crc!CountedOnce
<1>5. SameBytes(dec, at)
  BY <1>2 DEF DecoderType, SameBytes
<1>6. SameBytes(at, Crc!Flag(opt, at))
  BY <1>3, FlagBytes
<1>7. QED
  BY <1>4, <1>5, <1>6, Zenon DEF SameBytes

LEMMA CheckMissingDamBytes ==
    ASSUME NEW opt \in OptionType, NEW dec \in DecoderType
    PROVE  SameBytes(dec, Crc!CheckMissingDam(opt, dec))
<1>1. PICK new : new = Crc!CheckMissingDam(opt, dec)
  OBVIOUS
<1>2. CASE new = dec
  BY <1>1, <1>2 DEF SameBytes
<1>3. CASE new # dec
  <2>1. PICK at : at = [dec EXCEPT !.awaiting_dam = FALSE, !.valid_id = FALSE, !.ibyte = -1,
                                   !.dbyte = -1, !.ebyte = -1, !.errcount = dec.errcount + 1]
    OBVIOUS
  <2>2. new = Crc!Flag(opt, at)
    BY <1>1, <1>3, <2>1, Zenon DEF Crc!CheckMissingDam, Crc!NoCount
  <2>3. at \in DecoderType
    <3>1. dec.errcount + 1 \in Nat /\ FALSE \in BOOLEAN
      BY CountersType
    <3>2. QED
      BY <2>1, <3>1, NoCountType, ZenonT(60) DEF DecoderType
  <2>4. SameBytes(dec, at)
    BY <2>1 DEF DecoderType, SameBytes
  <2>5. SameBytes(at, new)
    BY <2>2, <2>3, FlagBytes
  <2>6. QED
    BY <1>1, <2>4, <2>5, Zenon DEF SameBytes
<1>4. QED
  BY <1>2, <1>3, Zenon

LEMMA CutIdBytes ==
    ASSUME NEW dec \in DecoderType
    PROVE  SameBytes(dec, Crc!CutId(dec))
<1>1. PICK t : t = IF dec.idams = <<>> THEN dec.idams
                   ELSE ReplaceAt(dec.idams, Len(dec.idams), [Last(dec.idams) EXCEPT !.cut = TRUE])
  OBVIOUS
<1>2. \/ Crc!CutId(dec) = dec
      \/ Crc!CutId(dec) = [dec EXCEPT !.idams = t]
  BY <1>1, Zenon DEF Crc!CutId, Crc!CutOff, ReplaceAt, Last, Crc!ReplaceAt, Crc!Last
<1>3. QED
  BY <1>2 DEF DecoderType, SameBytes

LEMMA CheckWraparoundBytes ==
    ASSUME NEW opt, NEW dec \in DecoderType
    PROVE  SameBytes(dec, Crc!CheckWraparound(opt, dec))
<1>1. PICK t : t = Crc!Front(dec.idams)
  OBVIOUS
<1>2. \/ Crc!CheckWraparound(opt, dec) = dec
      \/ Crc!CheckWraparound(opt, dec) =
            [dec EXCEPT !.idams = t, !.awaiting_dam = FALSE, !.ibyte = -1, !.full = TRUE]
  BY <1>1, Zenon DEF Crc!CheckWraparound, Crc!NoCount
<1>3. QED
  BY <1>2 DEF DecoderType, SameBytes

\* The bytes moved or cut are as many as they are to be.
LEMMA PlacedLen ==
    ASSUME NEW data \in Seq(Nat), NEW place \in Nat, NEW encoding
    PROVE  Len(Crc!Placed(data, place, encoding)) = place
<1>1. Len(data) \in Nat
  BY LenProperties
<1>2. CASE Len(data) < place
  <2>1. PICK n \in Nat : n = place - Len(data)
    BY <1>1, <1>2
  <2>2. PICK gap : gap = [i \in 1 .. n |-> IF encoding = "MFM" THEN 78 ELSE 255]
    OBVIOUS
  <2>3. gap \in [1 .. n -> Nat]
    BY <2>2
  <2>4. gap \in Seq(Nat)
    BY <2>3, SeqDef
  <2>5. Len(gap) = n
    BY <2>1, <2>2, <2>4, LenProperties
  <2>6. Crc!Placed(data, place, encoding) = gap \o data
    BY <1>2, <2>1, <2>2 DEF Crc!Placed
  <2>7. Len(gap \o data) = n + Len(data)
    BY <2>4, <2>5, ConcatProperties
  <2>8. QED
    BY <1>1, <2>1, <2>6, <2>7
<1>3. CASE ~(Len(data) < place)
  <2>1. PICK m \in Int, n \in Int : m = Len(data) - place + 1 /\ n = Len(data)
    BY <1>1, SMTT(60)
  <2>2. \A i \in m .. n : data[i] \in Nat
    BY <1>1, <1>3, <2>1, ElementOfSeq
  <2>3. Len(SubSeq(data, m, n)) = IF m <= n THEN n - m + 1 ELSE 0
    BY <2>2, SubSeqProperties
  <2>4. Crc!Placed(data, place, encoding) = SubSeq(data, m, n)
    BY <1>3, <2>1 DEF Crc!Placed
  <2>5. QED
    BY <1>1, <2>1, <2>3, <2>4
<1>4. QED
  BY <1>2, <1>3

\* dmk_idam(): what is before the first mark may be cut or filled up.
LEMMA IdamBytes ==
    ASSUME NEW opt \in OptionType, NEW dec \in DecoderType, NEW b \in ByteType,
           NEW size \in Nat, NEW edge, Within(dec, size, edge), StartBytes(opt) <= size
    PROVE  Within(Crc!Idam(opt, dec, b), size + Width(opt), edge)
<1>1. dec.data \in Seq(Nat) /\ Len(dec.data) \in Nat /\ dec.idams \in Seq(EntryType)
  BY CountersType, LenProperties
<1>2. PICK new : new = Crc!Idam(opt, dec, b)
  OBVIOUS
<1>3. PICK data : data = IF ~dec.awaiting_iam /\ Crc!AwaitingTrackStart(opt, dec)
                         THEN Crc!Placed(dec.data, Gap1Plus, dec.enc) ELSE dec.data
  OBVIOUS
<1>4. data \in Seq(Nat) /\ Len(data) \in Nat /\ Len(data) <= size
  <2>1. Gap1Plus \in Nat
    BY TrackPassesAssumption
  <2>2. PICK moved : moved = Crc!Placed(dec.data, Gap1Plus, dec.enc)
    OBVIOUS
  <2>3. moved \in Seq(Nat) /\ Len(moved) = Gap1Plus
    BY <1>1, <2>1, <2>2, PlacedType, PlacedLen, Zenon
  <2>4. Gap1Plus <= size
    BY <2>1, WidthType
  <2>5. data = moved \/ data = dec.data
    BY <1>3, <2>2, Zenon
  <2>6. Len(dec.data) <= size
    BY DEF Within
  <2>7. QED
    BY <1>1, <2>1, <2>3, <2>4, <2>5, <2>6
<1>5. PICK d1 : d1 = [dec EXCEPT !.data = data, !.awaiting_dam = FALSE, !.valid_id = FALSE]
  OBVIOUS
<1>6. d1 \in DecoderType
  BY <1>4, <1>5, ZenonT(60) DEF DecoderType
<1>7. d1.data = data /\ d1.index_edge = dec.index_edge
  BY <1>5 DEF DecoderType
<1>8. Within(d1, size, edge)
  BY <1>4, <1>7 DEF Within
<1>9. Width(opt) \in {1, 2}
  BY WidthType
<1>10. PICK t : t = Append(d1.idams, Crc!Entry(Hdr + Len(d1.data), dec.enc))
  OBVIOUS
<1>11. \/ new = Crc!Checked(opt, dec)
       \/ new = d1
       \/ new = [d1 EXCEPT !.errcount = @ + 1]
       \/ new = Crc!Data(opt, [d1 EXCEPT !.idams = t, !.ibyte = 0], b.v)
  BY <1>2, <1>3, <1>5, <1>10, Zenon DEF Crc!Idam
<1>12. CASE new = Crc!Checked(opt, dec)
  <2>1. Within(new, size, edge)
    BY <1>12, CheckedBytes, SameWithin, Zenon
  <2>2. new.data = dec.data
    BY <1>12, CheckedBytes, Zenon DEF SameBytes
  <2>3. QED
    BY <1>1, <1>2, <1>9, <2>1, <2>2 DEF Within
<1>13. CASE new = d1 \/ new = [d1 EXCEPT !.errcount = @ + 1]
  <2>1. new.data = data /\ new.index_edge = d1.index_edge
    BY <1>6, <1>7, <1>13 DEF DecoderType
  <2>2. QED
    BY <1>2, <1>4, <1>8, <1>9, <2>1 DEF Within
<1>14. CASE new = Crc!Data(opt, [d1 EXCEPT !.idams = t, !.ibyte = 0], b.v)
  <2>1. PICK at : at = [d1 EXCEPT !.idams = t, !.ibyte = 0]
    OBVIOUS
  <2>2. at \in DecoderType
    <3>1. Crc!Entry(Hdr + Len(d1.data), dec.enc) \in EntryType
      <4>1. Hdr + Len(d1.data) \in Nat /\ dec.enc \in Crc!Encodings
        BY <1>4, <1>7, CountersType, TrackPassesAssumption
      <4>2. QED
        BY <4>1 DEF Crc!Entry, EntryType
    <3>2. d1.idams \in Seq(EntryType) /\ 0 \in -1 .. 18
      BY <1>6, CountersType
    <3>3. t \in Seq(EntryType)
      BY <1>10, <3>1, <3>2, AppendProperties
    <3>4. QED
      BY <1>6, <2>1, <3>2, <3>3, ZenonT(60) DEF DecoderType
  <2>3. SameBytes(d1, at)
    BY <1>6, <2>1 DEF DecoderType, SameBytes
  <2>4. Within(at, size, edge)
    BY <1>8, <2>3, SameWithin, Zenon
  <2>5. b.v \in 0 .. 255
    BY DEF ByteType
  <2>6. QED
    BY <1>2, <1>14, <2>1, <2>2, <2>4, <2>5, DataBytes, Zenon
<1>15. QED
  BY <1>11, <1>12, <1>13, <1>14, Zenon

\* dmk_iam(), the same with the place of an index mark.
LEMMA IamBytes ==
    ASSUME NEW opt \in OptionType, NEW dec \in DecoderType, NEW b \in ByteType,
           NEW size \in Nat, NEW edge, Within(dec, size, edge), StartBytes(opt) <= size
    PROVE  Within(Crc!Iam(opt, dec, b), size + Width(opt), edge)
<1>1. dec.data \in Seq(Nat) /\ Len(dec.data) \in Nat
  BY CountersType, LenProperties
<1>2. PICK new : new = Crc!Iam(opt, dec, b)
  OBVIOUS
<1>3. PICK place : place = IF Crc!DoubledFM(opt, dec.enc) THEN 2 * opt.iam_pos ELSE opt.iam_pos
  OBVIOUS
<1>4. PICK first : first = (dec.awaiting_iam \/ dec.idams = <<>>)
  OBVIOUS
<1>5. PICK d1 : d1 = IF opt.iam_pos >= 0 /\ first
                     THEN [dec EXCEPT !.data = Crc!Placed(dec.data, place, dec.enc),
                                      !.awaiting_iam = FALSE]
                     ELSE dec
  OBVIOUS
<1>6. d1 \in DecoderType /\ Within(d1, size, edge)
  <2>1. CASE opt.iam_pos >= 0 /\ first
    <3>1. place \in Nat /\ place <= StartBytes(opt)
      <4>1. opt.iam_pos \in Nat /\ Gap1Plus \in Nat
        BY <2>1, TrackPassesAssumption DEF OptionType
      <4>2. QED
        BY <1>3, <4>1 DEF StartBytes
    <3>2. PICK data : data = Crc!Placed(dec.data, place, dec.enc)
      OBVIOUS
    <3>3. data \in Seq(Nat) /\ Len(data) = place
      BY <1>1, <3>1, <3>2, PlacedType, PlacedLen, Zenon
    <3>4. d1 = [dec EXCEPT !.data = data, !.awaiting_iam = FALSE]
      BY <1>5, <2>1, <3>2
    <3>5. d1 \in DecoderType
      BY <3>3, <3>4, ZenonT(60) DEF DecoderType
    <3>6. d1.data = data /\ d1.index_edge = dec.index_edge
      BY <3>4 DEF DecoderType
    <3>7. Len(data) <= size
      BY <3>1, <3>3, WidthType
    <3>8. QED
      BY <3>5, <3>6, <3>7 DEF Within
  <2>2. CASE ~(opt.iam_pos >= 0 /\ first)
    BY <1>5, <2>2
  <2>3. QED
    BY <2>1, <2>2, Zenon
<1>7. PICK at : at = [d1 EXCEPT !.awaiting_dam = FALSE, !.valid_id = FALSE]
  OBVIOUS
<1>8. \/ new = Crc!Checked(opt, dec)
      \/ new = [dec EXCEPT !.full = TRUE]
      \/ new = Crc!Data(opt, at, b.v)
  BY <1>2, <1>3, <1>4, <1>5, <1>7 DEF Crc!Iam
<1>9. CASE new = Crc!Checked(opt, dec) \/ new = [dec EXCEPT !.full = TRUE]
  <2>1. SameBytes(dec, [dec EXCEPT !.full = TRUE])
    BY DEF DecoderType, SameBytes
  <2>2. SameBytes(dec, new)
    BY <1>9, <2>1, CheckedBytes, Zenon
  <2>3. Width(opt) \in {1, 2}
    BY WidthType
  <2>4. QED
    BY <1>1, <1>2, <2>2, <2>3 DEF Within, SameBytes
<1>10. CASE new = Crc!Data(opt, at, b.v)
  <2>1. at \in DecoderType
    BY <1>6, <1>7, ZenonT(60) DEF DecoderType
  <2>2. SameBytes(d1, at)
    BY <1>6, <1>7 DEF DecoderType, SameBytes
  <2>3. Within(at, size, edge)
    BY <1>6, <2>2, SameWithin, Zenon
  <2>4. b.v \in 0 .. 255
    BY DEF ByteType
  <2>5. QED
    BY <1>2, <1>10, <2>1, <2>3, <2>4, DataBytes, Zenon
<1>11. QED
  BY <1>8, <1>9, <1>10, Zenon

LEMMA IndexMarkBytes ==
    ASSUME NEW opt \in OptionType, NEW dec, DecoderInv(opt, dec), NEW b \in ByteType,
           NEW size \in Nat, NEW edge, Within(dec, size, edge), StartBytes(opt) <= size
    PROVE  Within(Crc!IndexMark(opt, dec, b), size + Width(opt), edge)
<1>1. PICK cut, ended, at : /\ cut = Crc!CutId(dec) /\ ended = Crc!CheckMissingDam(opt, cut)
                            /\ at = Crc!Iam(opt, ended, b)
  OBVIOUS
<1>2. DecoderInv(opt, cut)
  BY <1>1, CutIdStep, Zenon
<1>3. DecoderInv(opt, ended)
  BY <1>1, <1>2, CheckMissingDamStep, Zenon
<1>4. DecoderInv(opt, at)
  BY <1>1, <1>3, IamStep, Zenon
<1>5. {dec, cut, ended, at} \subseteq DecoderType
  BY <1>2, <1>3, <1>4 DEF DecoderInv
<1>6. Within(ended, size, edge)
  BY <1>1, <1>5, CutIdBytes, CheckMissingDamBytes, SameWithin, Zenon
<1>7. Within(at, size + Width(opt), edge)
  BY <1>1, <1>5, <1>6, IamBytes, Zenon
<1>8. SameBytes(at, [at EXCEPT !.ibyte = -1, !.dbyte = -1, !.ebyte = -1])
  BY <1>5 DEF DecoderType, SameBytes
<1>9. Crc!IndexMark(opt, dec, b) = [at EXCEPT !.ibyte = -1, !.dbyte = -1, !.ebyte = -1]
  BY <1>1, Zenon DEF Crc!IndexMark, Crc!NoCount
<1>10. QED
  BY <1>7, <1>8, <1>9, SameWithin, Zenon

LEMMA IdMarkBytes ==
    ASSUME NEW opt \in OptionType, NEW dec, DecoderInv(opt, dec), ~dec.awaiting_iam,
           NEW b \in ByteType,
           NEW size \in Nat, NEW edge, Within(dec, size, edge), StartBytes(opt) <= size
    PROVE  Within(Crc!IdMark(opt, dec, b), size + Width(opt), edge)
<1>1. PICK cut, ended, at : /\ cut = Crc!CutId(dec) /\ ended = Crc!CheckMissingDam(opt, cut)
                            /\ at = Crc!Idam(opt, ended, b)
  OBVIOUS
<1>2. DecoderInv(opt, cut) /\ cut.awaiting_iam = dec.awaiting_iam
  BY <1>1, CutIdStep, Zenon
<1>3. DecoderInv(opt, ended) /\ ended.awaiting_iam = cut.awaiting_iam
  BY <1>1, <1>2, CheckMissingDamStep, Zenon
<1>4. DecoderInv(opt, at)
  BY <1>1, <1>2, <1>3, IdamStep, Zenon
<1>5. {dec, cut, ended, at} \subseteq DecoderType
  BY <1>2, <1>3, <1>4 DEF DecoderInv
<1>6. Within(ended, size, edge)
  BY <1>1, <1>5, CutIdBytes, CheckMissingDamBytes, SameWithin, Zenon
<1>7. Within(at, size + Width(opt), edge)
  BY <1>1, <1>5, <1>6, IdamBytes, Zenon
<1>8. PICK crc : crc = CrcStep(Crc!A1Crc(opt, dec, "ID_CRC"), b)
  OBVIOUS
<1>9. SameBytes(at, [at EXCEPT !.crc = crc, !.dbyte = -1, !.ebyte = -1])
  BY <1>5 DEF DecoderType, SameBytes
<1>10. Crc!IdMark(opt, dec, b) = [at EXCEPT !.crc = crc, !.dbyte = -1, !.ebyte = -1]
  BY <1>1, <1>8, Zenon DEF Crc!IdMark, Crc!NoCount
<1>11. QED
  BY <1>7, <1>9, <1>10, SameWithin, Zenon

LEMMA DataMarkBytes ==
    ASSUME NEW opt \in OptionType, NEW dec, DecoderInv(opt, dec), NEW b \in ByteType,
           NEW size \in Nat, NEW edge, Within(dec, size, edge)
    PROVE  Within(Crc!DataMark(opt, dec, b), size + Width(opt), edge)
<1>1. PICK at : at = [dec EXCEPT !.awaiting_dam = FALSE]
  OBVIOUS
<1>2. dec \in DecoderType
  BY DEF DecoderInv
<1>3. at \in DecoderType
  BY <1>1, <1>2, ZenonT(60) DEF DecoderType
<1>4. SameBytes(dec, at)
  BY <1>1, <1>2 DEF DecoderType, SameBytes
<1>5. PICK d1 : d1 = Crc!Data(opt, at, b.v)
  OBVIOUS
<1>6. Within(d1, size + Width(opt), edge)
  <2>1. Within(at, size, edge)
    BY <1>4, SameWithin, Zenon
  <2>2. b.v \in 0 .. 255
    BY DEF ByteType
  <2>3. QED
    BY <1>3, <1>5, <2>1, <2>2, DataBytes, Zenon
<1>7. d1 \in DecoderType
  <2>1. DecoderInv(opt, at)
    <3>1. /\ at.idams = dec.idams /\ at.errcount = dec.errcount /\ at.data = dec.data
          /\ at.ibyte = dec.ibyte /\ at.awaiting_iam = dec.awaiting_iam
      BY <1>1, <1>2 DEF DecoderType
    <3>2. QED
      BY <1>2, <1>3, <3>1, TableUntouched, LenProperties, CountersType, SMTT(60)
  <2>2. b.v \in 0 .. 255
    BY DEF ByteType
  <2>3. QED
    BY <1>5, <2>1, <2>2, DataStep, Zenon DEF DecoderInv
<1>8. PICK enc : enc = IF Crc!SwitchesToRX02(opt, dec, b.v) THEN "RX02" ELSE d1.enc
  OBVIOUS
<1>9. PICK d2 : d2 = [d1 EXCEPT !.enc = enc]
  OBVIOUS
<1>10. PICK crc : crc = CrcStep(Crc!A1Crc(opt, d2, "DATA_CRC"), b)
  OBVIOUS
<1>11. PICK dbyte : dbyte = Crc!SecSizeOf(d2.sizecode, d2.enc, opt.maxsecsize, opt.quirk) + 2
  OBVIOUS
<1>12. PICK new : new = [d2 EXCEPT !.crc = crc, !.ibyte = -1, !.dbyte = dbyte, !.ebyte = -1]
  OBVIOUS
<1>13. Crc!DataMark(opt, dec, b) = new
  BY <1>1, <1>5, <1>8, <1>9, <1>10, <1>11, <1>12, Zenon DEF Crc!DataMark, Crc!NoCount
<1>14. SameBytes(d1, new)
  BY <1>7, <1>9, <1>12 DEF DecoderType, SameBytes
<1>15. QED
  BY <1>6, <1>13, <1>14, SameWithin, Zenon

\* A byte that is no mark is stored once, or twice if there was a premark.
LEMMA NoMarkBytes ==
    ASSUME NEW opt \in OptionType, NEW dec \in DecoderType, NEW b \in ByteType, NEW mark,
           NEW size \in Nat, NEW edge, Within(dec, size, edge)
    PROVE  Within(Crc!NoMark(opt, dec, b, mark),
                  IF mark = "none" THEN size ELSE size + Width(opt), edge)
<1>1. PICK new : new = Crc!NoMark(opt, dec, b, mark)
  OBVIOUS
<1>2. \/ new = dec
      \/ new = [dec EXCEPT !.errcount = dec.errcount + 1]
      \/ new = Crc!Checked(opt, dec)
      \/ new = [dec EXCEPT !.backward = dec.backward + 1]
      \/ mark # "none" /\ new = Crc!Data(opt, dec, b.v)
  BY <1>1 DEF Crc!NoMark
<1>3. Len(dec.data) \in Nat /\ Width(opt) \in {1, 2}
  BY CountersType, LenProperties, WidthType
<1>4. CASE mark # "none" /\ new = Crc!Data(opt, dec, b.v)
  <2>1. b.v \in 0 .. 255
    BY DEF ByteType
  <2>2. QED
    BY <1>1, <1>4, <2>1, DataBytes, Zenon
<1>5. CASE ~(mark # "none" /\ new = Crc!Data(opt, dec, b.v))
  <2>1. /\ SameBytes(dec, [dec EXCEPT !.errcount = dec.errcount + 1])
        /\ SameBytes(dec, [dec EXCEPT !.backward = dec.backward + 1])
        /\ SameBytes(dec, dec)
    BY DEF DecoderType, SameBytes
  <2>2. SameBytes(dec, new)
    BY <1>2, <1>5, <2>1, CheckedBytes, Zenon
  <2>3. QED
    BY <1>1, <1>3, <2>2 DEF Within, SameBytes
<1>6. QED
  BY <1>4, <1>5

LEMMA IdByteBytes ==
    ASSUME NEW opt \in OptionType, NEW dec \in DecoderType, NEW b \in ByteType
    PROVE  SameBytes(dec, Crc!IdByte(opt, dec, b))
<1>1. PICK new : new = Crc!IdByte(opt, dec, b)
  OBVIOUS
<1>2. CASE dec.ibyte = 6
  <2>1. PICK judged : judged = IF IsZero(dec.crc) THEN [dec EXCEPT !.valid_id = TRUE]
             ELSE [Crc!Flag(opt, dec) EXCEPT !.errcount = @ + 1, !.ibyte = -1]
    OBVIOUS
  <2>2. PICK flagged : flagged = Crc!Flag(opt, dec)
    OBVIOUS
  <2>3. flagged \in DecoderType /\ SameBytes(dec, flagged)
    <3>1. PICK t \in Seq(EntryType) : t = FlaggedTable(opt, dec.idams)
      BY FlagShape
    <3>2. flagged = [dec EXCEPT !.idams = t]
      BY <2>2, <3>1, FlagShape, Zenon
    <3>3. flagged \in DecoderType
      BY <3>2, Zenon DEF DecoderType
    <3>4. QED
      BY <2>2, <3>3, FlagBytes, Zenon
  <2>4. judged \in DecoderType /\ SameBytes(dec, judged)
    <3>1. CASE IsZero(dec.crc)
      <4>1. judged = [dec EXCEPT !.valid_id = TRUE]
        BY <2>1, <3>1
      <4>2. judged \in DecoderType
        BY <4>1, ZenonT(60) DEF DecoderType
      <4>3. QED
        BY <4>1, <4>2 DEF DecoderType, SameBytes
    <3>2. CASE ~IsZero(dec.crc)
      <4>1. judged = [flagged EXCEPT !.errcount = flagged.errcount + 1, !.ibyte = -1]
        BY <2>1, <2>2, <3>2
      <4>2. flagged.errcount + 1 \in Nat
        BY <2>3, CountersType
      <4>3. judged \in DecoderType
        BY <2>3, <4>1, <4>2, NoCountType, ZenonT(60) DEF DecoderType
      <4>4. SameBytes(flagged, judged)
        BY <2>3, <4>1 DEF DecoderType, SameBytes
      <4>5. QED
        BY <2>3, <4>3, <4>4 DEF SameBytes
    <3>3. QED
      BY <3>1, <3>2, Zenon
  <2>5. PICK at : at = [judged EXCEPT !.awaiting_dam = TRUE]
    OBVIOUS
  <2>6. at \in DecoderType
    BY <2>4, <2>5, ZenonT(60) DEF DecoderType
  <2>7. SameBytes(judged, at)
    BY <2>4, <2>5 DEF DecoderType, SameBytes
  <2>8. new = Crc!CheckWraparound(opt, at)
    BY <1>1, <1>2, <2>1, <2>5 DEF Crc!IdByte, Crc!NoCount
  <2>9. SameBytes(at, new)
    BY <2>6, <2>8, CheckWraparoundBytes, Zenon
  <2>10. QED
    BY <1>1, <2>4, <2>7, <2>9, Zenon DEF SameBytes
<1>3. CASE dec.ibyte # 6
  <2>1. \/ new = dec
        \/ new = [dec EXCEPT !.curcyl = b.v]
        \/ new = [dec EXCEPT !.sizecode = b.v]
        \/ new = [dec EXCEPT !.ibyte = -1]
    BY <1>1, <1>3 DEF Crc!IdByte, Crc!NoCount
  <2>2. QED
    BY <1>1, <2>1 DEF DecoderType, SameBytes
<1>4. QED
  BY <1>2, <1>3

LEMMA DataEndBytes ==
    ASSUME NEW opt \in OptionType, NEW dec, DecoderInv(opt, dec)
    PROVE  SameBytes(dec, Crc!DataEnd(opt, dec))
<1>1. PICK judged : judged = IF IsZero(dec.crc) THEN Crc!GoodSector(dec)
                             ELSE Crc!CountedOnce(opt, dec)
  OBVIOUS
<1>2. DecoderInv(opt, judged)
  BY <1>1, GoodSectorStep, CountedOnceStep, Zenon
<1>3. dec \in DecoderType /\ judged \in DecoderType
  BY <1>2 DEF DecoderInv
<1>4. SameBytes(dec, judged)
  <2>1. PICK first, seen : /\ first = IF dec.good = 0 THEN dec.enc ELSE dec.first_encoding
                           /\ seen = (dec.rx02_seen \/ dec.enc = "RX02")
    OBVIOUS
  <2>2. \/ Crc!GoodSector(dec) = dec
        \/ Crc!GoodSector(dec) = [dec EXCEPT !.first_encoding = first, !.good = dec.good + 1,
                                             !.rx02_seen = seen, !.cyl_seen = dec.curcyl]
    BY <2>1, Zenon DEF Crc!GoodSector
  <2>3. SameBytes(dec, Crc!GoodSector(dec))
    BY <1>3, <2>2 DEF DecoderType, SameBytes
  <2>4. QED
    BY <1>1, <1>3, <2>3, CountedOnceBytes, Zenon
<1>5. PICK enc, ebyte, crc :
           /\ enc = IF judged.enc = "RX02" THEN "FM" ELSE judged.enc
           /\ ebyte = IF "EXTRA_CRC" \in opt.quirk THEN 6 ELSE judged.ebyte
           /\ crc = IF "EXTRA_CRC" \in opt.quirk THEN "open" ELSE judged.crc
  OBVIOUS
<1>6. PICK new : new = [judged EXCEPT !.dbyte = -1, !.valid_id = FALSE, !.splice = TRUE,
                                      !.enc = enc, !.ebyte = ebyte, !.crc = crc]
  OBVIOUS
<1>7. SameBytes(judged, new)
  BY <1>3, <1>6 DEF DecoderType, SameBytes
<1>8. Crc!DataEnd(opt, dec) = dec \/ Crc!DataEnd(opt, dec) = new
  BY <1>1, <1>5, <1>6, Zenon DEF Crc!DataEnd, Crc!NoCount
<1>9. QED
  BY <1>4, <1>7, <1>8, Zenon DEF SameBytes

LEMMA ExtraEndBytes ==
    ASSUME NEW opt \in OptionType, NEW dec, DecoderInv(opt, dec)
    PROVE  SameBytes(dec, Crc!ExtraEnd(opt, dec))
<1>1. PICK judged : judged = IF IsZero(dec.crc) THEN dec ELSE Crc!CountedOnce(opt, dec)
  OBVIOUS
<1>2. DecoderInv(opt, judged)
  BY <1>1, CountedOnceStep, Zenon
<1>3. dec \in DecoderType /\ judged \in DecoderType
  BY <1>2 DEF DecoderInv
<1>4. SameBytes(dec, judged)
  BY <1>1, <1>3, CountedOnceBytes, Zenon DEF SameBytes
<1>5. PICK new : new = [judged EXCEPT !.ebyte = -1, !.splice = TRUE]
  OBVIOUS
<1>6. SameBytes(judged, new)
  BY <1>3, <1>5 DEF DecoderType, SameBytes
<1>7. Crc!ExtraEnd(opt, dec) = dec \/ Crc!ExtraEnd(opt, dec) = new
  BY <1>1, <1>5, Zenon DEF Crc!ExtraEnd, Crc!NoCount
<1>8. QED
  BY <1>4, <1>6, <1>7, Zenon DEF SameBytes

LEMMA CountedBytes ==
    ASSUME NEW opt \in OptionType, NEW dec, DecoderInv(opt, dec), NEW b \in ByteType,
           NEW size \in Nat, NEW edge, Within(dec, size, edge)
    PROVE  Within(Crc!Counted(opt, dec, b), size + Width(opt), edge)
<1>1. PICK at : at = Crc!Data(opt, dec, b.v)
  OBVIOUS
<1>2. b.v \in 0 .. 255
  BY DEF ByteType
<1>3. dec \in DecoderType /\ at \in DecoderType
  BY <1>1, <1>2, DataStep, Zenon DEF DecoderInv
<1>4. Within(at, size + Width(opt), edge)
  BY <1>1, <1>2, <1>3, DataBytes, Zenon
<1>5. PICK ibyte, dbyte, ebyte, crc :
           /\ ibyte = IF at.ibyte >= 0 THEN at.ibyte + 1 ELSE at.ibyte
           /\ dbyte = IF at.dbyte > 0 THEN at.dbyte - 1 ELSE at.dbyte
           /\ ebyte = IF at.ebyte > 0 THEN at.ebyte - 1 ELSE at.ebyte
           /\ crc = CrcStep(at.crc, b)
  OBVIOUS
<1>6. PICK new : new = [at EXCEPT !.ibyte = ibyte, !.dbyte = dbyte, !.ebyte = ebyte,
                                  !.crc = crc]
  OBVIOUS
<1>7. Crc!Counted(opt, dec, b) = new
  BY <1>1, <1>5, <1>6, Zenon DEF Crc!Counted
<1>8. SameBytes(at, new)
  BY <1>3, <1>6 DEF DecoderType, SameBytes
<1>9. QED
  BY <1>4, <1>7, <1>8, SameWithin, Zenon

LEMMA PlainByteBytes ==
    ASSUME NEW opt \in OptionType, NEW dec, DecoderInv(opt, dec), NEW b \in ByteType,
           NEW mark, NEW size \in Nat, NEW edge, Within(dec, size, edge)
    PROVE  Within(Crc!PlainByte(opt, dec, b, mark),
                  (IF mark = "none" THEN size ELSE size + Width(opt)) + Width(opt), edge)
<1>1. PICK more \in Nat : more = IF mark = "none" THEN size ELSE size + Width(opt)
  BY WidthType
<1>2. PICK unmarked : unmarked = Crc!NoMark(opt, dec, b, mark)
  OBVIOUS
<1>3. PICK at : at = Crc!IdByte(opt, unmarked, b)
  OBVIOUS
<1>4. PICK counted : counted = Crc!Counted(opt, at, b)
  OBVIOUS
<1>5. PICK ended : ended = Crc!DataEnd(opt, counted)
  OBVIOUS
<1>6. PICK new : new = Crc!ExtraEnd(opt, ended)
  OBVIOUS
<1>7. DecoderInv(opt, unmarked)
  BY <1>2, NoMarkStep, Zenon
<1>8. DecoderInv(opt, at) /\ at.ibyte # 18
  BY <1>3, <1>7, IdByteStep, Zenon
<1>9. DecoderInv(opt, counted)
  BY <1>4, <1>8, CountedStep, Zenon
<1>10. DecoderInv(opt, ended)
  BY <1>5, <1>9, DataEndStep, Zenon
<1>11. dec \in DecoderType /\ unmarked \in DecoderType
  BY <1>7 DEF DecoderInv
<1>12. Within(unmarked, more, edge)
  BY <1>1, <1>2, <1>11, NoMarkBytes, Zenon
<1>13. Within(at, more, edge)
  BY <1>3, <1>11, <1>12, IdByteBytes, SameWithin, Zenon
<1>14. Within(counted, more + Width(opt), edge)
  BY <1>4, <1>8, <1>13, CountedBytes, Zenon
<1>15. Within(new, more + Width(opt), edge)
  BY <1>5, <1>6, <1>9, <1>10, <1>14, DataEndBytes, ExtraEndBytes, SameWithin, Zenon
<1>16. Crc!PlainByte(opt, dec, b, mark) = new
  <2>1. {Crc!ExtraEnd(opt, e) :
            e \in {Crc!DataEnd(opt, c) :
            c \in {Crc!Counted(opt, a, b) :
            a \in {Crc!IdByte(opt, u, b) : u \in {unmarked}}}}} = {new}
    BY <1>3, <1>4, <1>5, <1>6, Zenon
  <2>2. QED
    BY <1>2, <2>1, Zenon DEF Crc!PlainByte
<1>17. QED
  BY <1>1, <1>15, <1>16, Zenon

LEMMA DecodeByteBytes ==
    ASSUME NEW opt \in OptionType, NEW dec, DecoderInv(opt, dec), NEW b \in ByteType,
           NEW mark, NEW size \in Nat, NEW edge, Within(dec, size, edge),
           StartBytes(opt) <= size
    PROVE  Within(Crc!DecodeByte(opt, dec, b, mark),
                  IF mark = "none" THEN size + Width(opt) ELSE size + 2 * Width(opt), edge)
<1>1. PICK new : new = Crc!DecodeByte(opt, dec, b, mark)
  OBVIOUS
<1>2. \/ mark # "none" /\ new = Crc!IndexMark(opt, dec, b)
      \/ /\ mark # "none" /\ ~dec.awaiting_iam
         /\ new = Crc!IdMark(opt, dec, b)
      \/ mark # "none" /\ new = Crc!DataMark(opt, dec, b)
      \/ new = Crc!PlainByte(opt, dec, b, mark)
  BY <1>1 DEF Crc!DecodeByte, Crc!IsIam, Crc!IsIdam, Crc!IsDam, Crc!MayBeDam
<1>3. DecoderInv(opt, new)
  BY <1>1, DecodeByteStep, Zenon
<1>4. Len(new.data) \in Nat /\ Width(opt) \in {1, 2}
  <2>1. new.data \in Seq(Nat)
    BY <1>3, CountersType DEF DecoderInv
  <2>2. QED
    BY <2>1, LenProperties, WidthType
<1>5. CASE mark # "none" /\ Within(new, size + Width(opt), edge)
  BY <1>1, <1>4, <1>5 DEF Within
<1>6. CASE new = Crc!PlainByte(opt, dec, b, mark)
  <2>1. Within(new, (IF mark = "none" THEN size ELSE size + Width(opt)) + Width(opt), edge)
    BY <1>6, PlainByteBytes, Zenon
  <2>2. QED
    BY <1>1, <1>4, <2>1 DEF Within
<1>7. QED
  BY <1>2, <1>5, <1>6, IndexMarkBytes, IdMarkBytes, DataMarkBytes, Zenon

-----------------------------------------------------------------------------
(* A pass over a track.                                                    *)

\* Cells from p to the hole, those with a mark counted twice.
Marked(track, p) == {k \in p .. Len(track) : track[k].mark # "none"}
Left(track, p)   == Len(track) + 1 - p + Cardinality(Marked(track, p))

Weight(cell) == IF cell.mark = "none" THEN 1 ELSE 2

\* The bytes stored at the first index when the track starts before it (-g).
Padding(opt) == IF opt.ignore < 0 THEN -opt.ignore ELSE 0

\* The most that the rest of a pass can store: to its second index, with so many
\* cells still to be damaged.
ToCome(opt, track, edge, p, damages) ==
    LET left == IF edge = 0 THEN Left(track, p) + Left(track, 1)
                ELSE IF edge = 1 THEN Left(track, p) ELSE 0
    IN Width(opt) * (left + damages) + (IF edge = 0 THEN Padding(opt) ELSE 0)

\* A track that a pass stores in full with ten bytes to spare: one turn of it from
\* the hole, or less than two from anywhere.
FitsBuffer(c) ==
    LET turn == Left(c.cells, 1)
    IN Hdr + StartBytes(c.o) + Padding(c.o)
         + Width(c.o) * ((IF c.o.hole THEN turn ELSE 2 * turn) + c.noise) <= TrackMax - 10

BufferRoom == TrackMax - 10 - Hdr

RoomInv ==
    /\ Len(d.data) <= BufferRoom
    /\ pc = "read" =>
         /\ d.index_edge \in 0 .. 2
         /\ Len(d.data) + ToCome(o, cells, d.index_edge, pos, noise) <= BufferRoom
         /\ StartBytes(o) + ToCome(o, cells, d.index_edge, pos, noise) <= BufferRoom

LEMMA MarkedType ==
    ASSUME NEW track \in Seq(CellType), NEW p \in 1 .. Len(track) + 1
    PROVE  /\ IsFiniteSet(Marked(track, p)) /\ Cardinality(Marked(track, p)) \in Nat
           /\ Left(track, p) \in Nat
<1>1. Len(track) \in Nat
  BY LenProperties
<1>2. IsFiniteSet(p .. Len(track))
  BY <1>1, FS_Interval, p \in Int, Len(track) \in Int
<1>3. Marked(track, p) \subseteq p .. Len(track)
  BY DEF Marked
<1>4. IsFiniteSet(Marked(track, p))
  BY <1>2, <1>3, FS_Subset, Zenon
<1>5. Cardinality(Marked(track, p)) \in Nat
  BY <1>4, FS_CardinalityType, Zenon
<1>6. QED
  BY <1>1, <1>4, <1>5 DEF Left

\* A cell that has been read leaves its weight less.
LEMMA LeftNext ==
    ASSUME NEW track \in Seq(CellType), NEW p \in 1 .. Len(track)
    PROVE  Left(track, p) = Left(track, p + 1) + Weight(track[p])
<1>1. Len(track) \in Nat /\ p \in 1 .. Len(track) + 1 /\ p + 1 \in 1 .. Len(track) + 1
  BY LenProperties
<1>2. PICK after : after = Marked(track, p + 1)
  OBVIOUS
<1>3. IsFiniteSet(after) /\ Cardinality(after) \in Nat
  BY <1>1, <1>2, MarkedType
<1>4. p \notin after
  BY <1>1, <1>2 DEF Marked
<1>5. CASE track[p].mark = "none"
  <2>1. Marked(track, p) = after
    BY <1>1, <1>2, <1>5 DEF Marked
  <2>2. QED
    BY <1>1, <1>2, <1>3, <1>5, <2>1 DEF Left, Weight
<1>6. CASE track[p].mark # "none"
  <2>1. Marked(track, p) = after \cup {p}
    BY <1>1, <1>2, <1>6 DEF Marked
  <2>2. Cardinality(after \cup {p}) = Cardinality(after) + 1
    BY <1>3, <1>4, FS_AddElement
  <2>3. QED
    BY <1>1, <1>2, <1>3, <1>6, <2>1, <2>2 DEF Left, Weight
<1>7. QED
  BY <1>5, <1>6

\* At the hole nothing is left, and nowhere more than at the first cell.
LEMMA LeftBounds ==
    ASSUME NEW track \in Seq(CellType), NEW p \in 1 .. Len(track) + 1
    PROVE  Left(track, Len(track) + 1) = 0 /\ Left(track, p) <= Left(track, 1)
<1>1. Len(track) \in Nat /\ 1 \in 1 .. Len(track) + 1
  BY LenProperties
<1>2. Left(track, Len(track) + 1) = 0
  <2>1. Marked(track, Len(track) + 1) = {}
    <3> SUFFICES ASSUME NEW k \in Marked(track, Len(track) + 1) PROVE FALSE
      OBVIOUS
    <3>1. k \in Len(track) + 1 .. Len(track)
      BY Zenon DEF Marked
    <3>2. QED
      BY <1>1, <3>1
  <2>2. Cardinality(Marked(track, Len(track) + 1)) = 0
    BY <2>1, FS_EmptySet
  <2>3. Left(track, Len(track) + 1)
          = Len(track) + 1 - (Len(track) + 1) + Cardinality(Marked(track, Len(track) + 1))
    BY Zenon DEF Left
  <2>4. QED
    BY <1>1, <2>2, <2>3
<1>3. Left(track, p) <= Left(track, 1)
  <2>1. Marked(track, p) \subseteq Marked(track, 1)
    BY <1>1 DEF Marked
  <2>2. IsFiniteSet(Marked(track, 1))
    BY <1>1, MarkedType
  <2>3. Cardinality(Marked(track, p)) <= Cardinality(Marked(track, 1))
    BY <2>1, <2>2, FS_Subset, Zenon
  <2>4. Cardinality(Marked(track, p)) \in Nat /\ Cardinality(Marked(track, 1)) \in Nat
    BY <1>1, MarkedType
  <2>5. QED
    BY <1>1, <2>3, <2>4 DEF Left
<1>4. QED
  BY <1>2, <1>3

\* A cell delivered stores its weight at most.
LEMMA DeliveredBytes ==
    ASSUME PassInv, NEW cell \in CellType, NEW ok \in BOOLEAN, Deliver(cell, ok),
           NEW size \in Nat, Len(d.data) <= size, StartBytes(o) <= size
    PROVE  /\ d'.index_edge = d.index_edge /\ Len(d'.data) \in Nat
           /\ Len(d'.data) <= size + Width(o) * Weight(cell)
<1>1. PICK opt, dec, new : opt = o /\ dec = d /\ new = d'
  OBVIOUS
<1>2. /\ opt \in OptionType /\ DecoderInv(opt, dec) /\ DecoderInv(opt, new)
      /\ Len(dec.data) <= size /\ StartBytes(opt) <= size
  <2>1. DecoderInv(o, d')
    BY Delivered, Zenon
  <2>2. QED
    BY <1>1, <2>1, CaseTypes DEF PassInv
<1>3. PICK b : b = [v |-> cell.v, ok |-> ok, last |-> cell.last]
  OBVIOUS
<1>4. b \in ByteType
  BY <1>3 DEF CellType, ByteType
<1>5. PICK enc : enc = IF cell.mark = "none" THEN dec.enc ELSE Encoded(cell.mark)
  OBVIOUS
<1>6. dec \in DecoderType /\ new \in DecoderType
  BY <1>2 DEF DecoderInv
<1>7. enc \in Crc!Encodings
  BY <1>5, <1>6, CountersType DEF Encoded, Crc!Encodings
<1>8. PICK at : at = [dec EXCEPT !.enc = enc, !.splice = FALSE]
  OBVIOUS
<1>9. at \in DecoderType
  BY <1>6, <1>7, <1>8, ZenonT(60) DEF DecoderType
<1>10. /\ at.idams = dec.idams /\ at.errcount = dec.errcount /\ at.data = dec.data
       /\ at.ibyte = dec.ibyte /\ at.awaiting_iam = dec.awaiting_iam
       /\ at.index_edge = dec.index_edge
  BY <1>6, <1>8 DEF DecoderType
<1>11. DecoderInv(opt, at)
  BY <1>2, <1>6, <1>9, <1>10, TableUntouched, LenProperties, CountersType, SMTT(60)
<1>12. new = Crc!DecodeByte(opt, at, b, cell.mark)
  BY <1>1, <1>3, <1>5, <1>8, Zenon DEF Deliver
<1>13. Within(at, size, dec.index_edge)
  BY <1>2, <1>10 DEF Within
<1>14. Within(new, IF cell.mark = "none" THEN size + Width(opt) ELSE size + 2 * Width(opt),
              dec.index_edge)
  BY <1>2, <1>4, <1>11, <1>12, <1>13, DecodeByteBytes, Zenon
<1>15. Len(new.data) \in Nat
  BY <1>6, CountersType, LenProperties
<1>16. QED
  BY <1>1, <1>2, <1>14, <1>15, WidthType DEF Within, Weight

\* An index stores the padding, the first time.
LEMMA IndexBytes ==
    ASSUME NEW opt \in OptionType, NEW dec \in DecoderType
    PROVE  LET new == Crc!DecodeIndex(opt, dec)
           IN /\ new.index_edge = dec.index_edge + 1
              /\ Len(new.data) = Len(dec.data)
                                   + (IF dec.index_edge = 0 THEN Padding(opt) ELSE 0)
<1>1. dec.data \in Seq(Nat) /\ Len(dec.data) \in Nat
  BY CountersType, LenProperties
<1>2. PICK data : data = IF dec.index_edge = 0 /\ opt.ignore < 0
                         THEN dec.data \o [i \in 1 .. -opt.ignore |-> 255] ELSE dec.data
  OBVIOUS
<1>3. PICK new : new = [dec EXCEPT !.index_edge = dec.index_edge + 1, !.data = data]
  OBVIOUS
<1>4. Crc!DecodeIndex(opt, dec) = new
  BY <1>2, <1>3, Zenon DEF Crc!DecodeIndex
<1>5. new.index_edge = dec.index_edge + 1 /\ new.data = data
  BY <1>3 DEF DecoderType
<1>6. Len(data) = Len(dec.data) + (IF dec.index_edge = 0 THEN Padding(opt) ELSE 0)
  <2>1. CASE dec.index_edge = 0 /\ opt.ignore < 0
    <3>1. PICK n \in Nat : n = -opt.ignore
      BY <2>1 DEF OptionType
    <3>2. PICK fill : fill = [i \in 1 .. -opt.ignore |-> 255]
      OBVIOUS
    <3>3. fill \in [1 .. n -> Nat]
      BY <3>1, <3>2
    <3>4. fill \in Seq(Nat)
      BY <3>3, SeqDef
    <3>5. Len(fill) = n
      BY <3>1, <3>2, <3>4, LenProperties
    <3>6. Len(dec.data \o fill) = Len(dec.data) + Len(fill)
      BY <1>1, <3>4, ConcatProperties
    <3>7. data = dec.data \o fill
      BY <1>2, <2>1, <3>2
    <3>8. QED
      BY <2>1, <3>1, <3>5, <3>6, <3>7 DEF Padding
  <2>2. CASE ~(dec.index_edge = 0 /\ opt.ignore < 0)
    BY <1>1, <1>2, <2>2 DEF Padding
  <2>3. QED
    BY <2>1, <2>2
<1>7. QED
  BY <1>4, <1>5, <1>6, Zenon

\* A decoder begins with no bytes.
LEMMA NewBytes ==
    ASSUME NEW opt, NEW enc
    PROVE  LET new == Crc!NewDecoder(opt, enc, FALSE)
           IN Len(new.data) = 0 /\ new.index_edge = 0
  BY EmptySeq DEF Crc!NewDecoder

\* The bytes to come where a pass is.
LEMMA ToComeType ==
    ASSUME NEW opt \in OptionType, NEW track \in Seq(CellType),
           NEW p \in 1 .. Len(track) + 1, NEW n \in Nat, NEW e \in 0 .. 2
    PROVE  ToCome(opt, track, e, p, n) \in Nat
<1>1. 1 \in 1 .. Len(track) + 1
  BY LenProperties
<1>2. PICK here, turn, pad, w : /\ here = Left(track, p) /\ turn = Left(track, 1)
                                /\ pad = Padding(opt) /\ w = Width(opt)
  OBVIOUS
<1>3. here \in Nat /\ turn \in Nat /\ w \in {1, 2} /\ pad \in Nat
  <2>1. here \in Nat /\ turn \in Nat
    BY <1>1, <1>2, MarkedType, Zenon
  <2>2. w \in {1, 2}
    BY <1>2, WidthType, Zenon
  <2>3. pad \in Nat
    BY <1>2 DEF OptionType, Padding
  <2>4. QED
    BY <2>1, <2>2, <2>3, Zenon
<1>4. PICK left : left = IF e = 0 THEN here + turn ELSE IF e = 1 THEN here ELSE 0
  OBVIOUS
<1>5. left \in Nat
  BY <1>3, <1>4
<1>6. ToCome(opt, track, e, p, n) = w * (left + n) + (IF e = 0 THEN pad ELSE 0)
  BY <1>2, <1>4, Zenon DEF ToCome
<1>7. w * (left + n) + (IF e = 0 THEN pad ELSE 0) \in Nat
  <2>1. CASE w = 1
    BY <1>3, <1>5, <2>1
  <2>2. CASE w = 2
    BY <1>3, <1>5, <2>2
  <2>3. QED
    BY <1>3, <2>1, <2>2
<1>8. QED
  BY <1>6, <1>7, Zenon

\* A cell read, as it is or damaged, takes what it may store from them.
LEMMA ToComeNext ==
    ASSUME NEW opt \in OptionType, NEW track \in Seq(CellType),
           NEW p \in 1 .. Len(track), NEW n \in Nat, NEW e \in 0 .. 1
    PROVE  /\ ToCome(opt, track, e, p + 1, n) + Width(opt) * Weight(track[p])
                <= ToCome(opt, track, e, p, n)
           /\ n > 0 => ToCome(opt, track, e, p + 1, n - 1) + 2 * Width(opt)
                         <= ToCome(opt, track, e, p, n)
<1>1. 1 \in 1 .. Len(track) + 1 /\ p + 1 \in 1 .. Len(track) + 1
  BY LenProperties
<1>2. PICK next, here, turn, pad, w, weight :
         /\ next = Left(track, p + 1) /\ here = Left(track, p) /\ turn = Left(track, 1)
         /\ pad = Padding(opt) /\ w = Width(opt) /\ weight = Weight(track[p])
  OBVIOUS
<1>3. /\ next \in Nat /\ turn \in Nat /\ w \in {1, 2} /\ pad \in Nat
      /\ weight \in {1, 2} /\ here = next + weight
  <2>1. next \in Nat /\ turn \in Nat
    BY <1>1, <1>2, MarkedType
  <2>2. w \in {1, 2} /\ pad \in Nat /\ weight \in {1, 2}
    BY <1>2, WidthType DEF OptionType, Padding, Weight
  <2>3. here = next + weight
    BY <1>2, LeftNext
  <2>4. QED
    BY <2>1, <2>2, <2>3
<1>4. PICK rest, extra : /\ rest = IF e = 0 THEN turn ELSE 0
                         /\ extra = IF e = 0 THEN pad ELSE 0
  OBVIOUS
<1>5. rest \in Nat /\ extra \in Nat
  BY <1>3, <1>4
<1>6. ToCome(opt, track, e, p, n) = w * (next + weight + rest + n) + extra
  <2>1. CASE e = 0
    BY <1>2, <1>3, <1>4, <2>1 DEF ToCome
  <2>2. CASE e = 1
    BY <1>2, <1>3, <1>4, <2>2 DEF ToCome
  <2>3. QED
    BY <2>1, <2>2
<1>7. \A m \in Nat : ToCome(opt, track, e, p + 1, m) = w * (next + rest + m) + extra
  <2>1. CASE e = 0
    BY <1>2, <1>3, <1>4, <2>1 DEF ToCome
  <2>2. CASE e = 1
    BY <1>2, <1>3, <1>4, <2>2 DEF ToCome
  <2>3. QED
    BY <2>1, <2>2
<1>8. w * (next + rest + n) + extra + w * weight = w * (next + weight + rest + n) + extra
  BY <1>3, <1>5
<1>9. n > 0 => w * (next + rest + (n - 1)) + extra + 2 * w
                 <= w * (next + weight + rest + n) + extra
  BY <1>3, <1>5
<1>10. ToCome(opt, track, e, p + 1, n) + w * weight <= ToCome(opt, track, e, p, n)
  <2>1. ToCome(opt, track, e, p + 1, n) = w * (next + rest + n) + extra
    BY <1>7
  <2>2. w * (next + weight + rest + n) + extra \in Int
    BY <1>3, <1>5
  <2>3. QED
    BY <1>6, <1>8, <2>1, <2>2
<1>11. n > 0 => ToCome(opt, track, e, p + 1, n - 1) + 2 * w <= ToCome(opt, track, e, p, n)
  <2> SUFFICES ASSUME n > 0
               PROVE  ToCome(opt, track, e, p + 1, n - 1) + 2 * w <= ToCome(opt, track, e, p, n)
    OBVIOUS
  <2>1. n - 1 \in Nat
    OBVIOUS
  <2>2. ToCome(opt, track, e, p + 1, n - 1) = w * (next + rest + (n - 1)) + extra
    BY <1>7, <2>1
  <2>3. QED
    BY <1>6, <1>9, <2>2
<1>12. QED
  BY <1>2, <1>10, <1>11

\* At the hole a turn begins, or the pass has ended.
LEMMA ToComeIndex ==
    ASSUME NEW opt \in OptionType, NEW track \in Seq(CellType), NEW n \in Nat
    PROVE  LET p == Len(track) + 1
           IN /\ ToCome(opt, track, 1, 1, n) + Padding(opt) = ToCome(opt, track, 0, p, n)
              /\ ToCome(opt, track, 2, 1, n) = ToCome(opt, track, 1, p, n)
<1>1. 1 \in 1 .. Len(track) + 1 /\ Len(track) + 1 \in 1 .. Len(track) + 1
  BY LenProperties
<1>2. PICK turn, pad, w : turn = Left(track, 1) /\ pad = Padding(opt) /\ w = Width(opt)
  OBVIOUS
<1>3. turn \in Nat /\ w \in {1, 2} /\ pad \in Nat
  <2>1. turn \in Nat /\ w \in {1, 2}
    BY <1>1, <1>2, MarkedType, WidthType, Zenon
  <2>2. pad \in Nat
    BY <1>2 DEF OptionType, Padding
  <2>3. QED
    BY <2>1, <2>2, Zenon
<1>4. Left(track, Len(track) + 1) = 0
  BY <1>1, LeftBounds
<1>5. /\ ToCome(opt, track, 1, 1, n) = w * (turn + n) + 0
      /\ ToCome(opt, track, 0, Len(track) + 1, n) = w * (0 + turn + n) + pad
      /\ ToCome(opt, track, 2, 1, n) = w * (0 + n) + 0
      /\ ToCome(opt, track, 1, Len(track) + 1, n) = w * (0 + n) + 0
  BY <1>2, <1>4 DEF ToCome
<1>6. w * (turn + n) + 0 + pad = w * (0 + turn + n) + pad
  BY <1>3
<1>7. QED
  BY <1>2, <1>5, <1>6, Zenon

\* A track that fits has room for a pass when it begins.
LEMMA PassFits ==
    ASSUME case \in DOMAIN Cases, FitsBuffer(Cases[case]), NEW p \in 1 .. N + 1
    PROVE  /\ BufferRoom \in Nat /\ Padding(o) \in Nat
           /\ o.hole => /\ Padding(o) + ToCome(o, cells, 1, 1, Cases[case].noise) <= BufferRoom
                        /\ StartBytes(o) + ToCome(o, cells, 1, 1, Cases[case].noise) <= BufferRoom
           /\ ~o.hole => StartBytes(o) + ToCome(o, cells, 0, p, Cases[case].noise) <= BufferRoom
<1>1. PICK opt, track, n, hole : /\ opt = o /\ track = cells /\ n = Cases[case].noise
                                 /\ hole = opt.hole
  OBVIOUS
<1>2. /\ opt \in OptionType /\ track \in Seq(CellType) /\ n \in Nat
      /\ p \in 1 .. Len(track) + 1 /\ Len(track) \in Nat
  BY <1>1, CaseTypes DEF N
<1>3. PICK turn, here, pad, start, width :
          /\ turn = Left(track, 1) /\ here = Left(track, p) /\ pad = Padding(opt)
          /\ start = StartBytes(opt) /\ width = Width(opt)
  OBVIOUS
<1>4. turn \in Nat /\ here \in Nat /\ here <= turn
  <2>1. 1 \in 1 .. Len(track) + 1
    BY <1>2
  <2>2. QED
    BY <1>2, <1>3, <2>1, MarkedType, LeftBounds
<1>5. pad \in Nat /\ start \in Nat /\ width \in {1, 2}
  BY <1>2, <1>3, WidthType DEF OptionType, Padding
<1>6. Hdr \in Nat /\ TrackMax \in Nat /\ BufferRoom = TrackMax - 10 - Hdr
  BY TrackPassesAssumption DEF BufferRoom
<1>7. Hdr + start + pad + width * ((IF hole THEN turn ELSE 2 * turn) + n) <= TrackMax - 10
  BY <1>1, <1>3, Zenon DEF FitsBuffer, o, cells
<1>8. /\ ToCome(opt, track, 1, 1, n) = width * (turn + n)
      /\ ToCome(opt, track, 0, p, n) = width * (here + turn + n) + pad
  BY <1>2, <1>3, <1>4, <1>5 DEF ToCome
<1>9. /\ BufferRoom \in Nat
      /\ hole => pad + width * (turn + n) <= BufferRoom /\ start + width * (turn + n) <= BufferRoom
      /\ ~hole => start + width * (here + turn + n) + pad <= BufferRoom
  <2>1. CASE width = 1
    BY <1>2, <1>4, <1>5, <1>6, <1>7, <2>1
  <2>2. CASE width = 2
    BY <1>2, <1>4, <1>5, <1>6, <1>7, <2>2
  <2>3. QED
    BY <1>5, <2>1, <2>2
<1>10. width * (here + turn + n) \in Int
  BY <1>2, <1>4, <1>5
<1>11. /\ BufferRoom \in Nat /\ pad \in Nat
       /\ hole => /\ pad + ToCome(opt, track, 1, 1, n) <= BufferRoom
                  /\ start + ToCome(opt, track, 1, 1, n) <= BufferRoom
       /\ ~hole => start + ToCome(opt, track, 0, p, n) <= BufferRoom
  BY <1>5, <1>6, <1>8, <1>9, <1>10
<1>12. QED
  BY <1>1, <1>3, <1>11, Zenon

\* The track buffer has room for what is to come, in every pass.
LEMMA RoomStep ==
    ASSUME \A i \in DOMAIN Cases : FitsBuffer(Cases[i]), PassInv, RoomInv, [Next]_vars
    PROVE  RoomInv'
<1>1. /\ case \in DOMAIN Cases /\ FitsBuffer(Cases[case])
      /\ pos \in 1 .. N + 1 /\ noise \in Nat
  <2>1. case \in DOMAIN Cases /\ pos \in 1 .. N + 1 /\ noise \in 0 .. Cases[case].noise
    BY DEF PassInv
  <2>2. Cases[case].noise \in Nat
    BY <2>1, CaseTypes
  <2>3. QED
    BY <2>1, <2>2
<1>2. PICK opt, track, n : opt = o /\ track = cells /\ n = N
  OBVIOUS
<1>3. /\ opt \in OptionType /\ track \in Seq(CellType) /\ n \in Nat /\ n = Len(track)
      /\ Cases[case].begin \subseteq 1 .. n /\ Cases[case].noise \in Nat
      /\ o.mark \in Marks
  BY <1>1, <1>2, CaseTypes DEF N
<1>4. case' = case => o' = opt /\ cells' = track
  BY <1>2 DEF o, cells
<1>5. PICK room, start, width, pad : /\ room = BufferRoom /\ start = StartBytes(opt)
                                     /\ width = Width(opt) /\ pad = Padding(opt)
  OBVIOUS
<1>6. room \in Nat /\ start \in Nat /\ width \in {1, 2} /\ pad \in Nat
  BY <1>1, <1>2, <1>3, <1>5, PassFits, WidthType
<1>7. DecoderInv(opt, d) /\ d \in DecoderType /\ Len(d.data) \in Nat
  <2>1. DecoderInv(opt, d) /\ d \in DecoderType
    BY <1>2, Zenon DEF PassInv, DecoderInv
  <2>2. QED
    BY <2>1, CountersType, LenProperties
<1>8. Len(d.data) <= room
  BY <1>5 DEF RoomInv
<1>9. pc = "read" => /\ d.index_edge \in 0 .. 2
                     /\ Len(d.data) + ToCome(opt, track, d.index_edge, pos, noise) <= room
                     /\ start + ToCome(opt, track, d.index_edge, pos, noise) <= room
  BY <1>2, <1>5, Zenon DEF RoomInv
<1>10. BufferRoom' = BufferRoom
  BY DEF BufferRoom
<1> DEFINE Kept(e, p, m, len) ==
              /\ e \in 0 .. 2 /\ len <= room
              /\ len + ToCome(opt, track, e, p, m) <= room
              /\ start + ToCome(opt, track, e, p, m) <= room
<1>11. ASSUME case' = case, Kept(d'.index_edge, pos', noise', Len(d'.data))
       PROVE  RoomInv'
  <2>1. StartBytes(o') = start
    BY <1>4, <1>5, <1>11
  <2>2. /\ Len(d'.data) <= room /\ d'.index_edge \in 0 .. 2
        /\ Len(d'.data) + ToCome(o', cells', d'.index_edge, pos', noise') <= room
        /\ start + ToCome(o', cells', d'.index_edge, pos', noise') <= room
    BY <1>4, <1>11, Zenon
  <2>3. QED
    BY <1>5, <1>10, <2>1, <2>2, Zenon DEF RoomInv
<1>12. ASSUME case' = case, pc' # "read", Len(d'.data) <= room
       PROVE  RoomInv'
  BY <1>5, <1>10, <1>12, Zenon DEF RoomInv
\* What a cell delivered may store, and what is to come after it.
<1>13. ASSUME pc = "read", ~PassEnded, ~AtHole, case' = case, pos' = pos + 1,
              NEW cell \in CellType, NEW ok \in BOOLEAN, Deliver(cell, ok),
              \/ cell = track[pos] /\ noise' = noise
              \/ noise > 0 /\ noise' = noise - 1
       PROVE  RoomInv'
  <2>1. PICK e, p, m : e = d.index_edge /\ p = pos /\ m = noise
    OBVIOUS
  <2>2. /\ e \in 0 .. 1 /\ e \in 0 .. 2 /\ m \in Nat
        /\ p \in 1 .. Len(track) /\ p \in 1 .. Len(track) + 1
    BY <1>1, <1>2, <1>3, <1>9, <1>13, <2>1 DEF PassEnded, AtHole
  <2>3. PICK now : now = ToCome(opt, track, e, p, m)
    OBVIOUS
  <2>4. now \in Nat
    BY <1>3, <2>2, <2>3, ToComeType
  <2>5. PICK size : size = room - now
    OBVIOUS
  <2>6. size \in Nat /\ Len(d.data) <= size /\ start <= size
    BY <1>6, <1>7, <1>9, <1>13, <2>1, <2>3, <2>4, <2>5
  <2>7. PICK next : next = ToCome(opt, track, e, p + 1, noise')
    OBVIOUS
  <2>8. next \in Nat /\ next + width * Weight(cell) <= now
    <3>1. Weight(cell) \in {1, 2}
      BY DEF Weight
    <3>2. p + 1 \in 1 .. Len(track) + 1
      BY <1>3, <2>2
    <3>3. CASE cell = track[p] /\ noise' = m
      <4>1. next \in Nat
        BY <1>3, <2>2, <2>7, <3>2, <3>3, ToComeType
      <4>2. ToCome(opt, track, e, p + 1, m) + Width(opt) * Weight(track[p]) <= now
        BY <1>3, <2>2, <2>3, ToComeNext
      <4>3. QED
        BY <1>5, <2>7, <3>3, <4>1, <4>2
    <3>4. CASE m > 0 /\ noise' = m - 1
      <4>1. noise' \in Nat
        BY <2>2, <3>4
      <4>2. next \in Nat
        BY <1>3, <2>2, <2>7, <3>2, <4>1, ToComeType
      <4>3. ToCome(opt, track, e, p + 1, m - 1) + 2 * Width(opt) <= now
        BY <1>3, <2>2, <2>3, <3>4, ToComeNext
      <4>4. next + 2 * width <= now
        BY <1>5, <2>7, <3>4, <4>3
      <4>5. QED
        BY <1>6, <2>4, <3>1, <4>2, <4>4
    <3>5. QED
      BY <1>13, <2>1, <3>3, <3>4
  <2>9. /\ d'.index_edge = e /\ Len(d'.data) \in Nat
        /\ Len(d'.data) <= size + width * Weight(cell)
    BY <1>2, <1>5, <1>13, <2>1, <2>6, DeliveredBytes
  <2>10. Weight(cell) \in {1, 2} /\ width * Weight(cell) \in Nat
    BY <1>6 DEF Weight
  <2>11. Len(d'.data) + next <= room /\ Len(d'.data) <= room /\ start + next <= room
    BY <1>6, <2>4, <2>5, <2>6, <2>8, <2>9, <2>10
  <2>12. Kept(d'.index_edge, pos', noise', Len(d'.data))
    BY <1>13, <2>1, <2>2, <2>7, <2>9, <2>11
  <2>13. QED
    BY <1>11, <1>13, <2>12
<1>14. CASE BeginPass
  <2>1. PICK begin \in Cases[case].begin :
          /\ pos' = IF o.hole THEN 1 ELSE begin
          /\ LET new == Crc!NewDecoder(o, o.first_encoding, FALSE)
             IN d' = IF o.hole THEN Crc!DecodeIndex(o, new) ELSE new
    BY <1>14 DEF BeginPass
  <2>2. case' = case /\ noise' = Cases[case].noise
    BY <1>14 DEF BeginPass
  <2>3. PICK new : new = Crc!NewDecoder(o, o.first_encoding, FALSE)
    OBVIOUS
  <2>4. Len(new.data) = 0 /\ new.index_edge = 0 /\ new \in DecoderType
    <3>1. opt.first_encoding \in Crc!Encodings /\ FALSE \in BOOLEAN
      BY <1>3 DEF OptionType
    <3>2. new = Crc!NewDecoder(opt, opt.first_encoding, FALSE)
      BY <1>2, <2>3
    <3>3. new \in DecoderType
      BY <1>3, <3>1, <3>2, NewDecoderInv, Zenon DEF DecoderInv
    <3>4. QED
      BY <3>2, <3>3, NewBytes, Zenon
  <2>5. d' = IF o.hole THEN Crc!DecodeIndex(o, new) ELSE new
    BY <2>1, <2>3, Zenon
  <2>6. begin \in 1 .. n + 1 /\ begin \in 1 .. Len(track) + 1 /\ 0 \in 0 .. 2
    BY <1>3
  <2>7. CASE o.hole
    <3>1. d' = Crc!DecodeIndex(opt, new) /\ pos' = 1
      BY <1>2, <2>1, <2>5, <2>7
    <3>2. d'.index_edge = 1 /\ Len(d'.data) = pad
      <4>1. /\ d'.index_edge = new.index_edge + 1
            /\ Len(d'.data) = Len(new.data)
                                + (IF new.index_edge = 0 THEN Padding(opt) ELSE 0)
        BY <1>3, <2>4, <3>1, IndexBytes, Zenon
      <4>2. d'.index_edge = 0 + 1 /\ Len(d'.data) = 0 + pad
        BY <1>5, <2>4, <4>1, Zenon
      <4>3. QED
        BY <1>6, <4>2
    <3>3. /\ pad + ToCome(opt, track, 1, 1, noise') <= room
          /\ start + ToCome(opt, track, 1, 1, noise') <= room
      BY <1>1, <1>2, <1>5, <2>2, <2>7, PassFits
    <3>4. ToCome(opt, track, 1, 1, noise') \in Nat
      <4>1. 1 \in 1 .. Len(track) + 1 /\ 1 \in 0 .. 2
        BY <1>3
      <4>2. QED
        BY <1>3, <2>2, <4>1, ToComeType, Zenon
    <3>5. Kept(d'.index_edge, pos', noise', Len(d'.data))
      BY <1>6, <3>1, <3>2, <3>3, <3>4
    <3>6. QED
      BY <1>11, <2>2, <3>5
  <2>8. CASE ~o.hole
    <3>1. d' = new /\ pos' = begin
      BY <2>1, <2>5, <2>8
    <3>2. start + ToCome(opt, track, 0, begin, noise') <= room
      BY <1>1, <1>2, <1>5, <2>2, <2>6, <2>8, PassFits
    <3>3. ToCome(opt, track, 0, begin, noise') \in Nat
      BY <1>3, <2>2, <2>6, ToComeType, Zenon
    <3>4. Kept(d'.index_edge, pos', noise', Len(d'.data))
      BY <1>6, <2>4, <3>1, <3>2, <3>3
    <3>5. QED
      BY <1>11, <2>2, <3>4
  <2>9. QED
    BY <2>7, <2>8
<1>15. CASE ReadCell
  <2>1. /\ pc = "read" /\ ~PassEnded /\ ~AtHole /\ case' = case /\ pos' = pos + 1
        /\ noise' = noise /\ Deliver(cells[pos], ~slipped)
    BY <1>15 DEF ReadCell
  <2>2. cells[pos] \in CellType /\ (~slipped) \in BOOLEAN /\ cells[pos] = track[pos]
    <3>1. PICK p : p = pos
      OBVIOUS
    <3>2. p \in 1 .. n
      BY <1>1, <1>2, <1>3, <2>1, <3>1 DEF AtHole
    <3>3. QED
      BY <1>2, <1>3, <3>1, <3>2, ElementOfSeq
  <2>3. QED
    BY <1>13, <2>1, <2>2
<1>16. CASE NoisyCell
  <2>1. PICK cell \in Damaged(cells[pos]) : Deliver(cell, FALSE)
    BY <1>16 DEF NoisyCell
  <2>2. /\ pc = "read" /\ ~PassEnded /\ ~AtHole /\ case' = case /\ pos' = pos + 1
        /\ noise > 0 /\ noise' = noise - 1
    BY <1>16 DEF NoisyCell
  <2>3. cells[pos] \in CellType
    <3>1. PICK p : p = pos
      OBVIOUS
    <3>2. p \in 1 .. n
      BY <1>1, <1>2, <1>3, <2>2, <3>1 DEF AtHole
    <3>3. QED
      BY <1>2, <1>3, <3>1, <3>2, ElementOfSeq
  <2>4. cell \in CellType /\ FALSE \in BOOLEAN
    BY <1>3, <2>1, <2>3, DamagedType, Zenon
  <2>5. QED
    BY <1>13, <2>1, <2>2, <2>4
<1>17. CASE LostCell
  <2>1. /\ pc = "read" /\ ~PassEnded /\ ~AtHole /\ case' = case /\ pos' = pos + 1
        /\ noise > 0 /\ noise' = noise - 1 /\ d' = d
    BY <1>17 DEF LostCell
  <2>2. PICK e, p, m : e = d.index_edge /\ p = pos /\ m = noise
    OBVIOUS
  <2>3. /\ e \in 0 .. 1 /\ e \in 0 .. 2 /\ m \in Nat /\ m > 0
        /\ p \in 1 .. Len(track) /\ p \in 1 .. Len(track) + 1
    BY <1>1, <1>2, <1>3, <1>9, <2>1, <2>2 DEF PassEnded, AtHole
  <2>4. p + 1 \in 1 .. Len(track) + 1 /\ m - 1 \in Nat
    BY <1>3, <2>3
  <2>5. PICK next, now : /\ next = ToCome(opt, track, e, p + 1, m - 1)
                         /\ now = ToCome(opt, track, e, p, m)
    OBVIOUS
  <2>6. next \in Nat /\ now \in Nat
    BY <1>3, <2>3, <2>4, <2>5, ToComeType
  <2>7. next + 2 * Width(opt) <= now
    BY <1>3, <2>3, <2>5, ToComeNext
  <2>8. next <= now
    BY <1>5, <1>6, <2>6, <2>7
  <2>9. Len(d.data) + next <= room /\ start + next <= room
    BY <1>6, <1>7, <1>9, <2>1, <2>2, <2>5, <2>6, <2>8
  <2>10. Kept(d'.index_edge, pos', noise', Len(d'.data))
    BY <1>8, <2>1, <2>2, <2>3, <2>5, <2>9
  <2>11. QED
    BY <1>11, <2>1, <2>10
<1>18. CASE Index
  <2>1. /\ pc = "read" /\ ~PassEnded /\ AtHole /\ case' = case /\ pos' = 1
        /\ noise' = noise /\ d' = Crc!DecodeIndex(opt, d)
    BY <1>2, <1>18 DEF Index
  <2>2. PICK e, p, m : e = d.index_edge /\ p = pos /\ m = noise
    OBVIOUS
  <2>3. e \in 0 .. 1 /\ p \in 1 .. Len(track) + 1 /\ p = Len(track) + 1 /\ m \in Nat
    BY <1>1, <1>2, <1>3, <1>9, <2>1, <2>2 DEF PassEnded, AtHole
  <2>4. /\ d'.index_edge = e + 1
        /\ Len(d'.data) = Len(d.data) + (IF e = 0 THEN pad ELSE 0)
    BY <1>3, <1>5, <1>7, <2>1, <2>2, IndexBytes
  <2>5. PICK now, next : /\ now = ToCome(opt, track, e, p, m)
                         /\ next = ToCome(opt, track, e + 1, 1, m)
    OBVIOUS
  <2>6. now \in Nat /\ next \in Nat
    <3>1. /\ e + 1 \in 0 .. 2 /\ e \in 0 .. 2
          /\ 1 \in 1 .. Len(track) + 1 /\ p \in 1 .. Len(track) + 1
      BY <1>3, <2>3
    <3>2. QED
      BY <1>3, <2>3, <2>5, <3>1, ToComeType
  <2>7. next + (IF e = 0 THEN pad ELSE 0) <= now
    <3>1. /\ ToCome(opt, track, 1, 1, m) + Padding(opt) = ToCome(opt, track, 0, p, m)
          /\ ToCome(opt, track, 2, 1, m) = ToCome(opt, track, 1, p, m)
      BY <1>3, <2>3, ToComeIndex
    <3>2. CASE e = 0
      <4>1. next + pad = now
        BY <1>5, <2>5, <3>1, <3>2
      <4>2. QED
        BY <2>6, <3>2, <4>1
    <3>3. CASE e = 1
      <4>1. next = now
        BY <2>5, <3>1, <3>3
      <4>2. QED
        BY <2>6, <3>3, <4>1
    <3>4. QED
      BY <2>3, <3>2, <3>3
  <2>8. Len(d.data) + now <= room /\ start + now <= room
    BY <1>9, <2>1, <2>2, <2>5
  <2>9. Len(d'.data) + next <= room /\ start + next <= room /\ Len(d'.data) <= room
    <3>1. PICK len, more : len = Len(d.data) /\ more = IF e = 0 THEN pad ELSE 0
      OBVIOUS
    <3>2. len \in Nat /\ more \in Nat /\ Len(d'.data) = len + more
      BY <1>6, <1>7, <2>4, <3>1
    <3>3. next + more <= now /\ len + now <= room /\ start + now <= room
      BY <2>7, <2>8, <3>1, Zenon
    <3>4. len + more + next <= room /\ start + next <= room /\ len + more <= room
      BY <1>6, <2>6, <3>2, <3>3
    <3>5. QED
      BY <3>2, <3>4, Zenon
  <2>10. d'.index_edge \in 0 .. 2
    BY <2>3, <2>4
  <2>11. Kept(d'.index_edge, pos', noise', Len(d'.data))
    BY <2>1, <2>2, <2>4, <2>5, <2>9, <2>10
  <2>12. QED
    BY <1>11, <2>1, <2>11
<1>19. CASE EndPass
  <2>1. case' = case /\ pc' = "judge" /\ d' = d
    BY <1>19 DEF EndPass
  <2>2. QED
    BY <1>8, <1>12, <2>1
<1>20. CASE Retry
  <2>1. case' = case /\ pc' = "pass" /\ d' = Crc!NewDecoder(o, o.first_encoding, FALSE)
    BY <1>20 DEF Retry
  <2>2. Len(d'.data) = 0
    BY <2>1, NewBytes, Zenon
  <2>3. 0 <= room /\ pc' # "read"
    BY <1>6, <2>1
  <2>4. Len(d'.data) <= room
    BY <2>2, <2>3, Zenon
  <2>5. QED
    BY <1>12, <2>1, <2>3, <2>4, Zenon
<1>21. CASE Accept
  <2>1. case' = case /\ pc' = "done" /\ d' = d
    BY <1>21 DEF Accept
  <2>2. QED
    BY <1>8, <1>12, <2>1
<1>22. CASE UNCHANGED vars
  <2>1. /\ case' = case /\ pc' = pc /\ d' = d /\ pos' = pos /\ noise' = noise
    BY <1>22 DEF vars
  <2>2. CASE pc = "read"
    BY <1>8, <1>9, <1>11, <2>1, <2>2
  <2>3. CASE pc # "read"
    BY <1>8, <1>12, <2>1, <2>3
  <2>4. QED
    BY <2>2, <2>3
<1>23. QED
  BY <1>14, <1>15, <1>16, <1>17, <1>18, <1>19, <1>20, <1>21, <1>22, Zenon DEF Next

\* On a track that a pass can store in full, ten bytes to spare, the good sectors
\* reported are always right: one turn of a double-density track from the hole is
\* such a track, whatever the noise, which may only turn bytes into marks so often.
THEOREM FittingTracksReported ==
    ASSUME \A i \in DOMAIN Cases : FitsBuffer(Cases[i])
    PROVE  Spec => []ReportedGood
<1>1. Init => RoomInv
  <2> SUFFICES ASSUME Init PROVE RoomInv
    OBVIOUS
  <2>1. /\ case \in DOMAIN Cases /\ pc = "pass"
        /\ d = Crc!NewDecoder(o, o.first_encoding, FALSE)
    BY DEF Init
  <2>2. Len(d.data) = 0
    BY <2>1, NewBytes, Zenon
  <2>3. BufferRoom \in Nat
    <3>1. 1 \in 1 .. N + 1
      BY <2>1, CaseTypes
    <3>2. QED
      BY <2>1, <3>1, PassFits
  <2>4. 0 <= BufferRoom /\ pc # "read"
    BY <2>1, <2>3
  <2>5. QED
    BY <2>2, <2>4, Zenon DEF RoomInv
<1>2. PassInv /\ RoomInv /\ [Next]_vars => RoomInv'
  BY RoomStep
<1>3. PassInv /\ RoomInv => IdsFit
  <2> SUFFICES ASSUME PassInv, RoomInv, NEW i \in DOMAIN d.idams
               PROVE  d.idams[i].off <= TrackMax - 10
    BY DEF IdsFit
  <2>1. d \in DecoderType /\ InTable(Len(d.data), o.tracklen, d.idams[i].off)
    BY Zenon DEF PassInv, DecoderInv, TableInv
  <2>2. PICK off, len : off = d.idams[i].off /\ len = Len(d.data)
    OBVIOUS
  <2>3. off \in Nat /\ len \in Nat
    <3>1. d.idams \in Seq(EntryType) /\ d.data \in Seq(Nat)
      BY <2>1, CountersType
    <3>2. QED
      BY <2>2, <3>1, OffsetType, LenProperties
  <2>4. off <= Hdr + len
    BY <2>1, <2>2, Zenon DEF InTable
  <2>5. len <= BufferRoom
    BY <2>2 DEF RoomInv
  <2>6. Hdr \in Nat /\ TrackMax \in Nat
    BY TrackPassesAssumption
  <2>7. QED
    BY <2>2, <2>3, <2>4, <2>5, <2>6 DEF BufferRoom
<1>4. QED
  BY <1>1, <1>2, <1>3, GoodReported, PassInvHolds, PTL DEF Spec
=============================================================================
