----------------------------- MODULE RoundTrip -----------------------------
(***************************************************************************)
(* A track's way from one DMK image to another: dmk2gw turns it into a     *)
(* flux stream, the simulated drive decodes the stream into the image that *)
(* is its medium, turns that into flux again, and gw2dmk decodes the flux  *)
(* read from some angle on.                                                *)
(*                                                                         *)
(* Everything is done by the same code in both programs and in the         *)
(* simulator: TrackEncoder is dmk2pulses(), FluxCodec the streams, and     *)
(* BitDecoder the decoder.  Times are ticks of the sample clock.           *)
(***************************************************************************)
EXTENDS Crc16, FiniteSets, SequencesExt, FiniteSetsExt, FluxCodec

CONSTANTS
    Hdr, MaxIdams, Gap1Plus, WrapMin, Sec128, Sec16, WriteSplice,
    MfmGap3z, FmGap3z,
    Dummy,          \* the last, sacrificial pulse of a written stream
    NfaThresh, NfaPeriod,
    Gme,            \* thresholds fm, mfm0, mfm1, mfm2 and mfmshort
    ChunkSizes,     \* how many bytes may arrive at once
    Cases           \* a set of records: the track with its tracklen, dmk2gw's
                    \* eti, the simulator's options and mult, gw2dmk's options o,
                    \* the sectors on the track, and the angles reading may begin at

ASSUME RoundTripAssumption ==
    /\ {Hdr, MaxIdams, Sec128, Sec16} \cup ChunkSizes \subseteq Nat \ {0}
    /\ {Gap1Plus, WrapMin, WriteSplice, MfmGap3z, FmGap3z} \subseteq Nat

VARIABLES
    this,     \* one of the Cases
    leg,      \* "write": dmk2gw to the medium; "read": the medium to gw2dmk
    pc,       \* "clean", "encode", "fill", "store", "spin", "skip", "walk", "send", "decode" or
              \* "done"
    s, e, at, \* dmk2pulses(): its cleaned bytes, its encoder and datap
    w,        \* the pulses of the track, and wrstream_pulses()
    f,        \* the decoder
    medium,   \* the track in the simulator's image
    walk,     \* sim_flux_stream(): its position and the angle it began at
    walked,   \* the transitions and index pulses it passed
    stream,   \* the bytes it sent
    sent,     \* how many of them have arrived in fbuf
    g, seen   \* gw_decode_stream(): its state and the last event it reported

vars == <<this, leg, pc, s, e, at, w, f, medium, walk, walked, stream, sent, g, seen>>

E == INSTANCE TrackEncoder
D == INSTANCE BitDecoder WITH
    CrcStart <- 65535, CrcAfterA1 <- 52660,
    CrcNext <- LAMBDA crc, b : CalcCrc1(crc, b.v),
    CrcIsZero <- LAMBDA crc : crc = 0

Track == IF leg = "write" THEN this.track ELSE medium
Eti   == IF leg = "write" THEN this.eti ELSE this.sim_eti
TrackLen == IF leg = "write" THEN this.tracklen ELSE this.sim_o.tracklen

NoWalk == [phase |-> 0, base |-> 0, cum |-> 0, j |-> 1, last |-> 0, next_index |-> 0, idx |-> 0]

Begin(o) == D!NewBits(D!NewDecoder(o, o.first_encoding, FALSE))

Init ==
    /\ this \in Cases /\ leg = "write" /\ pc = "clean"
    /\ s = E!NewClean(this.track) /\ e = E!NewEncoder /\ at = Hdr
    /\ w = NewWrite /\ medium = [idams |-> <<>>, data |-> <<>>]
    /\ f = Begin(this.sim_o)
    /\ walk = NoWalk /\ walked = <<>> /\ stream = <<>> /\ sent = 0
    /\ g = NewStream /\ seen = [n |-> 0, kind |-> "none", ticks |-> 0]

-----------------------------------------------------------------------------
(* dmk2pulses(), in dmk2gw and in the simulator.                           *)

\* encode_t2gw() and wrstream_pulses(); the simulator's collect_pulse() and
\* sim_pulses_total().
Pulse(w0, ticks) ==
    IF leg = "read" THEN [w0 EXCEPT !.flux = Append(@, ticks), !.ticks = @ + ticks]
    ELSE WritePulse(w0, EncodeTicks(ticks, NfaThresh, NfaPeriod))

Pulses(w0, ticks) ==
    LET upto[n \in 0 .. Len(ticks)] ==
            IF n = 0 THEN w0
            ELSE CHOOSE x \in {Pulse(before, ticks[n]) : before \in {upto[n - 1]}} : TRUE
    IN upto[Len(ticks)]

Emit(e1) == w' = Pulses(w, e1.out) /\ e' = [e1 EXCEPT !.out = <<>>]

Clean ==
    /\ pc = "clean"
    /\ IF s.datap < TrackLen
       THEN /\ s' = E!CleanByte(s, Track, Eti)
            /\ UNCHANGED <<pc, at>>
       ELSE /\ pc' = "encode" /\ at' = E!EncodeStart(s, Eti)
            /\ UNCHANGED s
    /\ UNCHANGED <<this, leg, e, w, f, medium, walk, walked, stream, sent, g, seen>>

Encode ==
    /\ pc = "encode"
    /\ IF at < TrackLen
       THEN /\ \E e1 \in {E!EncodeByte(e, s, at, Eti)} : Emit(e1)
            /\ at' = at + 1 /\ UNCHANGED pc
       ELSE pc' = "fill" /\ UNCHANGED <<e, w, at>>
    /\ UNCHANGED <<this, leg, s, f, medium, walk, walked, stream, sent, g, seen>>

Fill ==
    /\ pc = "fill" /\ E!FillsBytes(Eti) /\ at < Eti.fill_len
    /\ \E e1 \in {E!FillByte(e, s, Eti)} : Emit(e1)
    /\ at' = at + E!FillStep(s, Eti)
    /\ UNCHANGED <<this, leg, pc, s, f, medium, walk, walked, stream, sent, g, seen>>

\* The end of the stream: write_track() adds the dummy pulse.
FillEnds ==
    /\ pc = "fill" /\ (E!FillsBytes(Eti) => at >= Eti.fill_len)
    /\ \E e1 \in {E!FillEnd(e, at, Eti)} :
          w' = Pulses(w, IF leg = "write" THEN Append(e1.out, Dummy) ELSE e1.out)
    /\ e' = E!NewEncoder /\ at' = 1
    /\ IF leg = "write"
       THEN pc' = "store" /\ f' = [Begin(this.sim_o) EXCEPT !.d = D!DecodeIndex(this.sim_o, @)]
       ELSE pc' = "spin" /\ f' = Begin(this.o)
    /\ UNCHANGED <<this, leg, s, medium, walk, walked, stream, sent, g, seen>>

-----------------------------------------------------------------------------
(* dmk_track_from_pulses(): the medium.                                    *)

StorePulse ==
    /\ pc = "store" /\ at <= Len(w.flux) /\ ~f.d.full
    /\ f' = D!DecodePulse(this.sim_o, f, w.flux[at], Gme)
    /\ at' = at + 1
    /\ UNCHANGED <<this, leg, pc, s, e, w, medium, walk, walked, stream, sent, g, seen>>

\* The rest of a track's bytes are zeros.
Stored(d) ==
    [ idams |-> d.idams,
      data  |-> [i \in 1 .. this.sim_o.tracklen - Hdr |-> IF i \in DOMAIN d.data THEN d.data[i] ELSE 0] ]

StoreEnds ==
    /\ pc = "store" /\ (at > Len(w.flux) \/ f.d.full)
    /\ \E last \in {D!Flush(this.sim_o,
                       [f EXCEPT !.d = D!DecodeIndex(this.sim_o, @)])} :
          /\ medium' = Stored(last.d)
          /\ s' = E!NewClean(Stored(last.d))
    /\ leg' = "read" /\ pc' = "clean" /\ w' = NewWrite /\ f' = Begin(this.o)
    /\ UNCHANGED <<this, e, at, walk, walked, stream, sent, g, seen>>

-----------------------------------------------------------------------------
(* sim_flux_stream(): from an angle on to the second index pulse.          *)

\* At first, transitions at or before the angle are skipped.
Spin ==
    /\ pc = "spin" /\ w.flux # <<>>
    /\ \E eighth \in this.eighths :
          LET phase == (eighth * w.ticks) \div 8
          IN walk' = [NoWalk EXCEPT !.phase = phase, !.last = phase, !.next_index = w.ticks]
    /\ pc' = "skip"
    /\ UNCHANGED <<this, leg, s, e, at, w, f, medium, walked, stream, sent, g, seen>>

Skip ==
    /\ pc = "skip"
    /\ IF walk.j <= Len(w.flux) /\ walk.cum + w.flux[walk.j] <= walk.phase
       THEN /\ walk' = [walk EXCEPT !.cum = @ + w.flux[walk.j], !.j = @ + 1]
            /\ UNCHANGED pc
       ELSE pc' = "walk" /\ UNCHANGED walk
    /\ UNCHANGED <<this, leg, s, e, at, w, f, medium, walked, stream, sent, g, seen>>

Wrap(k) == IF k.j > Len(w.flux)
           THEN [k EXCEPT !.base = @ + w.ticks, !.cum = 0, !.j = 1] ELSE k

WalkIndex(k, t) ==
    /\ k.next_index <= t
    /\ walked' = Append(walked, [kind |-> "index", ticks |-> k.next_index - k.phase])
    /\ walk' = [k EXCEPT !.idx = @ + 1, !.next_index = @ + w.ticks]
    /\ stream' = stream \o SbufIndex(k.next_index - k.last)
                 \o IF k.idx + 1 = 2 THEN <<0>> ELSE <<>>
    /\ pc' = IF k.idx + 1 = 2 THEN "send" ELSE pc

WalkTransition(k, t) ==
    /\ k.next_index > t
    /\ walked' = IF t > k.last THEN Append(walked, [kind |-> "pulse", ticks |-> t - k.last])
                 ELSE walked
    /\ walk' = [k EXCEPT !.last = t, !.cum = @ + w.flux[k.j], !.j = @ + 1]
    /\ stream' = stream \o SbufPulse(t - k.last)
    /\ UNCHANGED pc

Walk ==
    /\ pc = "walk"
    /\ \E k \in {Wrap(walk)} :
          LET t == k.base + k.cum + w.flux[k.j]
          IN WalkIndex(k, t) \/ WalkTransition(k, t)
    /\ UNCHANGED <<this, leg, s, e, at, w, f, medium, sent, g, seen>>

-----------------------------------------------------------------------------
(* gw2dmk: gw_read_stream() takes what has arrived until a chunk ends with *)
(* a zero, then gw_decode_stream() goes through it.                        *)

Receive ==
    /\ pc = "send"
    /\ \E n \in ChunkSizes :
          LET m == Min({sent + n, Len(stream)})
          IN sent' = m /\ pc' = IF stream[m] = 0 THEN "decode" ELSE pc
    /\ at' = 1
    /\ UNCHANGED <<this, leg, s, e, w, f, medium, walk, walked, stream, g, seen>>

\* What has arrived and is not decoded, one code of it.
Ahead == SubSeq(stream, at, Min({at + 5, sent}))

Report(c) ==
    IF c.kind \in {"pulse", "index"}
    THEN [n |-> seen.n + 1, kind |-> c.kind, ticks |-> c.ticks] ELSE seen

DecodeEvent(c) ==
    CASE c.kind = "pulse" -> D!DecodePulse(this.o, f, c.ticks, Gme)
      [] c.kind = "index" -> [f EXCEPT !.d = D!DecodeIndex(this.o, @)]
      [] OTHER            -> f

Ends(buf) == ~Complete(buf) \/ DecodeCode(g, buf).kind \in {"end", "error"}

DecodeStream ==
    /\ pc = "decode" /\ ~f.d.full /\ ~Ends(Ahead)
    /\ LET c == DecodeCode(g, Ahead)
       IN f' = DecodeEvent(c) /\ seen' = Report(c) /\ g' = c.next
    /\ at' = at + CodeLen(Ahead)
    /\ UNCHANGED <<this, leg, pc, s, e, w, medium, walk, walked, stream, sent>>

\* The track goes into the image before gw_post_process_track() changes it.
DecodeEnds ==
    /\ pc = "decode" /\ (f.d.full \/ Ends(Ahead))
    /\ \E last \in {D!Flush(this.o, f)} :
          f' = [last EXCEPT !.d.errcount = @ + D!LateErrors(this.o, last.d)]
    /\ pc' = "done"
    /\ UNCHANGED <<this, leg, s, e, at, w, medium, walk, walked, stream, sent, g, seen>>

Next ==
    \/ Clean \/ Encode \/ Fill \/ FillEnds \/ StorePulse \/ StoreEnds
    \/ Spin \/ Skip \/ Walk \/ Receive \/ DecodeStream \/ DecodeEnds

Spec == Init /\ [][Next]_vars

-----------------------------------------------------------------------------
(* Properties.                                                             *)

\* Types; a stream's only zero is its last byte, which is what gw_read_stream() looks
\* for at the end of every chunk it takes.
TypeOK ==
    /\ f.cnt \in 0 .. 63 /\ f.mark_after \in -1 .. 64 /\ f.splice \in 0 .. WriteSplice
    /\ e.len \in 0 .. 5 /\ sent \in 0 .. Len(stream)
    /\ at = 1 /\ pc \in {"store", "spin"} => \A i \in DOMAIN w.flux : w.flux[i] > 0
    /\ pc = "send" /\ sent = 0 =>
          /\ Last(stream) = 0
          /\ \A i \in 1 .. Len(stream) - 1 : stream[i] \in 1 .. 255

BytesAt(track, off, n) == [i \in 1 .. n |-> D!Cell(track.data, off - Hdr + i)]

\* A sector is its ID and what follows the first byte behind it that looks like a
\* data address mark.
HoldsSector(track, entry, sector) ==
    LET after == {i \in entry.off - Hdr + 1 + Len(sector.id) .. Len(track.data) :
                     track.data[i] \in D!DamLike}
    IN /\ ~entry.bad
       /\ BytesAt(track, entry.off, Len(sector.id)) = sector.id
       /\ after # {}
       /\ BytesAt(track, Hdr - 1 + Min(after), Len(sector.data)) = sector.data

HoldsSectors(track) ==
    /\ Len(track.idams) = Len(this.sectors)
    /\ \A i \in DOMAIN track.idams :
          HoldsSector(track, track.idams[i], this.sectors[i])

\* What dmk2gw writes is on the medium: its sectors, in their order, none flagged
\* and no others.
WrittenOnMedium == leg = "read" => HoldsSectors(medium)

\* What gw2dmk reads from the medium, from whatever angle, is what dmk2gw was given.
SectorsSurvive ==
    pc = "done" => /\ HoldsSectors(f.d)
                   /\ f.d.errcount = 0 /\ f.d.good = Len(this.sectors)

\* The gaps between sectors of one encoding, too: from the first ID to the end of the
\* last data the image holds byte by byte what dmk2pulses() has made of the medium's.
Between(track, data) ==
    LET from == track.idams[1].off - Hdr + 1
        last == Last(track.idams).off - Hdr + 1
        dam  == Min({i \in last + Len(Last(this.sectors).id) .. Len(data) : data[i] \in D!DamLike})
    IN SubSeq(data, from, dam + Len(Last(this.sectors).data) - 1)

OneEncoding ==
    /\ ~this.eti.rx02
    /\ \A i, j \in DOMAIN medium.idams : medium.idams[i].enc = medium.idams[j].enc

GapsSurvive ==
    pc = "done" /\ OneEncoding /\ HoldsSectors(f.d) =>
        Between(f.d, f.d.data) = Between(medium, s.data)

\* gw_decode_stream() reports the transitions and index pulses the drive has passed,
\* all of them up to where decoding stops, with the ticks between them, whichever
\* way the bytes arrived.
StreamExact ==
    /\ seen.n > 0 => walked[seen.n] = [kind |-> seen.kind, ticks |-> seen.ticks]
    /\ pc = "done" /\ ~f.d.full => seen.n = Len(walked)
=============================================================================
