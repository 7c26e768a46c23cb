----------------------------- MODULE FluxCodec -----------------------------
(***************************************************************************)
(* Flux streams: the codes in which Greaseweazle and host exchange the     *)
(* ticks between flux transitions, and the three readers and writers of    *)
(* them.                                                                   *)
(***************************************************************************)
EXTENDS Integers, Sequences, SequencesExt

OpIndex   == 1
OpSpace   == 2
OpAstable == 3

\* What the seven bits of each byte of a 28-bit number count.
Weight28 == <<1, 128, 16384, 2097152>>

\* Mutant: the seven bits without the odd one behind them.
Write28_EvenBytes(v) == [i \in 1 .. 4 |-> 2 * ((v \div Weight28[i]) % 128)]

\* gw_write_28(), gw_read_28(): seven bits in each of four odd bytes.
Write28(v) == [i \in 1 .. 4 |-> 2 * ((v \div Weight28[i]) % 128) + 1]
Read28(p)  == (p[1] \div 2) + 128 * (p[2] \div 2) + 16384 * (p[3] \div 2)
              + 2097152 * (p[4] \div 2)

Op(op, v) == <<255, op>> \o Write28(v)

Direct(ticks)  == <<ticks>>
TwoByte(ticks) == <<250 + (ticks - 250) \div 255, 1 + ((ticks - 250) % 255)>>
Long(ticks)    == Op(OpSpace, ticks - 249) \o <<249>>

\* encode_ticks().  An area without flux is more than nfa_thresh; its second opcode has
\* no 255 before it, so that whoever reads the stream takes it for five short pulses.
EncodeTicks(ticks, nfa_thresh, nfa_period) ==
    CASE ticks < 250 -> Direct(ticks)
      [] ticks >= 250 /\ ticks > nfa_thresh -> Op(OpSpace, ticks) \o <<OpAstable>> \o Write28(nfa_period)
      [] OTHER -> IF (ticks - 250) \div 255 < 5 THEN TwoByte(ticks) ELSE Long(ticks)

\* sbuf_pulse(), sbuf_index() of the simulator, for the firmware's streams.
SbufPulse(ticks) ==
    CASE ticks = 0               -> <<>>
      [] ticks \in 1 .. 249      -> Direct(ticks)
      [] ticks \in 250 .. 1524   -> TwoByte(ticks)
      [] OTHER                   -> Long(ticks)
SbufIndex(ticks_to_index) == Op(OpIndex, ticks_to_index)

-----------------------------------------------------------------------------
(* gw_decode_stream(): one turn of its loop.                               *)

\* Bytes that the code at the head of a buffer takes.
CodeLen(buf) ==
    CASE buf[1] = 255       -> 6
      [] buf[1] < 250       -> 1
      [] buf[1] \in 250 .. 254 -> 2

Complete(buf) == buf # <<>> /\ Len(buf) >= CodeLen(buf)

\* Mutant: the second byte counts from 0.
CodeTicks_FromOne(buf) ==
    IF buf[1] < 250 THEN buf[1]
    ELSE 250 + (buf[1] - 250) * 255 + buf[2]

CodeTicks(buf) == IF buf[1] < 250 THEN buf[1]
                  ELSE 250 + (buf[1] - 250) * 255 + buf[2] - 1

NewStream == [ticks |-> 0, last |-> 0]

\* What the code at the head says: its kind, its ticks, and the stream after it.
DecodeCode(g, buf) ==
    LET v == Read28(SubSeq(buf, 3, 6))
    IN CASE buf[1] = 0 -> [kind |-> "end", ticks |-> 0, next |-> g]
         [] buf[1] = 255 /\ buf[2] = OpIndex ->
              [kind |-> "index", ticks |-> g.ticks + v, next |-> g]
         [] buf[1] = 255 /\ buf[2] = OpSpace ->
              [kind |-> "space", ticks |-> v, next |-> [g EXCEPT !.ticks = @ + v]]
         [] buf[1] = 255 /\ buf[2] \notin {OpIndex, OpSpace} ->
              [kind |-> "error", ticks |-> 0, next |-> g]
         [] OTHER ->
              LET t == g.ticks + CodeTicks(buf)
              IN [kind |-> "pulse", ticks |-> t - g.last, next |-> [ticks |-> t, last |-> t]]

-----------------------------------------------------------------------------
(* wrstream_pulses(): a written stream into the simulator's flux.          *)

NewWrite == [ticks |-> 0, last |-> 0, space_start |-> 0, pending |-> 0, flux |-> <<>>]

\* A transition, unless it falls on the one before.
Transition(w, t) ==
    [w EXCEPT !.flux = IF t > w.last THEN Append(@, t - w.last) ELSE @, !.last = t]

WriteCode(w, buf) ==
    LET v == Read28(SubSeq(buf, 3, 6))
        t == w.ticks + CodeTicks(buf)
        first == w.space_start + v
        n     == IF w.pending >= v THEN w.pending \div v ELSE 1
    IN CASE buf[1] = 255 /\ buf[2] = OpSpace ->
              [w EXCEPT !.space_start = IF w.pending = 0 THEN w.ticks ELSE @,
                        !.pending = @ + v, !.ticks = @ + v]
         [] buf[1] = 255 /\ buf[2] = OpAstable /\ v > 0 /\ w.pending > 0 ->
              LET w1 == Transition(w, first)
              IN [w1 EXCEPT !.flux = @ \o [i \in 1 .. n - 1 |-> v],
                            !.last = w.space_start + n * v, !.pending = 0]
         [] buf[1] = 255 /\ ~(buf[2] = OpSpace \/ (buf[2] = OpAstable /\ v > 0 /\ w.pending > 0)) -> w
         [] OTHER -> [Transition(w, t) EXCEPT !.ticks = t, !.pending = 0]

\* The bytes of a buffer, code by code.
Codes(buf) ==
    LET from[i \in 1 .. Len(buf) + 1] ==
            IF i > Len(buf) THEN <<>>
            ELSE LET n == CodeLen(SubSeq(buf, i, Len(buf)))
                 IN <<SubSeq(buf, i, i + n - 1)>> \o from[i + n]
    IN from[1]

\* What encode_ticks() has made of one pulse.
WritePulse(w, codes) == FoldLeft(WriteCode, w, Codes(codes))
=============================================================================
