----------------------------- MODULE ReplayLog -----------------------------
(***************************************************************************)
(* The log of -U: how gw.c's dumps write a transfer as lines, and how the  *)
(* parser of gwreplay.c makes of the lines one queue of flux streams for   *)
(* each position of the head.  A byte is a number, a line a record of its  *)
(* kind and its bytes.                                                     *)
(***************************************************************************)
EXTENDS Integers, Sequences, SequencesExt, FiniteSetsExt

CONSTANTS
    MaxTracks,   \* GW_MAX_TRACKS
    LineLen,     \* bytes on a line of the log (16)
    FrameMax,    \* the parser's room for a host frame (64)
    InfoLen      \* bytes of a GET_INFO payload (32)

ASSUME LogAssumption ==
    /\ MaxTracks \in Nat \ {0} /\ LineLen \in Nat \ {0}
    /\ FrameMax \in Nat /\ InfoLen \in Nat \ {0}

CMD_GET_INFO == 0
CMD_SEEK == 2
CMD_HEAD == 3
CMD_READ_FLUX == 7
CMD_GET_FLUX_STATUS == 9

ACK_OKAY == 0
ACK_BAD_COMMAND == 1
ACK_NO_INDEX == 2
ACK_NO_TRK0 == 3
ACK_FLUX_OVERFLOW == 4
ACK_NO_UNIT == 7
ACK_BAD_CYLINDER == 11

GETINFO_FIRMWARE == 0

Nothing == <<>>
NoAnswer == -1
Unknown == -1

-----------------------------------------------------------------------------
(* The log *)

Dump(dir, bytes) ==
    [i \in 1 .. (Len(bytes) + LineLen - 1) \div LineLen |->
        [kind |-> IF i = 1 THEN dir ELSE "cont",
         bytes |-> SubSeq(bytes, (i - 1) * LineLen + 1, Min({i * LineLen, Len(bytes)}))]]

Junk == [kind |-> "junk", bytes |-> Nothing]

\* What is left of a line that breaks off: some of its tokens, or a prefix or a
\* last token that hex_line() and the test of prefixes make nothing of.
Stumps(l) ==
    {Junk} \cup {[l EXCEPT !.bytes = SubSeq(@, 1, k)] :
                    k \in (IF l.kind = "cont" THEN 1 ELSE 0) .. Len(l.bytes) - 1}

-----------------------------------------------------------------------------
(* The parser *)

NewParse ==
    [inHost |-> FALSE, hbuf |-> Nothing, cyl |-> 0, head |-> 0,
     pcmd |-> Nothing, pcyl |-> 0, phead |-> 0, dbuf |-> Nothing,
     last |-> Nothing, info |-> Nothing, warnings |-> 0,
     fifo |-> [pos \in (0 .. MaxTracks - 1) \X {0, 1} |-> Nothing]]

Warn(p) == [p EXCEPT !.warnings = @ + 1]

WarnIf(p, loss) == IF loss THEN Warn(p) ELSE p

Body(p) == SubSeq(p.dbuf, 3, Len(p.dbuf))

Terminated(bytes) == \E i \in DOMAIN bytes : bytes[i] = 0

\* Mutant: no end is added.
Stream_NoEnd(bytes) ==
    IF Terminated(bytes)
    THEN SubSeq(bytes, 1, Min({i \in DOMAIN bytes : bytes[i] = 0}))
    ELSE bytes

\* A stream ends with its first zero; one that was cut short is given one.
Stream(bytes) ==
    IF Terminated(bytes)
    THEN SubSeq(bytes, 1, Min({i \in DOMAIN bytes : bytes[i] = 0}))
    ELSE Append(bytes, 0)

\* Mutant: the stream that a status is for stays the first one.
FluxAppend_KeepsLast(p, stream) ==
    LET pos == <<p.pcyl, p.phead>>
    IN [p EXCEPT !.fifo[pos] = Append(@, [data |-> stream, status |-> ACK_OKAY]),
                 !.last = IF @ = Nothing THEN <<pos, Len(p.fifo[pos]) + 1>> ELSE @]

FluxAppend(p, stream) ==
    LET pos == <<p.pcyl, p.phead>>
    IN [p EXCEPT !.fifo[pos] = Append(@, [data |-> stream, status |-> ACK_OKAY]),
                 !.last = <<pos, Len(p.fifo[pos]) + 1>>]

\* Mutant: a stream without an end is stored without a warning.
ReadResolved_Silent(p) ==
    LET stream == Stream(Body(p))
    IN WarnIf(IF Len(stream) > 1 THEN FluxAppend(p, stream) ELSE p,
              Len(Body(p)) > Len(stream))

ReadResolved(p) ==
    LET stream == Stream(Body(p))
        q == WarnIf(p, ~Terminated(Body(p)))
    IN WarnIf(IF Len(stream) > 1 THEN FluxAppend(q, stream) ELSE q,
              Len(Body(p)) > Len(stream))

StatusResolved(p) ==
    WarnIf(IF p.last # Nothing
           THEN [p EXCEPT !.fifo[p.last[1]][p.last[2]].status = p.dbuf[2]]
           ELSE p,
           Body(p) # Nothing)

InfoResolved(p) ==
    IF p.pcmd[3] = GETINFO_FIRMWARE /\ Len(Body(p)) >= InfoLen
    THEN WarnIf(IF p.info = Nothing THEN [p EXCEPT !.info = SubSeq(Body(p), 1, InfoLen)]
                                    ELSE p,
                Len(Body(p)) > InfoLen)
    ELSE p

Resolved(p) ==
    LET okay == p.dbuf[2] = ACK_OKAY
    IN IF p.pcmd = Nothing THEN WarnIf(p, p.dbuf # Nothing)
       ELSE IF Len(p.dbuf) < 2 \/ p.dbuf[1] # p.pcmd[1] THEN Warn(p)
       ELSE CASE p.pcmd[1] = CMD_GET_INFO /\ okay  -> InfoResolved(p)
              [] p.pcmd[1] = CMD_READ_FLUX /\ okay -> ReadResolved(p)
              [] p.pcmd[1] = CMD_GET_FLUX_STATUS   -> StatusResolved(p)
              [] OTHER                             -> WarnIf(p, Body(p) # Nothing)

ResolvePending(p) == [Resolved(p) EXCEPT !.pcmd = Nothing, !.dbuf = Nothing]

\* The drive's position is taken from the commands, not from their answers.
Tracked(p, frame) ==
    CASE frame[1] = CMD_SEEK /\ frame[3] < MaxTracks  -> [p EXCEPT !.cyl = frame[3]]
      [] frame[1] = CMD_SEEK /\ frame[3] >= MaxTracks -> Warn(p)
      [] frame[1] = CMD_HEAD                           -> [p EXCEPT !.head = frame[3] % 2]
      [] OTHER                                         -> p

HostFrame(p, frame) ==
    LET q == ResolvePending(p)
        t == Tracked(q, frame)
    IN IF Len(frame) < 2 \/ Len(frame) > FrameMax \/ frame[2] # Len(frame)
       THEN Warn(q)
       ELSE [t EXCEPT !.pcmd = frame, !.pcyl = t.cyl, !.phead = t.head]

\* A line that starts a transfer ends the host frame before it.
FrameEnds(p) ==
    IF p.inHost THEN [HostFrame(p, p.hbuf) EXCEPT !.inHost = FALSE, !.hbuf = Nothing] ELSE p

TakeLine(p, l) ==
    LET q == IF l.kind = "cont" THEN p ELSE FrameEnds(p)
    IN CASE l.kind = "junk" -> Warn(p)
         [] l.kind = "host" \/ (l.kind = "cont" /\ q.inHost) ->
                WarnIf([q EXCEPT !.hbuf = @ \o l.bytes, !.inHost = TRUE],
                       Len(q.hbuf) + Len(l.bytes) > FrameMax)
         [] OTHER -> [q EXCEPT !.dbuf = @ \o l.bytes]

TakeLines(p, lines) ==
    LET upto[k \in 0 .. Len(lines)] ==
            IF k = 0 THEN p ELSE TakeLine(upto[k - 1], lines[k])
    IN upto[Len(lines)]

TakeEof(p) == ResolvePending(FrameEnds(p))

=============================================================================
