------------------------------- MODULE Replay -------------------------------
(***************************************************************************)
(* A capture and its replay.  A session with a device, track by track as   *)
(* collect_histo_from_track() and read_track() hold it, is written to the  *)
(* log of -U; gwreplay.c parses the log and answers the commands of a      *)
(* later run in the device's place.                                        *)
(*                                                                         *)
(* The parser looks at one line at a time and never ahead, so here it      *)
(* reads the log while it is written.  The capturing program may be killed *)
(* at any moment, in the middle of a line too; that the end of the log was *)
(* still in a buffer is the same as a kill before it was written.          *)
(***************************************************************************)
EXTENDS ReplayLog, FiniteSets

CONSTANTS
    Positions,   \* the <<cylinder, head>> pairs that programs visit
    MaxVisits,   \* bound: visits to a track while capturing
    MaxServes    \* bound: visits to a track while replaying

ASSUME PositionsAssumption ==
    /\ Positions \subseteq (0 .. MaxTracks - 1) \X {0, 1}
    /\ {MaxVisits, MaxServes} \subseteq Nat

VARIABLES
    phase,   \* "capture", "parsed", "replay" or "refused"
    pc,      \* what the capturing program does next
    target,  \* the position it visits
    out,     \* the transfer that is about to be dumped
    line,    \* bytes of the device that the host has not read
    dev,     \* the device: where its head really is, its flux status
    visits,  \* visits made (a bound)
    reads,   \* every READ_FLUX that the device accepted (history)
    intact,  \* the log holds the whole session and nothing else (history)
    ps,      \* struct parse_state and the gw_replay_log it fills
    rp,      \* struct gw_replay
    served   \* what the replaying program got for each read (history)

vars == <<phase, pc, target, out, line, dev, visits, reads, intact, ps, rp, served>>

-----------------------------------------------------------------------------
(* The responder.  log is what the parser has stored, gw_replay_log. *)

NewResponder == [cyl |-> 0, head |-> 0, flux_status |-> ACK_OKAY, outq |-> Nothing,
                 next |-> [pos \in Positions |-> 0]]

\* Mutant: the revolution without its end.
EmptyRev_NoEnd == <<255>>

\* Two index marks and no pulse, whatever bytes those are.
EmptyRev == <<255, 0>>

Pushed(r, bytes) == [r EXCEPT !.outq = @ \o bytes]

DispatchSeek(r, frame) ==
    IF frame[3] >= MaxTracks THEN Pushed(r, <<CMD_SEEK, ACK_BAD_CYLINDER>>)
    ELSE [Pushed(r, <<CMD_SEEK, ACK_OKAY>>) EXCEPT !.cyl = frame[3]]

\* Mutant: with no stream left, the status of the last one stays.
DispatchRead_KeepsStatus(r, log) ==
    LET pos == <<r.cyl, r.head>>
        fifo == log[pos]
        ack == Pushed(r, <<CMD_READ_FLUX, ACK_OKAY>>)
    IN IF r.next[pos] < Len(fifo)
       THEN LET flux == fifo[r.next[pos] + 1]
            IN [Pushed(ack, flux.data) EXCEPT !.next[pos] = @ + 1, !.flux_status = flux.status]
       ELSE Pushed(ack, EmptyRev)

DispatchRead(r, log) ==
    LET pos == <<r.cyl, r.head>>
        fifo == log[pos]
        ack == Pushed(r, <<CMD_READ_FLUX, ACK_OKAY>>)
    IN IF r.next[pos] < Len(fifo)
       THEN LET flux == fifo[r.next[pos] + 1]
            IN [Pushed(ack, flux.data) EXCEPT !.next[pos] = @ + 1, !.flux_status = flux.status]
       ELSE [Pushed(ack, EmptyRev) EXCEPT !.flux_status = ACK_OKAY]

\* Commands acknowledged without effect: SET_PARAMS, MOTOR, SELECT, DESELECT,
\* SET_BUS_TYPE, SET_PIN and RESET.
Acknowledged == {4, 6, 12, 13, 14, 15, 16}

\* Frames once the device is set up: GET_INFO and GET_PARAMS, with answers that
\* never change, come before that.
Dispatch(r, log, frame) ==
    CASE frame[1] = CMD_SEEK -> DispatchSeek(r, frame)
      [] frame[1] = CMD_HEAD -> [Pushed(r, <<CMD_HEAD, ACK_OKAY>>) EXCEPT !.head = frame[3] % 2]
      [] frame[1] = CMD_READ_FLUX -> DispatchRead(r, log)
      [] frame[1] = CMD_GET_FLUX_STATUS -> Pushed(r, <<CMD_GET_FLUX_STATUS, r.flux_status>>)
      [] frame[1] \in Acknowledged -> Pushed(r, <<frame[1], ACK_OKAY>>)
      [] OTHER -> Pushed(r, <<frame[1], ACK_BAD_COMMAND>>)

-----------------------------------------------------------------------------
(* The capturing program and its device *)

NoTransfer == [dir |-> "none", bytes |-> Nothing]

Init ==
    /\ phase = "capture" /\ pc = "identify" /\ target = Nothing
    /\ out = NoTransfer /\ line = Nothing
    /\ dev = [cyl |-> 0, head |-> 0, status |-> ACK_OKAY]
    /\ visits = 0 /\ reads = Nothing /\ intact = TRUE
    /\ ps = NewParse /\ rp = NewResponder /\ served = Nothing

Capturing(at) == phase = "capture" /\ out = NoTransfer /\ pc = at

\* The host writes a frame, and the device answers at once.
Command(frame, answer, next) ==
    /\ out' = [dir |-> "host", bytes |-> frame]
    /\ line' = line \o answer
    /\ pc' = next

\* The host reads n bytes.
Read(n, next) ==
    /\ n \in 1 .. Len(line)
    /\ out' = [dir |-> "dev", bytes |-> SubSeq(line, 1, n)]
    /\ line' = SubSeq(line, n + 1, Len(line))
    /\ pc' = next

\* gw_do_command() reads an answer's two bytes: okay goes on at yes, a refusal at no,
\* and an answer to something else ends the program.
ReadAnswer(cmd, yes, no) ==
    Read(2, IF line[1] # cmd THEN "exit" ELSE IF line[2] = ACK_OKAY THEN yes ELSE no)

Replaying == <<rp, served>>

Identify ==
    /\ Capturing("identify")
    /\ Command(<<CMD_GET_INFO, 3, GETINFO_FIRMWARE>>,
               <<CMD_GET_INFO, ACK_OKAY>> \o [i \in 1 .. InfoLen |-> 1], "info_ack")
    /\ UNCHANGED <<phase, target, dev, visits, reads, intact, ps, Replaying>>

IdentifyAck ==
    /\ Capturing("info_ack")
    /\ ReadAnswer(CMD_GET_INFO, "info", "exit")
    /\ UNCHANGED <<phase, target, dev, visits, reads, intact, ps, Replaying>>

Info ==
    /\ Capturing("info")
    /\ Read(InfoLen, "track")
    /\ UNCHANGED <<phase, target, dev, visits, reads, intact, ps, Replaying>>

\* After a seek that fails the head may be anywhere.
Seek ==
    /\ Capturing("track") /\ visits < MaxVisits
    /\ visits' = visits + 1
    /\ \E pos \in Positions, ack \in {ACK_OKAY, ACK_NO_TRK0} :
          /\ target' = pos
          /\ dev' = [dev EXCEPT !.cyl = IF ack = ACK_OKAY THEN pos[1] ELSE Unknown]
          /\ Command(<<CMD_SEEK, 3, pos[1]>>, <<CMD_SEEK, ack>>, "seek_ack")
    /\ UNCHANGED <<phase, reads, intact, ps, Replaying>>

\* Mutant: the answer to a seek is not looked at.
SeekAck_Ignored ==
    /\ Capturing("seek_ack")
    /\ ReadAnswer(CMD_SEEK, "head", "head")
    /\ UNCHANGED <<phase, target, dev, visits, reads, intact, ps, Replaying>>

SeekAck ==
    /\ Capturing("seek_ack")
    /\ ReadAnswer(CMD_SEEK, "head", "track")
    /\ UNCHANGED <<phase, target, dev, visits, reads, intact, ps, Replaying>>

SelectHead ==
    /\ Capturing("head")
    /\ dev' = [dev EXCEPT !.head = target[2]]
    /\ Command(<<CMD_HEAD, 3, target[2]>>, <<CMD_HEAD, ACK_OKAY>>, "head_ack")
    /\ UNCHANGED <<phase, target, visits, reads, intact, ps, Replaying>>

HeadAck ==
    /\ Capturing("head_ack")
    /\ ReadAnswer(CMD_HEAD, "read", "track")
    /\ UNCHANGED <<phase, target, dev, visits, reads, intact, ps, Replaying>>

ReadFrame == <<CMD_READ_FLUX, 8, 0, 0, 0, 0, 2, 0>>

\* The longest command fits in the parser's room.
ASSUME RoomAssumption == Len(ReadFrame) <= FrameMax

\* Every read's flux is its own.  Without an index there is none.
Flux(n) == <<20 * n, 20 * n + 1, 20 * n + 2>>

ReadFlux ==
    /\ Capturing("read")
    /\ \/ /\ Command(ReadFrame, <<CMD_READ_FLUX, ACK_NO_UNIT>>, "read_ack")
          /\ UNCHANGED <<dev, reads>>
       \/ \E flux \in {Nothing, Flux(Len(reads) + 1)} :
          \E status \in IF flux = Nothing THEN {ACK_NO_INDEX}
                        ELSE {ACK_OKAY, ACK_FLUX_OVERFLOW} :
             /\ reads' = Append(reads, [pos |-> <<dev.cyl, dev.head>>, sent |-> Append(flux, 0),
                                        whole |-> FALSE, status |-> NoAnswer])
             /\ dev' = [dev EXCEPT !.status = status]
             /\ Command(ReadFrame, <<CMD_READ_FLUX, ACK_OKAY>> \o Append(flux, 0), "read_ack")
    /\ UNCHANGED <<phase, target, visits, intact, ps, Replaying>>

ReadFluxAck ==
    /\ Capturing("read_ack")
    /\ ReadAnswer(CMD_READ_FLUX, "first", "track")
    /\ UNCHANGED <<phase, target, dev, visits, reads, intact, ps, Replaying>>

\* gw_read_stream() waits for one byte, then takes the bytes that are waiting.
FirstByte ==
    /\ Capturing("first")
    /\ Read(1, IF line[1] = 0 THEN "status" ELSE "rest")
    /\ UNCHANGED <<phase, target, dev, visits, reads, intact, ps, Replaying>>

WaitingBytes ==
    /\ Capturing("rest")
    /\ \/ /\ pc' = "first" /\ UNCHANGED <<out, line>>
       \/ \E n \in 1 .. Len(line) : Read(n, IF line[n] = 0 THEN "status" ELSE "first")
    /\ UNCHANGED <<phase, target, dev, visits, reads, intact, ps, Replaying>>

\* A read() fails with the stream half read, and GET_FLUX_STATUS is sent all the same.
ReadFails ==
    /\ phase = "capture" /\ out = NoTransfer /\ pc \in {"first", "rest"}
    /\ pc' = "status" /\ intact' = FALSE
    /\ UNCHANGED <<phase, target, out, line, dev, visits, reads, ps, Replaying>>

GetFluxStatus ==
    /\ Capturing("status")
    /\ reads' = [reads EXCEPT ![Len(reads)].whole = (line = Nothing)]
    /\ Command(<<CMD_GET_FLUX_STATUS, 2>>, <<CMD_GET_FLUX_STATUS, dev.status>>, "status_ack")
    /\ UNCHANGED <<phase, target, dev, visits, intact, ps, Replaying>>

\* Whatever the status, another track follows: a wrong answer makes the read fail,
\* and the seek after it.
FluxStatusAck ==
    /\ Capturing("status_ack")
    /\ Read(2, "track")
    /\ UNCHANGED <<phase, target, dev, visits, reads, intact, ps, Replaying>>

-----------------------------------------------------------------------------
(* Writing the log *)

\* gw_write() dumps before it writes, gw_read() after it has read.
WriteLog ==
    /\ phase = "capture" /\ out # NoTransfer
    /\ ps' = TakeLines(ps, Dump(out.dir, out.bytes))
    /\ reads' = IF out.dir = "dev" /\ pc = "track" /\ out.bytes[1] = CMD_GET_FLUX_STATUS
                THEN [reads EXCEPT ![Len(reads)].status = out.bytes[2]]
                ELSE reads
    /\ out' = NoTransfer
    /\ UNCHANGED <<phase, pc, target, line, dev, visits, intact, Replaying>>

\* Something that is no transfer stands in the log.
WriteJunk ==
    /\ phase = "capture" /\ out = NoTransfer /\ intact
    /\ ps' = TakeLine(ps, Junk)
    /\ intact' = FALSE
    /\ UNCHANGED <<phase, pc, target, out, line, dev, visits, reads, Replaying>>

Exit ==
    /\ phase = "capture" /\ out = NoTransfer /\ pc \in {"track", "exit"}
    /\ ps' = TakeEof(ps)
    /\ phase' = "parsed"
    /\ UNCHANGED <<pc, target, out, line, dev, visits, reads, intact, Replaying>>

\* The program dies and the last transfer is written in part.
Killed ==
    /\ phase = "capture" /\ out # NoTransfer
    /\ LET lines == Dump(out.dir, out.bytes)
       IN \E n \in 1 .. Len(lines) : \E stump \in {Nothing} \cup {<<l>> : l \in Stumps(lines[n])} :
             ps' = TakeEof(TakeLines(ps, SubSeq(lines, 1, n - 1) \o stump))
    /\ intact' = FALSE
    /\ phase' = "parsed"
    /\ UNCHANGED <<pc, target, out, line, dev, visits, reads, Replaying>>

-----------------------------------------------------------------------------
(* The replaying program *)

Session == <<pc, target, out, line, dev, visits, reads, intact, ps>>

Streams == UNION {{<<pos, i>> : i \in DOMAIN ps.fifo[pos]} : pos \in DOMAIN ps.fifo}

\* gw_replay_start_parsed() wants the device's answer to GET_INFO and a stream.
Start ==
    /\ phase = "parsed"
    /\ phase' = IF ps.info = Nothing \/ Streams = {} THEN "refused" ELSE "replay"
    /\ rp' = NewResponder
    /\ UNCHANGED <<Session, served>>

\* One command: the answer's first two bytes are read, what follows stays queued.
Asked(r, log, frame) ==
    LET a == Dispatch(r, log, frame)
    IN [r |-> [a EXCEPT !.outq = SubSeq(@, 3, Len(@))], answer |-> SubSeq(a.outq, 1, 2)]

\* The stream is read up to a transfer that ends with a zero; all of it is waiting.
Drained(r) == [r EXCEPT !.outq = Nothing]

Served(r, log, pos) ==
    LET seek == Asked(r, log, <<CMD_SEEK, 3, pos[1]>>)
        head == Asked(seek.r, log, <<CMD_HEAD, 3, pos[2]>>)
        read == Asked(head.r, log, ReadFrame)
        flux == Asked(Drained(read.r), log, <<CMD_GET_FLUX_STATUS, 2>>)
    IN [r |-> flux.r,
        got |-> [pos |-> pos, data |-> read.r.outq, status |-> flux.answer[2],
                 inStep |-> /\ seek.answer = <<CMD_SEEK, ACK_OKAY>>
                            /\ head.answer = <<CMD_HEAD, ACK_OKAY>>
                            /\ read.answer = <<CMD_READ_FLUX, ACK_OKAY>>
                            /\ read.r.outq # Nothing
                            /\ read.r.outq[Len(read.r.outq)] = 0
                            /\ flux.answer[1] = CMD_GET_FLUX_STATUS
                            /\ flux.r.outq = Nothing]]

Visit ==
    /\ phase = "replay" /\ Len(served) < MaxServes
    /\ \E pos \in Positions : \E visit \in {Served(rp, ps.fifo, pos)} :
          /\ rp' = visit.r
          /\ served' = Append(served, visit.got)
    /\ UNCHANGED <<Session, phase>>

Next ==
    \/ Identify \/ IdentifyAck \/ Info \/ Seek \/ SeekAck \/ SelectHead \/ HeadAck
    \/ ReadFlux \/ ReadFluxAck \/ FirstByte \/ WaitingBytes \/ ReadFails
    \/ GetFluxStatus \/ FluxStatusAck
    \/ WriteLog \/ WriteJunk \/ Exit \/ Killed
    \/ Start \/ Visit

Spec == Init /\ [][Next]_vars

-----------------------------------------------------------------------------
(* Properties *)

Parsed == phase # "capture"

\* The reads at pos that gave flux, and the place of the read r among those of its track.
FluxReads(pos) == {r \in DOMAIN reads : reads[r].pos = pos /\ Len(reads[r].sent) > 1}
Nth(r) == Cardinality({q \in FluxReads(reads[r].pos) : q <= r})

\* Types, with the form of a stored stream: no zero but the last byte, which is one.
TypeOK ==
    /\ phase \in {"capture", "parsed", "replay", "refused"}
    /\ dev.cyl \in 0 .. MaxTracks - 1 \cup {Unknown} /\ dev.head \in {0, 1}
    /\ visits \in 0 .. MaxVisits /\ intact \in BOOLEAN
    /\ ps.cyl \in 0 .. MaxTracks - 1 /\ ps.head \in {0, 1} /\ ps.warnings \in Nat
    /\ \A s \in Streams :
          LET data == ps.fifo[s[1]][s[2]].data
          IN Len(data) > 1 /\ \A i \in DOMAIN data : (data[i] = 0) <=> (i = Len(data))
    /\ \A pos \in Positions : rp.next[pos] \in 0 .. Len(ps.fifo[pos])

\* The queue of a position holds the flux that the device read there and nothing else,
\* in order: a refused seek, a failed read, an empty one or a junk line shifts no
\* stream to another track or place.  Only the last read of a session that broke off
\* may be missing or cut short (gwreplay.c's positions, by the last seek and head seen).
StreamsInPlace ==
    Parsed =>
        \A pos \in DOMAIN ps.fifo :
            LET fifo == ps.fifo[pos]
            IN /\ Len(fifo) <= Cardinality(FluxReads(pos))
               /\ \A r \in FluxReads(pos) :
                     IF reads[r].whole
                     THEN Nth(r) <= Len(fifo) /\ fifo[Nth(r)].data = reads[r].sent
                     ELSE Nth(r) <= Len(fifo) =>
                             IsPrefix(Front(fifo[Nth(r)].data), reads[r].sent)

\* A stream is stored with the status that the host was given for it, or, since
\* GET_FLUX_STATUS is taken for the stream stored last, with that of a later read
\* between which and it no other read gave flux.
StatusKept ==
    Parsed =>
        \A pos \in DOMAIN ps.fifo : \A r \in FluxReads(pos) :
            LET fifo == ps.fifo[pos]
                later == {q \in r + 1 .. Len(reads) : Len(reads[q].sent) > 1}
                own == {q \in r .. Len(reads) :
                           (\A p \in later : q < p) /\ reads[q].status # NoAnswer}
            IN Nth(r) <= Len(fifo) =>
                  fifo[Nth(r)].status = IF own = {} THEN ACK_OKAY ELSE reads[Max(own)].status

\* A log that holds a whole session is parsed without a warning, and a stream that is
\* shorter than what the device sent has been warned about.
LossWarned ==
    Parsed =>
        /\ intact => ps.warnings = 0
        /\ (\E pos \in DOMAIN ps.fifo : \E r \in FluxReads(pos) :
               /\ Nth(r) <= Len(ps.fifo[pos])
               /\ ps.fifo[pos][Nth(r)].data # reads[r].sent) => ps.warnings > 0

\* A replayed read gets the next stream recorded at its track, with its status, and an
\* unformatted track once there is none left, whatever tracks are visited in between.
ReplaysCapture ==
    \A v \in DOMAIN served :
        LET fifo == ps.fifo[served[v].pos]
            nth == Cardinality({w \in 1 .. v : served[w].pos = served[v].pos})
        IN IF nth <= Len(fifo)
           THEN served[v].data = fifo[nth].data /\ served[v].status = fifo[nth].status
           ELSE served[v].data = EmptyRev /\ served[v].status = ACK_OKAY

\* Replaying host and responder stay in step: every answer is to the command before
\* it, every stream ends where the host stops reading, and nothing is left over.
InStep == \A v \in DOMAIN served : served[v].inStep

=============================================================================
