------------------------------- MODULE GwSim -------------------------------
(***************************************************************************)
(* The device at the far end of the serial line, as gwsim implements it:   *)
(* the protocol engine of simproto.c that collects commands and write      *)
(* streams byte by byte, the state of the Greaseweazle (simgw.c) and of    *)
(* one drive (simdrive.c) with a diskette in it.                           *)
(*                                                                         *)
(* The line is two queues of bytes.  What the simulator leaves out and the *)
(* host handles is added from the host's code: a flux stream that arrives  *)
(* too slowly for the turning disk.                                        *)
(***************************************************************************)
EXTENDS Integers, Sequences

CONSTANTS
    Bus, Unit,     \* bus and unit number of the drive
    DriveTracks,   \* its head positions; it has two heads
    Media,         \* what may be in it, a subset of MediaType
    Underruns      \* may a write run out of flux?

MaxFrame   == 64     \* bytes of sp->cbuf
MaxCyl     == 88     \* GW_MAX_TRACKS
NoUnit     == -1
MediaType  == {"none", "writable", "protected"}
Damaged    == <<0>>  \* surface after an aborted write
DiskPlaces == (0 .. DriveTracks - 1) \X {0, 1}

CMD == [ GET_INFO |-> 0, SEEK |-> 2, HEAD |-> 3, SET_PARAMS |-> 4, GET_PARAMS |-> 5,
         MOTOR |-> 6, READ_FLUX |-> 7,
         WRITE_FLUX |-> 8, GET_FLUX_STATUS |-> 9, SELECT |-> 12, DESELECT |-> 13,
         SET_BUS_TYPE |-> 14, SET_PIN |-> 15, RESET |-> 16 ]

ACK == [ OKAY |-> 0, BAD_COMMAND |-> 1, NO_INDEX |-> 2, NO_TRK0 |-> 3,
         FLUX_UNDERFLOW |-> 5, WRPROT |-> 6, NO_UNIT |-> 7, NO_BUS |-> 8,
         BAD_UNIT |-> 9, BAD_PIN |-> 10, BAD_CYLINDER |-> 11 ]

BUS == [ NONE |-> 0, IBMPC |-> 1, SHUGART |-> 2 ]

\* sim_bus_max_units()
MaxUnits(bus) == IF bus = BUS.IBMPC THEN 2 ELSE IF bus = BUS.SHUGART THEN 3 ELSE 0

ASSUME GwSimAssumption ==
    /\ Bus \in {BUS.IBMPC, BUS.SHUGART}
    /\ Unit \in 0 .. MaxUnits(Bus) - 1
    /\ DriveTracks \in 1 .. MaxCyl
    /\ Media \subseteq MediaType /\ Underruns \in BOOLEAN

VARIABLES
    toDevice, toHost,   \* bytes on the line
    sp,                 \* struct sim_proto: state, cbuf, wbuf, wr_ok
    gw,                 \* struct sim_gw and the drive: bus, sel_unit, head,
                        \* flux_status, cyl, motor_on
    media,              \* the diskette in the drive
    disk                \* what is recorded at each place of it

simVars == <<toDevice, toHost, sp, gw, media, disk>>

PowerOn == [bus |-> BUS.NONE, sel_unit |-> NoUnit, head |-> 0,
            flux_status |-> ACK.OKAY, cyl |-> 0, motor_on |-> FALSE]

SimInit ==
    /\ toDevice = <<>> /\ toHost = <<>>
    /\ sp = [state |-> "CMD", cbuf |-> <<>>, wbuf |-> <<>>, wr_ok |-> FALSE]
    /\ gw = PowerOn
    /\ media \in Media
    /\ disk = [p \in DiskPlaces |-> <<>>]

-----------------------------------------------------------------------------
(* sim_proto_input(): framing.                                             *)

Frame == Append(sp.cbuf, Head(toDevice))

FrameByte == sp.state = "CMD" /\ toDevice # <<>> /\ toDevice' = Tail(toDevice)

LengthKnown   == Len(Frame) >= 2
LengthValid   == LengthKnown /\ Frame[2] \in 2 .. MaxFrame
FrameComplete == LengthValid /\ Len(Frame) = Frame[2]

Reply(ack) == toHost' = toHost \o <<Frame[1], ack>>

Collect ==
    /\ FrameByte
    /\ ~LengthKnown \/ (LengthValid /\ ~FrameComplete)
    /\ sp' = [sp EXCEPT !.cbuf = Frame]
    /\ UNCHANGED <<toHost, gw, media, disk>>

\* A length or a code no command has: answer and start a new frame.
BadFrame ==
    /\ FrameByte
    /\ LengthKnown
    /\ ~LengthValid \/ (FrameComplete /\ Frame[1] \notin { CMD[c] : c \in DOMAIN CMD })
    /\ Reply(ACK.BAD_COMMAND)
    /\ sp' = [sp EXCEPT !.cbuf = <<>>]
    /\ UNCHANGED <<gw, media, disk>>

\* The byte that completes a command with this code.
Dispatch(code) == FrameByte /\ FrameComplete /\ Frame[1] = code

Byte == 0 .. 255

\* Handlers read their arguments without a look at the length of the frame:
\* past its end cbuf holds what an earlier frame has left, here any byte.
Argument(i) == IF i <= Len(Frame) THEN {Frame[i]} ELSE Byte

NextFrame == sp' = [sp EXCEPT !.cbuf = <<>>] /\ UNCHANGED <<media, disk>>

Selected == gw.sel_unit = Unit
Spinning == Selected /\ media # "none" /\ gw.motor_on

-----------------------------------------------------------------------------
(* dispatch(): the commands.  The delay parameters, and with them          *)
(* SET_PARAMS and GET_PARAMS, are left out: no host here sends those two.  *)

\* The firmware block of 32 bytes is one element here.
DoGetInfo ==
    /\ Dispatch(CMD.GET_INFO)
    /\ \E kind \in Argument(3) :
         IF kind \in {0, 1}
           THEN toHost' = toHost \o <<CMD.GET_INFO, ACK.OKAY, 1>>
           ELSE Reply(ACK.BAD_COMMAND)
    /\ NextFrame /\ UNCHANGED gw

SeekAck(cyl) ==
    IF gw.sel_unit = NoUnit THEN ACK.NO_UNIT
    ELSE IF cyl >= MaxCyl THEN ACK.BAD_CYLINDER
    ELSE IF ~Selected THEN ACK.NO_TRK0
    ELSE ACK.OKAY

\* The heads stop at the last position.
DoSeek ==
    /\ Dispatch(CMD.SEEK)
    /\ \E cyl \in Argument(3) :
         /\ Reply(SeekAck(cyl))
         /\ gw' = IF SeekAck(cyl) = ACK.OKAY
                    THEN [gw EXCEPT !.cyl = IF cyl < DriveTracks
                                              THEN cyl ELSE DriveTracks - 1]
                    ELSE gw
    /\ NextFrame

DoHead ==
    /\ Dispatch(CMD.HEAD)
    /\ \E head \in Argument(3) :
         IF head > 1
           THEN Reply(ACK.BAD_COMMAND) /\ UNCHANGED gw
           ELSE Reply(ACK.OKAY) /\ gw' = [gw EXCEPT !.head = head]
    /\ NextFrame

UnitAck(unit) ==
    IF gw.bus = BUS.NONE THEN ACK.NO_BUS
    ELSE IF unit >= MaxUnits(gw.bus) THEN ACK.BAD_UNIT
    ELSE ACK.OKAY

DoMotor ==
    /\ Dispatch(CMD.MOTOR)
    /\ \E unit \in Argument(3), on \in Argument(4) :
         /\ Reply(UnitAck(unit))
         /\ gw' = IF UnitAck(unit) = ACK.OKAY /\ unit = Unit
                    THEN [gw EXCEPT !.motor_on = on # 0] ELSE gw
    /\ NextFrame

DoSelect ==
    /\ Dispatch(CMD.SELECT)
    /\ \E unit \in Argument(3) :
         /\ Reply(UnitAck(unit))
         /\ gw' = IF UnitAck(unit) = ACK.OKAY
                    THEN [gw EXCEPT !.sel_unit = unit] ELSE gw
    /\ NextFrame

DoDeselect ==
    /\ Dispatch(CMD.DESELECT)
    /\ Reply(ACK.OKAY)
    /\ gw' = [gw EXCEPT !.sel_unit = NoUnit]
    /\ NextFrame

DoSetBusType ==
    /\ Dispatch(CMD.SET_BUS_TYPE)
    /\ \E bus \in Argument(3) :
         IF bus \in {BUS.IBMPC, BUS.SHUGART}
           THEN Reply(ACK.OKAY) /\ gw' = [gw EXCEPT !.bus = bus]
           ELSE Reply(ACK.BAD_COMMAND) /\ UNCHANGED gw
    /\ NextFrame

DoSetPin ==
    /\ Dispatch(CMD.SET_PIN)
    /\ \E pin \in Argument(3) : Reply(IF pin = 2 THEN ACK.OKAY ELSE ACK.BAD_PIN)
    /\ NextFrame /\ UNCHANGED gw

\* The flux of a revolution is one byte and the terminating zero.
DoReadFlux ==
    /\ Dispatch(CMD.READ_FLUX)
    /\ IF gw.sel_unit = NoUnit
         THEN Reply(ACK.NO_UNIT) /\ UNCHANGED gw
         ELSE /\ toHost' = toHost \o <<CMD.READ_FLUX, ACK.OKAY>>
                             \o (IF Spinning THEN <<1, 0>> ELSE <<0>>)
              /\ gw' = [gw EXCEPT !.flux_status =
                          IF Spinning THEN ACK.OKAY ELSE ACK.NO_INDEX]
    /\ NextFrame

DoGetFluxStatus ==
    /\ Dispatch(CMD.GET_FLUX_STATUS)
    /\ Reply(gw.flux_status)
    /\ NextFrame /\ UNCHANGED gw

\* sim_gw_reset(): power-on state, but the heads stay where they are.
DoReset ==
    /\ Dispatch(CMD.RESET)
    /\ Reply(ACK.OKAY)
    /\ gw' = [PowerOn EXCEPT !.cyl = gw.cyl]
    /\ NextFrame

-----------------------------------------------------------------------------
(* The write stream.                                                       *)

WriteFluxAck ==
    IF gw.sel_unit = NoUnit THEN ACK.NO_UNIT
    ELSE IF Selected /\ media = "protected" THEN ACK.WRPROT
    ELSE ACK.OKAY

DoWriteFlux ==
    /\ Dispatch(CMD.WRITE_FLUX)
    /\ Reply(WriteFluxAck)
    /\ sp' = IF WriteFluxAck = ACK.OKAY
               THEN [state |-> "WRSTREAM", cbuf |-> <<>>, wbuf |-> <<>>,
                     wr_ok |-> Spinning]
               ELSE [sp EXCEPT !.cbuf = <<>>]
    /\ UNCHANGED <<gw, media, disk>>

StreamByte ==
    sp.state = "WRSTREAM" /\ toDevice # <<>> /\ toDevice' = Tail(toDevice)

StreamData ==
    /\ StreamByte
    /\ Head(toDevice) # 0
    /\ sp' = [sp EXCEPT !.wbuf = Append(@, Head(toDevice))]
    /\ UNCHANGED <<toHost, gw, media, disk>>

Here == <<gw.cyl, gw.head>>

StreamEnd ==
    /\ StreamByte
    /\ Head(toDevice) = 0
    /\ sp' = [sp EXCEPT !.state = "CMD"]
    /\ toHost' = Append(toHost, 0)
    /\ UNCHANGED media

\* wrstream_done(): record the track and answer the host's synchronization
\* read.
WriteDone ==
    /\ StreamEnd
    /\ gw' = [gw EXCEPT !.flux_status =
                IF sp.wr_ok /\ Selected THEN ACK.OKAY ELSE ACK.NO_INDEX]
    /\ disk' = IF sp.wr_ok /\ Selected /\ sp.wbuf # <<>>
                 THEN [disk EXCEPT ![Here] = sp.wbuf] ELSE disk

\* The firmware ran out of flux and stopped writing on the way, but has read
\* the stream to its end.
WriteUnderrun ==
    /\ Underruns
    /\ StreamEnd
    /\ sp.wr_ok /\ Selected
    /\ gw' = [gw EXCEPT !.flux_status = ACK.FLUX_UNDERFLOW]
    /\ disk' = [disk EXCEPT ![Here] = Damaged]

Device ==
    \/ Collect \/ BadFrame \/ DoGetInfo \/ DoSeek \/ DoHead \/ DoMotor
    \/ DoSelect \/ DoDeselect \/ DoSetBusType \/ DoSetPin \/ DoReadFlux
    \/ DoGetFluxStatus \/ DoReset \/ DoWriteFlux
    \/ StreamData \/ WriteDone \/ WriteUnderrun

-----------------------------------------------------------------------------

SpType == [state : {"CMD", "WRSTREAM"}, cbuf : Seq(Byte), wbuf : Seq(Byte),
           wr_ok : BOOLEAN]
GwType == [bus : {BUS.NONE, BUS.IBMPC, BUS.SHUGART}, sel_unit : {NoUnit} \cup 0 .. 2,
           head : {0, 1}, flux_status : Byte, cyl : 0 .. DriveTracks - 1,
           motor_on : BOOLEAN]

SimTypeOK ==
    /\ toDevice \in Seq(Byte) /\ toHost \in Seq(Byte)
    /\ sp \in SpType /\ Len(sp.cbuf) < MaxFrame
    /\ gw \in GwType /\ media \in MediaType
    /\ disk \in [DiskPlaces -> Seq(Byte)]
=============================================================================
