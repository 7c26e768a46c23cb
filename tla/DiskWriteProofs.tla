-------------------------- MODULE DiskWriteProofs --------------------------
(***************************************************************************)
(* Theorems about DiskWrite, for every image, drive, set of command lines  *)
(* and set of signals.                                                     *)
(***************************************************************************)
EXTENDS DiskWrite, SequenceTheorems, TLAPS

-----------------------------------------------------------------------------
(* The device: the types of its state, and how it collects a command byte  *)
(* by byte.                                                                *)

\* A frame being collected is shorter than its length byte says.
FrameInv ==
    Len(sp.cbuf) >= 2 => sp.cbuf[2] \in 2 .. MaxFrame /\ Len(sp.cbuf) < sp.cbuf[2]

\* The types of GwSim and the length of the frame being collected.
DeviceInv == SimTypeOK /\ FrameInv

USE DEF ACK, BUS, CMD

-----------------------------------------------------------------------------
(* Types.                                                                  *)

\* What the fields are, and what an update of one of them leaves.
LEMMA SpFields ==
    ASSUME NEW r \in SpType
    PROVE  /\ r.state \in {"CMD", "WRSTREAM"} /\ r.cbuf \in Seq(Byte)
           /\ r.wbuf \in Seq(Byte) /\ r.wr_ok \in BOOLEAN
BY Zenon DEF SpType

LEMMA SpCbuf ==
    ASSUME NEW r \in SpType, NEW c \in Seq(Byte), NEW q, q = [r EXCEPT !.cbuf = c]
    PROVE  /\ q \in SpType /\ q.cbuf = c
           /\ q.state = r.state /\ q.wbuf = r.wbuf /\ q.wr_ok = r.wr_ok
BY Zenon DEF SpType

LEMMA SpWbuf ==
    ASSUME NEW r \in SpType, NEW c \in Seq(Byte), NEW q, q = [r EXCEPT !.wbuf = c]
    PROVE  /\ q \in SpType /\ q.wbuf = c
           /\ q.state = r.state /\ q.cbuf = r.cbuf /\ q.wr_ok = r.wr_ok
BY Zenon DEF SpType

LEMMA SpState ==
    ASSUME NEW r \in SpType, NEW q, q = [r EXCEPT !.state = "CMD"]
    PROVE  /\ q \in SpType /\ q.state = "CMD"
           /\ q.cbuf = r.cbuf /\ q.wbuf = r.wbuf /\ q.wr_ok = r.wr_ok
BY Zenon DEF SpType

LEMMA SpOpen ==
    ASSUME NEW ok \in BOOLEAN,
           NEW q, q = [state |-> "WRSTREAM", cbuf |-> <<>>, wbuf |-> <<>>, wr_ok |-> ok]
    PROVE  /\ q \in SpType
           /\ q.state = "WRSTREAM" /\ q.cbuf = <<>> /\ q.wbuf = <<>> /\ q.wr_ok = ok
<1>1. <<>> \in Seq(Byte)
  OBVIOUS
<1> QED
  BY <1>1, Zenon DEF SpType

LEMMA GwFields ==
    ASSUME NEW r \in GwType
    PROVE  /\ r.bus \in {BUS.NONE, BUS.IBMPC, BUS.SHUGART} /\ r.sel_unit \in {NoUnit} \cup 0 .. 2 /\ r.head \in {0, 1}
           /\ r.flux_status \in Byte /\ r.cyl \in 0 .. DriveTracks - 1
           /\ r.motor_on \in BOOLEAN
BY Zenon DEF GwType

LEMMA GwBus ==
    ASSUME NEW r \in GwType, NEW v \in {BUS.NONE, BUS.IBMPC, BUS.SHUGART}, NEW q,
           q = [r EXCEPT !.bus = v]
    PROVE  q \in GwType /\ q.cyl = r.cyl /\ q.head = r.head /\ q.flux_status = r.flux_status
BY Zenon DEF GwType

LEMMA GwUnit ==
    ASSUME NEW r \in GwType, NEW v \in {NoUnit} \cup 0 .. 2, NEW q,
           q = [r EXCEPT !.sel_unit = v]
    PROVE  q \in GwType /\ q.cyl = r.cyl /\ q.head = r.head /\ q.flux_status = r.flux_status
BY Zenon DEF GwType

LEMMA GwHead ==
    ASSUME NEW r \in GwType, NEW v \in {0, 1}, NEW q, q = [r EXCEPT !.head = v]
    PROVE  q \in GwType /\ q.head = v /\ q.cyl = r.cyl /\ q.flux_status = r.flux_status
BY Zenon DEF GwType

LEMMA GwCyl ==
    ASSUME NEW r \in GwType, NEW v \in 0 .. DriveTracks - 1, NEW q, q = [r EXCEPT !.cyl = v]
    PROVE  q \in GwType /\ q.cyl = v /\ q.head = r.head /\ q.flux_status = r.flux_status
BY Zenon DEF GwType

LEMMA GwFlux ==
    ASSUME NEW r \in GwType, NEW v \in Byte, NEW q, q = [r EXCEPT !.flux_status = v]
    PROVE  q \in GwType /\ q.flux_status = v /\ q.cyl = r.cyl /\ q.head = r.head
BY Zenon DEF GwType

LEMMA GwMotor ==
    ASSUME NEW r \in GwType, NEW v \in BOOLEAN, NEW q, q = [r EXCEPT !.motor_on = v]
    PROVE  q \in GwType /\ q.cyl = r.cyl /\ q.head = r.head /\ q.flux_status = r.flux_status
BY Zenon DEF GwType

LEMMA GwPowerOn == PowerOn \in GwType
<1>1. /\ BUS.NONE \in {BUS.NONE, BUS.IBMPC, BUS.SHUGART} /\ NoUnit \in {NoUnit} \cup 0 .. 2 /\ 0 \in {0, 1}
      /\ ACK.OKAY \in Byte /\ 0 \in 0 .. DriveTracks - 1 /\ FALSE \in BOOLEAN
  BY GwSimAssumption DEF Byte
<1> QED
  BY <1>1, Zenon DEF PowerOn, GwType

\* The frame that the next byte makes.
LEMMA FrameFacts ==
    ASSUME DeviceInv, toDevice # <<>>
    PROVE  /\ Frame \in Seq(Byte)
           /\ Head(toDevice) = toDevice[1] /\ Head(toDevice) \in Byte
           /\ Tail(toDevice) \in Seq(Byte)
           /\ Len(Tail(toDevice)) = Len(toDevice) - 1
           /\ \A i \in 1 .. Len(toDevice) - 1 : Tail(toDevice)[i] = toDevice[i + 1]
           /\ Len(Frame) = Len(sp.cbuf) + 1
           /\ \A i \in 1 .. Len(sp.cbuf) : Frame[i] = sp.cbuf[i]
           /\ Frame[Len(sp.cbuf) + 1] = toDevice[1]
           /\ \A i \in 1 .. Len(Frame) : Frame[i] \in Byte
<1>1. toDevice \in Seq(Byte) /\ sp.cbuf \in Seq(Byte)
  BY SpFields DEF DeviceInv, SimTypeOK
<1>2. Head(toDevice) \in Byte /\ Head(toDevice) = toDevice[1]
  BY <1>1
<1>3. Frame \in Seq(Byte)
  BY <1>1, <1>2 DEF Frame
<1> QED
  BY <1>1, <1>2, <1>3 DEF Frame

\* An argument is a byte, whether the frame has it or not.
LEMMA ArgumentType ==
    ASSUME DeviceInv, toDevice # <<>>, NEW i \in 1 .. 4
    PROVE  Argument(i) \subseteq Byte
BY FrameFacts DEF Argument

\* An answer is bytes.
LEMMA ReplyType ==
    ASSUME DeviceInv, toDevice # <<>>, NEW ack \in Byte, Reply(ack)
    PROVE  toHost' \in Seq(Byte)
<1>1. Frame[1] \in Byte
  BY FrameFacts DEF DeviceInv, SimTypeOK
<1>2. <<Frame[1], ack>> \in Seq(Byte)
  BY <1>1
<1> QED
  BY <1>2 DEF Reply, DeviceInv, SimTypeOK

\* Every action of the device keeps the types: sim_proto_input().
LEMMA DeviceStep == DeviceInv /\ Device => DeviceInv'
<1> SUFFICES ASSUME DeviceInv, Device PROVE DeviceInv'
  OBVIOUS
<1>1. toDevice # <<>>
  BY SMTT(60) DEF Device, Collect, BadFrame, DoGetInfo, DoSeek, DoHead, DoMotor, DoSelect,
         DoDeselect, DoSetBusType, DoSetPin, DoReadFlux, DoGetFluxStatus, DoReset,
         DoWriteFlux, Dispatch, FrameByte, StreamData, WriteDone, WriteUnderrun,
         StreamEnd, StreamByte
<1>2. toDevice' = Tail(toDevice) /\ toDevice' \in Seq(Byte)
  BY <1>1, FrameFacts
     DEF Device, Collect, BadFrame, DoGetInfo, DoSeek, DoHead, DoMotor, DoSelect,
         DoDeselect, DoSetBusType, DoSetPin, DoReadFlux, DoGetFluxStatus, DoReset,
         DoWriteFlux, Dispatch, FrameByte, StreamData, WriteDone, WriteUnderrun,
         StreamEnd, StreamByte
<1>3. /\ toHost \in Seq(Byte) /\ media \in MediaType /\ sp \in SpType /\ gw \in GwType
      /\ Len(sp.cbuf) < MaxFrame /\ disk \in [DiskPlaces -> Seq(Byte)]
  BY DEF DeviceInv, SimTypeOK
<1> DEFINE Rest   == /\ toHost' \in Seq(Byte) /\ gw' \in GwType
                     /\ disk' \in [DiskPlaces -> Seq(Byte)] /\ media' = media
           Parser == sp' \in SpType /\ Len(sp'.cbuf) < MaxFrame /\ FrameInv'
<1>4. <<>> \in Seq(Byte) /\ sp.cbuf \in Seq(Byte) /\ sp.wbuf \in Seq(Byte)
  BY <1>3, SpFields
<1>5. ASSUME NextFrame PROVE Parser /\ disk' = disk /\ media' = media
  <2>1. sp' = [sp EXCEPT !.cbuf = <<>>] /\ disk' = disk /\ media' = media
    BY <1>5 DEF NextFrame
  <2>2. sp' \in SpType /\ sp'.cbuf = <<>>
    BY <1>3, <1>4, <2>1, SpCbuf, ZenonT(60)
  <2> QED
    BY <2>1, <2>2 DEF FrameInv, MaxFrame
<1>6. \A i \in 1 .. 4 : Argument(i) \subseteq Byte
  BY <1>1, ArgumentType
<1>7. \A ack \in Byte : Reply(ack) => toHost' \in Seq(Byte)
  BY <1>1, ReplyType
<1>8. \A ack \in 0 .. 255 : ack \in Byte
  BY DEF Byte
<1> HIDE DEF Rest, Parser
<1>9. ASSUME NextFrame, toHost' \in Seq(Byte), gw' \in GwType PROVE Rest /\ Parser
  BY <1>3, <1>5, <1>9 DEF Rest
<1> SUFFICES Rest /\ Parser
  BY <1>2, <1>3 DEF DeviceInv, SimTypeOK, Rest, Parser
<1>10. CASE Collect
  <2>1. sp' = [sp EXCEPT !.cbuf = Frame] /\ UNCHANGED <<toHost, gw, media, disk>>
    BY <1>10 DEF Collect
  <2>2. sp' \in SpType /\ sp'.cbuf = Frame
    BY <1>1, <1>3, <2>1, FrameFacts, SpCbuf
  <2>3. Len(Frame) >= 2 => Frame[2] \in 2 .. MaxFrame /\ Len(Frame) # Frame[2]
    BY <1>1, <1>10, FrameFacts DEF Collect, LengthKnown, LengthValid, FrameComplete
  <2>4. /\ Len(Frame) \in Nat /\ Len(Frame) = Len(sp.cbuf) + 1 /\ Len(sp.cbuf) \in Nat
        /\ Len(Frame) >= 3 => Frame[2] = sp.cbuf[2]
    BY <1>1, <1>4, FrameFacts
  <2>5. (Len(Frame) >= 2 => Len(Frame) < Frame[2]) /\ Len(Frame) < MaxFrame
    <3> DEFINE n == Len(Frame)
               k == Len(sp.cbuf)
               longer == Frame[2]
    <3>1. /\ n \in Nat /\ k \in Nat /\ n = k + 1
          /\ n >= 2 => longer \in 2 .. MaxFrame /\ n # longer
          /\ n >= 3 => k < longer
      BY <2>3, <2>4 DEF DeviceInv, FrameInv
    <3> HIDE DEF n, k, longer
    <3>2. (n >= 2 => n < longer) /\ n < MaxFrame
      BY <3>1 DEF MaxFrame
    <3> QED
      BY <3>2 DEF n, longer
  <2>6. FrameInv' /\ Len(sp'.cbuf) < MaxFrame
    BY <2>2, <2>3, <2>5 DEF FrameInv
  <2> QED
    BY <1>3, <2>1, <2>2, <2>6 DEF Rest, Parser
<1>11. CASE BadFrame
  <2>1. Reply(ACK.BAD_COMMAND) /\ NextFrame /\ gw' = gw
    BY <1>11 DEF BadFrame, NextFrame
  <2> QED
    BY <1>3, <1>7, <1>8, <1>9, <2>1, SMTT(60)
<1>12. CASE DoGetInfo
  <2>1. NextFrame /\ gw' = gw
    BY <1>12 DEF DoGetInfo
  <2>2. <<0, 0, 1>> \in Seq(Byte)
    BY DEF Byte
  <2>3. toHost' = toHost \o <<0, 0, 1>> \/ Reply(ACK.BAD_COMMAND)
    BY <1>12 DEF DoGetInfo
  <2>4. ACK.BAD_COMMAND \in Byte
    BY <1>8
  <2>5. toHost \o <<0, 0, 1>> \in Seq(Byte)
    BY <1>3, <2>2
  <2>6. toHost' \in Seq(Byte)
    BY <1>7, <2>3, <2>4, <2>5
  <2> QED
    BY <1>3, <1>9, <2>1, <2>6
<1>13. CASE DoSeek
  <2>1. PICK cyl \in Argument(3) :
          /\ Reply(SeekAck(cyl))
          /\ gw' = IF SeekAck(cyl) = ACK.OKAY
                     THEN [gw EXCEPT !.cyl = IF cyl < DriveTracks
                                               THEN cyl ELSE DriveTracks - 1]
                     ELSE gw
    BY <1>13 DEF DoSeek
  <2>2. SeekAck(cyl) \in Byte
    BY <1>8 DEF SeekAck
  <2>3. (IF cyl < DriveTracks THEN cyl ELSE DriveTracks - 1) \in 0 .. DriveTracks - 1
    BY <1>6, GwSimAssumption DEF Byte, MaxCyl
  <2>4. gw' \in GwType
    BY <1>3, <2>1, <2>3, GwCyl
  <2> QED
    BY <1>7, <1>9, <1>13, <2>1, <2>2, <2>4 DEF DoSeek
<1>14. CASE DoHead
  <2>1. PICK head \in Argument(3) :
          IF head > 1 THEN Reply(ACK.BAD_COMMAND) /\ UNCHANGED gw
                      ELSE Reply(ACK.OKAY) /\ gw' = [gw EXCEPT !.head = head]
    BY <1>14 DEF DoHead
  <2>2. head \in Nat
    BY <1>6 DEF Byte
  <2>3. gw' \in GwType
    BY <1>3, <2>1, <2>2, GwHead
  <2> QED
    BY <1>7, <1>8, <1>9, <1>14, <2>1, <2>3, SMTT(60) DEF DoHead
<1>15. CASE DoMotor
  <2>1. PICK unit \in Argument(3), on \in Argument(4) :
          /\ Reply(UnitAck(unit))
          /\ gw' = IF UnitAck(unit) = ACK.OKAY /\ unit = Unit
                     THEN [gw EXCEPT !.motor_on = on # 0] ELSE gw
    BY <1>15, Zenon DEF DoMotor
  <2>2. UnitAck(unit) \in Byte
    BY <1>8 DEF UnitAck
  <2>3. (on # 0) \in BOOLEAN
    OBVIOUS
  <2>4. gw' \in GwType
    BY <1>3, <2>1, <2>3, GwMotor, Zenon
  <2> QED
    BY <1>7, <1>9, <1>15, <2>1, <2>2, <2>4 DEF DoMotor
<1>16. CASE DoSelect
  <2>1. PICK unit \in Argument(3) :
          /\ Reply(UnitAck(unit))
          /\ gw' = IF UnitAck(unit) = ACK.OKAY
                     THEN [gw EXCEPT !.sel_unit = unit] ELSE gw
    BY <1>16 DEF DoSelect
  <2>2. UnitAck(unit) \in Byte
    BY <1>8 DEF UnitAck
  <2>3. UnitAck(unit) = ACK.OKAY => unit \in {NoUnit} \cup 0 .. 2
    BY <1>6 DEF UnitAck, MaxUnits, Byte
  <2>4. gw' \in GwType
    BY <1>3, <2>1, <2>3, GwUnit
  <2> QED
    BY <1>7, <1>9, <1>16, <2>1, <2>2, <2>4 DEF DoSelect
<1>17. CASE DoDeselect
  <2>1. NextFrame /\ Reply(ACK.OKAY) /\ gw' = [gw EXCEPT !.sel_unit = NoUnit]
    BY <1>17 DEF DoDeselect
  <2>2. gw' \in GwType
    BY <1>3, <2>1, GwUnit
  <2> QED
    BY <1>7, <1>8, <1>9, <2>1, <2>2, SMTT(60)
<1>18. CASE DoSetBusType
  <2>1. PICK bus \in Argument(3) :
          IF bus \in {BUS.IBMPC, BUS.SHUGART}
            THEN Reply(ACK.OKAY) /\ gw' = [gw EXCEPT !.bus = bus]
            ELSE Reply(ACK.BAD_COMMAND) /\ UNCHANGED gw
    BY <1>18 DEF DoSetBusType
  <2>2. gw' \in GwType
    BY <1>3, <2>1, GwBus
  <2> QED
    BY <1>7, <1>8, <1>9, <1>18, <2>1, <2>2, SMTT(60) DEF DoSetBusType
<1>19. CASE DoSetPin
  <2>1. NextFrame /\ gw' = gw
    BY <1>19 DEF DoSetPin
  <2>2. PICK pin \in Argument(3) : Reply(IF pin = 2 THEN ACK.OKAY ELSE ACK.BAD_PIN)
    BY <1>19 DEF DoSetPin
  <2>3. (IF pin = 2 THEN ACK.OKAY ELSE ACK.BAD_PIN) \in Byte
    BY <1>8
  <2> QED
    BY <1>3, <1>7, <1>9, <2>1, <2>2, <2>3
<1>20. CASE DoReadFlux
  <2>1. NextFrame
    BY <1>20 DEF DoReadFlux
  <2>2. CASE gw.sel_unit = NoUnit
    BY <1>3, <1>7, <1>8, <1>9, <1>20, <2>1, <2>2, SMTT(60) DEF DoReadFlux
  <2>3. CASE gw.sel_unit # NoUnit
    <3>1. toHost' = toHost \o <<7, 0>> \o (IF Spinning THEN <<1, 0>> ELSE <<0>>)
          /\ gw' = [gw EXCEPT !.flux_status = IF Spinning THEN ACK.OKAY ELSE ACK.NO_INDEX]
      BY <1>20, <2>3 DEF DoReadFlux
    <3>2. <<7, 0>> \in Seq(Byte) /\ <<1, 0>> \in Seq(Byte) /\ <<0>> \in Seq(Byte)
      BY DEF Byte
    <3>3. toHost' \in Seq(Byte)
      <4>1. PICK a, b : a = toHost \o <<7, 0>> /\ b \in {<<1, 0>>, <<0>>} /\ toHost' = a \o b
        BY <3>1
      <4>2. a \in Seq(Byte)
        <5>1. PICK two \in Seq(Byte) : two = <<7, 0>>
          BY <3>2
        <5>2. a = toHost \o two
          BY <4>1, <5>1
        <5> QED
          BY <1>3, <5>2
      <4>3. b \in Seq(Byte)
        BY <3>2, <4>1
      <4> QED
        BY <4>1, <4>2, <4>3
    <3>4. gw' \in GwType
      <4>1. (IF Spinning THEN ACK.OKAY ELSE ACK.NO_INDEX) \in Byte
        BY <1>8
      <4> QED
        BY <1>3, <3>1, <4>1, GwFlux
    <3> QED
      BY <1>9, <2>1, <3>3, <3>4
  <2> QED
    BY <2>2, <2>3
<1>21. CASE DoGetFluxStatus
  <2>1. NextFrame /\ Reply(gw.flux_status) /\ gw' = gw
    BY <1>21 DEF DoGetFluxStatus
  <2> QED
    BY <1>3, <1>7, <1>9, <2>1, GwFields
<1>22. CASE DoReset
  <2>1. NextFrame /\ Reply(ACK.OKAY) /\ gw' = [PowerOn EXCEPT !.cyl = gw.cyl]
    BY <1>22 DEF DoReset
  <2>2. gw' \in GwType
    BY <1>3, <2>1, GwFields, GwPowerOn, GwCyl
  <2> QED
    BY <1>7, <1>8, <1>9, <2>1, <2>2, SMTT(60)
<1>23. CASE DoWriteFlux
  <2>1. Reply(WriteFluxAck) /\ UNCHANGED <<gw, media, disk>>
    BY <1>23 DEF DoWriteFlux
  <2>2. WriteFluxAck \in Byte
    BY <1>8 DEF WriteFluxAck
  <2>3. CASE WriteFluxAck = ACK.OKAY
    <3>1. sp' = [state |-> "WRSTREAM", cbuf |-> <<>>, wbuf |-> <<>>, wr_ok |-> Spinning]
      BY <1>23, <2>3 DEF DoWriteFlux
    <3>2. Spinning \in BOOLEAN
      BY <1>3, GwFields, Zenon DEF Spinning, Selected
    <3>3. sp' \in SpType /\ sp'.cbuf = <<>>
      BY <3>1, <3>2, SpOpen
    <3> QED
      BY <1>3, <1>7, <2>1, <2>2, <3>3 DEF FrameInv, MaxFrame, Rest, Parser
  <2>4. CASE WriteFluxAck # ACK.OKAY
    <3>1. NextFrame
      BY <1>23, <2>4 DEF DoWriteFlux, NextFrame
    <3> QED
      BY <1>3, <1>7, <1>9, <2>1, <2>2, <3>1
  <2> QED
    BY <2>3, <2>4
<1>24. CASE StreamData
  <2>1. sp' = [sp EXCEPT !.wbuf = Append(@, Head(toDevice))]
        /\ UNCHANGED <<toHost, gw, media, disk>>
    BY <1>24 DEF StreamData
  <2>2. Append(sp.wbuf, Head(toDevice)) \in Seq(Byte)
    BY <1>1, <1>4, FrameFacts
  <2>3. sp' \in SpType /\ sp'.cbuf = sp.cbuf
    <3>1. PICK w \in Seq(Byte) : w = Append(sp.wbuf, Head(toDevice))
      BY <2>2
    <3>2. sp' = [sp EXCEPT !.wbuf = w]
      BY <2>1, <3>1
    <3> QED
      BY <1>3, <3>2, SpWbuf, ZenonT(60)
  <2>4. Rest
    BY <1>3, <2>1 DEF Rest
  <2>5. Parser
    BY <1>3, <2>3 DEF DeviceInv, FrameInv, Parser
  <2> QED
    BY <2>4, <2>5
<1>25. ASSUME StreamEnd PROVE Parser /\ toHost' \in Seq(Byte) /\ media' = media
  <2>1. sp' = [sp EXCEPT !.state = "CMD"] /\ toHost' = Append(toHost, 0) /\ media' = media
    BY <1>25 DEF StreamEnd
  <2>2. sp' \in SpType /\ sp'.cbuf = sp.cbuf
    BY <1>3, <2>1, SpState
  <2>3. Parser
    BY <1>3, <2>2 DEF DeviceInv, FrameInv, Parser
  <2>4. toHost' \in Seq(Byte)
    BY <1>3, <1>8, <2>1
  <2> QED
    BY <2>1, <2>3, <2>4
<1>26. CASE WriteDone
  <2>1. gw' \in GwType
    <3>1. (IF sp.wr_ok /\ Selected THEN ACK.OKAY ELSE ACK.NO_INDEX) \in Byte
      BY <1>8
    <3> QED
      BY <1>3, <1>26, <3>1, GwFlux DEF WriteDone
  <2>2. disk' \in [DiskPlaces -> Seq(Byte)]
    BY <1>3, <1>4, <1>26 DEF WriteDone
  <2> QED
    BY <1>25, <1>26, <2>1, <2>2 DEF WriteDone, Rest
<1>27. CASE WriteUnderrun
  <2>1. gw' \in GwType
    <3>1. ACK.FLUX_UNDERFLOW \in Byte
      BY <1>8
    <3> QED
      BY <1>3, <1>27, <3>1, GwFlux DEF WriteUnderrun
  <2>2. Damaged \in Seq(Byte)
    BY DEF Damaged, Byte
  <2>3. disk' \in [DiskPlaces -> Seq(Byte)]
    BY <1>3, <1>27, <2>2 DEF WriteUnderrun
  <2> QED
    BY <1>25, <1>27, <2>1, <2>3 DEF WriteUnderrun, Rest
<1> QED
  BY <1>10, <1>11, <1>12, <1>13, <1>14, <1>15, <1>16, <1>17, <1>18, <1>19, <1>20,
     <1>21, <1>22, <1>23, <1>24, <1>26, <1>27 DEF Device

-----------------------------------------------------------------------------
(* Framing.                                                                *)

\* The codes of the commands that are modelled.
Codes == {0, 2, 3, 6, 7, 8, 9, 12, 13, 14, 15, 16}

\* A command: bytes, the first its code, the second their number.
IsFrame(c) == c \in Seq(Byte) /\ Len(c) = c[2] /\ c[2] \in 2 .. 8 /\ c[1] \in Codes

\* The device has collected the first bytes of frame c, and the others are
\* the first on the line.
Collecting(c) ==
    /\ sp.state = "CMD" /\ Len(sp.cbuf) < Len(c)
    /\ \A i \in 1 .. Len(sp.cbuf) : sp.cbuf[i] = c[i]
    /\ Len(toDevice) >= Len(c) - Len(sp.cbuf)
    /\ \A i \in 1 .. Len(c) - Len(sp.cbuf) : toDevice[i] = c[Len(sp.cbuf) + i]

\* The action of the device that a whole command causes.
Does(code) ==
    \/ code = CMD.GET_INFO /\ DoGetInfo
    \/ code = CMD.SEEK /\ DoSeek
    \/ code = CMD.HEAD /\ DoHead
    \/ code = CMD.MOTOR /\ DoMotor
    \/ code = CMD.READ_FLUX /\ DoReadFlux
    \/ code = CMD.WRITE_FLUX /\ DoWriteFlux
    \/ code = CMD.GET_FLUX_STATUS /\ DoGetFluxStatus
    \/ code = CMD.SELECT /\ DoSelect
    \/ code = CMD.DESELECT /\ DoDeselect
    \/ code = CMD.SET_BUS_TYPE /\ DoSetBusType
    \/ code = CMD.SET_PIN /\ DoSetPin
    \/ code = CMD.RESET /\ DoReset

\* Every action of the device takes the first byte off the line.
LEMMA DeviceTakesByte ==
    ASSUME DeviceInv, Device
    PROVE  /\ toDevice # <<>> /\ toDevice' = Tail(toDevice)
           /\ Len(toDevice) \in Nat \ {0} /\ Len(toDevice') = Len(toDevice) - 1
           /\ \A i \in 1 .. Len(toDevice') : toDevice'[i] = toDevice[i + 1]
<1>1. toDevice # <<>> /\ toDevice' = Tail(toDevice)
  BY DEF Device, Collect, BadFrame, DoGetInfo, DoSeek, DoHead, DoMotor, DoSelect,
         DoDeselect, DoSetBusType, DoSetPin, DoReadFlux, DoGetFluxStatus, DoReset,
         DoWriteFlux, Dispatch, FrameByte, StreamData, WriteDone, WriteUnderrun,
         StreamEnd, StreamByte
<1>2. toDevice \in Seq(Byte)
  BY DEF DeviceInv, SimTypeOK
<1> QED
  BY <1>1, <1>2

\* In state PROTO_CMD the byte is collected, found wrong, or completes a
\* command.
LEMMA CommandByte ==
    ASSUME Device, sp.state = "CMD"
    PROVE  Collect \/ BadFrame \/ \E code \in Codes : Dispatch(code) /\ Does(code)
<1> HIDE DEF CMD
<1>1. /\ (DoGetInfo => Dispatch(CMD.GET_INFO)) /\ (DoSeek => Dispatch(CMD.SEEK))
      /\ (DoHead => Dispatch(CMD.HEAD)) /\ (DoMotor => Dispatch(CMD.MOTOR))
      /\ (DoReadFlux => Dispatch(CMD.READ_FLUX)) /\ (DoWriteFlux => Dispatch(CMD.WRITE_FLUX))
      /\ (DoGetFluxStatus => Dispatch(CMD.GET_FLUX_STATUS)) /\ (DoReset => Dispatch(CMD.RESET))
      /\ (DoSelect => Dispatch(CMD.SELECT)) /\ (DoDeselect => Dispatch(CMD.DESELECT))
      /\ (DoSetBusType => Dispatch(CMD.SET_BUS_TYPE)) /\ (DoSetPin => Dispatch(CMD.SET_PIN))
  BY DEF DoGetInfo, DoSeek, DoHead, DoMotor, DoReadFlux, DoWriteFlux, DoGetFluxStatus,
         DoReset, DoSelect, DoDeselect, DoSetBusType, DoSetPin
<1>2. /\ (DoGetInfo => Does(CMD.GET_INFO)) /\ (DoSeek => Does(CMD.SEEK))
      /\ (DoHead => Does(CMD.HEAD)) /\ (DoMotor => Does(CMD.MOTOR))
      /\ (DoReadFlux => Does(CMD.READ_FLUX)) /\ (DoWriteFlux => Does(CMD.WRITE_FLUX))
      /\ (DoGetFluxStatus => Does(CMD.GET_FLUX_STATUS)) /\ (DoReset => Does(CMD.RESET))
      /\ (DoSelect => Does(CMD.SELECT)) /\ (DoDeselect => Does(CMD.DESELECT))
      /\ (DoSetBusType => Does(CMD.SET_BUS_TYPE)) /\ (DoSetPin => Does(CMD.SET_PIN))
  BY Zenon DEF Does
<1>3. { CMD.GET_INFO, CMD.SEEK, CMD.HEAD, CMD.MOTOR, CMD.READ_FLUX, CMD.WRITE_FLUX,
        CMD.GET_FLUX_STATUS, CMD.RESET, CMD.SELECT, CMD.DESELECT, CMD.SET_BUS_TYPE,
        CMD.SET_PIN } \subseteq Codes
  BY DEF CMD, Codes
<1>4. ~StreamByte
  BY DEF StreamByte
<1>5. ~StreamData /\ ~WriteDone /\ ~WriteUnderrun
  BY <1>4 DEF StreamData, WriteDone, WriteUnderrun, StreamEnd
<1> QED
  BY <1>1, <1>2, <1>3, <1>5 DEF Device

\* The frame that the next byte makes, while frame c is collected.
LEMMA FrameOf ==
    ASSUME DeviceInv, toDevice # <<>>, NEW c, IsFrame(c), Collecting(c)
    PROVE  /\ Len(sp.cbuf) \in Nat /\ Len(c) \in 2 .. 8
           /\ Len(Frame) = Len(sp.cbuf) + 1
           /\ \A i \in 1 .. Len(Frame) : Frame[i] = c[i]
<1>1. /\ Len(sp.cbuf) \in Nat /\ Len(Frame) = Len(sp.cbuf) + 1
      /\ \A i \in 1 .. Len(sp.cbuf) : Frame[i] = sp.cbuf[i]
      /\ Frame[Len(sp.cbuf) + 1] = toDevice[1]
  BY FrameFacts, SpFields DEF DeviceInv, SimTypeOK
<1>2. Len(c) \in 2 .. 8 /\ Len(sp.cbuf) < Len(c)
  BY DEF IsFrame, Collecting
<1>3. toDevice[1] = c[Len(sp.cbuf) + 1]
  BY <1>1, <1>2 DEF Collecting
<1> QED
  BY <1>1, <1>2, <1>3 DEF Collecting

\* A byte before the last of frame c changes nothing but the frame.
LEMMA FrameGrows ==
    ASSUME DeviceInv, Device, NEW c, IsFrame(c), Collecting(c),
           Len(sp.cbuf) + 1 < Len(c)
    PROVE  /\ Collecting(c)'
           /\ Len(sp'.cbuf) = Len(sp.cbuf) + 1
           /\ UNCHANGED <<toHost, gw, media, disk>>
<1>1. /\ Len(sp.cbuf) \in Nat /\ Len(c) \in 2 .. 8 /\ Len(Frame) = Len(sp.cbuf) + 1
      /\ \A i \in 1 .. Len(Frame) : Frame[i] = c[i]
  BY DeviceTakesByte, FrameOf
<1>2. Len(Frame) >= 2 => Frame[2] = c[2] /\ Len(Frame) < c[2] /\ c[2] \in 2 .. 8
  BY <1>1 DEF IsFrame
<1>3. ~FrameComplete /\ (LengthKnown => LengthValid)
  BY <1>1, <1>2 DEF FrameComplete, LengthValid, LengthKnown, MaxFrame
<1>4. Collect
  BY <1>3, CommandByte DEF Collecting, BadFrame, Dispatch
<1>5. sp' = [sp EXCEPT !.cbuf = Frame] /\ UNCHANGED <<toHost, gw, media, disk>>
  BY <1>4 DEF Collect
<1>6. sp'.cbuf = Frame /\ sp'.state = "CMD"
  BY <1>5, SpCbuf, FrameFacts, DeviceTakesByte DEF Collecting, DeviceInv, SimTypeOK
<1> DEFINE n == Len(sp.cbuf)
           m == Len(sp'.cbuf)
           k == Len(c)
           l == Len(toDevice)
           r == Len(toDevice')
<1>7. /\ n \in Nat /\ k \in 2 .. 8 /\ m = n + 1 /\ m < k
      /\ l \in Nat /\ r = l - 1 /\ l >= k - n
      /\ \A i \in 1 .. r : toDevice'[i] = toDevice[i + 1]
      /\ \A i \in 1 .. k - n : toDevice[i] = c[n + i]
      /\ \A i \in 1 .. m : sp'.cbuf[i] = c[i]
  BY <1>1, <1>6, DeviceTakesByte DEF Collecting
<1> HIDE DEF n, m, k, l, r
<1>8. m < k /\ r >= k - m
  BY <1>7
<1>9. \A i \in 1 .. k - m : toDevice'[i] = c[m + i]
  <2> SUFFICES ASSUME NEW i \in 1 .. k - m PROVE toDevice'[i] = c[m + i]
    OBVIOUS
  <2>1. i \in 1 .. r /\ i + 1 \in 1 .. k - n /\ n + (i + 1) = m + i
    BY <1>7
  <2> QED
    BY <1>7, <2>1
<1> QED
  BY <1>5, <1>6, <1>7, <1>8, <1>9 DEF Collecting, n, m, k, l, r

\* Its last byte makes the device do what the command says.
LEMMA FrameEnds ==
    ASSUME DeviceInv, Device, NEW c, IsFrame(c), Collecting(c),
           Len(sp.cbuf) + 1 = Len(c)
    PROVE  /\ Does(c[1])
           /\ Frame[1] = c[1]
           /\ \A i \in 1 .. Len(c) : Argument(i) = {c[i]}
<1>1. /\ Len(Frame) = Len(c) /\ Len(c) \in 2 .. 8
      /\ \A i \in 1 .. Len(c) : Frame[i] = c[i]
  BY DeviceTakesByte, FrameOf
<1>2. Frame[1] = c[1] /\ Frame[2] = Len(Frame) /\ Len(Frame) \in 2 .. 8
  BY <1>1 DEF IsFrame
<1>3. FrameComplete /\ LengthKnown /\ LengthValid
  BY <1>2 DEF FrameComplete, LengthValid, LengthKnown, MaxFrame
<1>4. c[1] \in {CMD[x] : x \in DOMAIN CMD}
  <2>1. { "GET_INFO", "SEEK", "HEAD", "MOTOR", "READ_FLUX", "WRITE_FLUX", "GET_FLUX_STATUS",
          "SELECT", "DESELECT", "SET_BUS_TYPE", "SET_PIN", "RESET" } \subseteq DOMAIN CMD
    OBVIOUS
  <2>2. /\ CMD["GET_INFO"] = 0 /\ CMD["SEEK"] = 2 /\ CMD["HEAD"] = 3 /\ CMD["MOTOR"] = 6
        /\ CMD["READ_FLUX"] = 7 /\ CMD["WRITE_FLUX"] = 8 /\ CMD["GET_FLUX_STATUS"] = 9
        /\ CMD["SELECT"] = 12 /\ CMD["DESELECT"] = 13 /\ CMD["SET_BUS_TYPE"] = 14
        /\ CMD["SET_PIN"] = 15 /\ CMD["RESET"] = 16
    OBVIOUS
  <2> HIDE DEF CMD
  <2>3. \A code \in Codes : \E x \in DOMAIN CMD : CMD[x] = code
    BY <2>1, <2>2, SMTT(60) DEF Codes
  <2> QED
    BY <2>3 DEF IsFrame
<1>5. ~Collect /\ ~BadFrame
  BY <1>2, <1>3, <1>4 DEF Collect, BadFrame
<1>6. \E code \in Codes : Dispatch(code) /\ Does(code)
  BY <1>5, CommandByte DEF Collecting
<1>7. Does(c[1])
  BY <1>2, <1>6 DEF Dispatch
<1> QED
  BY <1>1, <1>2, <1>7 DEF Argument

-----------------------------------------------------------------------------
(* What a command and a byte of a stream do.                               *)

\* Frame c has been answered and has had its effect.
AnswerTo(c) ==
    /\ sp.cbuf = <<>> /\ Len(toHost) >= 2 /\ toHost[1] = c[1]
    /\ c[1] \notin {0, 7} \/ toHost[2] # 0 => Len(toHost) = 2
    /\ c[1] = 0 /\ toHost[2] = 0 => Len(toHost) = 3
    /\ c[1] = 7 /\ toHost[2] = 0 =>
         /\ Len(toHost) \in {3, 4} /\ toHost[Len(toHost)] = 0
         /\ Len(toHost) = 4 => toHost[3] # 0
         /\ media = "none" => gw.flux_status # 0
    /\ c[1] = 2 /\ Len(c) = 3 /\ toHost[2] = 0 /\ c[3] < DriveTracks => gw.cyl = c[3]
    /\ c[1] = 3 /\ Len(c) = 3 /\ toHost[2] = 0 => gw.head = c[3]
    /\ c[1] = 9 => toHost[2] = gw.flux_status
    /\ IF c[1] = 8 /\ toHost[2] = 0
         THEN sp.state = "WRSTREAM" /\ sp.wbuf = <<>> ELSE sp.state = "CMD"

\* dispatch(), with nothing on the line to the host.
LEMMA CommandEffect ==
    ASSUME DeviceInv, toDevice # <<>>, toHost = <<>>, NEW c, IsFrame(c), Does(c[1]),
           Frame[1] = c[1], \A i \in 1 .. Len(c) : Argument(i) = {c[i]}, sp.state = "CMD"
    PROVE  /\ AnswerTo(c)'
           /\ UNCHANGED <<media, disk>>
           /\ c[1] \in {8, 9} => gw' = gw
           /\ c[1] = 3 => gw'.cyl = gw.cyl
<1>1. sp \in SpType /\ gw \in GwType /\ <<>> \in Seq(Byte) /\ c[1] \in Codes
  BY DEF DeviceInv, SimTypeOK, IsFrame
<1>2. \A ack \in Byte : Reply(ack) =>
        /\ Len(toHost') = 2 /\ toHost'[1] = c[1] /\ toHost'[2] = ack
  BY <1>1 DEF Reply, Codes
<1>3. 0 \in Byte /\ 1 \in Byte /\ 2 \in Byte /\ 3 \in Byte /\ 6 \in Byte /\ 7 \in Byte
      /\ 8 \in Byte /\ 9 \in Byte /\ 10 \in Byte /\ 11 \in Byte
  BY DEF Byte
<1>4. ASSUME NextFrame
      PROVE  sp'.cbuf = <<>> /\ sp'.state = "CMD" /\ UNCHANGED <<media, disk>>
  BY <1>1, <1>4, SpCbuf DEF NextFrame
<1>5. Argument(3) \subseteq Byte /\ Argument(4) \subseteq Byte
  BY ArgumentType
<1> DEFINE Simple == NextFrame /\ \E ack \in Byte : Reply(ack)
<1>6. ASSUME Simple, c[1] \notin {0, 2, 3, 7, 8, 9}
      PROVE  AnswerTo(c)' /\ UNCHANGED <<media, disk>>
  BY <1>1, <1>2, <1>4, <1>6 DEF AnswerTo
<1> USE DEF Codes
<1>7. CASE c[1] = 0
  <2>1. DoGetInfo
    BY <1>7 DEF Does
  <2>2. NextFrame /\ gw' = gw /\ (toHost' = toHost \o <<0, 0, 1>> \/ Reply(1))
    BY <2>1 DEF DoGetInfo
  <2>3. /\ Len(toHost') >= 2 /\ toHost'[1] = 0 /\ (toHost'[2] # 0 => Len(toHost') = 2)
        /\ toHost'[2] = 0 => Len(toHost') = 3
    <3>1. CASE toHost' = toHost \o <<0, 0, 1>>
      <4>1. toHost' = <<0, 0, 1>>
        BY <3>1
      <4> QED
        BY <4>1
    <3>2. CASE Reply(1)
      BY <1>2, <1>3, <1>7, <3>2
    <3> QED
      BY <2>2, <3>1, <3>2
  <2> QED
    BY <1>4, <1>7, <2>2, <2>3 DEF AnswerTo
<1>8. CASE c[1] = 2
  <2>1. DoSeek
    BY <1>8 DEF Does
  <2>2. PICK cyl \in Argument(3) :
          /\ Reply(SeekAck(cyl))
          /\ gw' = IF SeekAck(cyl) = 0
                     THEN [gw EXCEPT !.cyl = IF cyl < DriveTracks
                                               THEN cyl ELSE DriveTracks - 1]
                     ELSE gw
    BY <2>1 DEF DoSeek
  <2>3. SeekAck(cyl) \in Byte
    BY <1>3 DEF SeekAck
  <2>4. Len(c) = 3 => cyl = c[3]
    BY <2>2
  <2>5. SeekAck(cyl) = 0 /\ cyl < DriveTracks => gw'.cyl = cyl
    <3>1. cyl < DriveTracks => cyl \in 0 .. DriveTracks - 1
      <4>1. cyl \in 0 .. 255 /\ DriveTracks \in Nat
        BY <1>5, GwSimAssumption DEF Byte, MaxCyl
      <4> QED
        BY <4>1
    <3> QED
      BY <1>1, <2>2, <3>1, GwCyl
  <2>6. NextFrame
    BY <2>1 DEF DoSeek
  <2> QED
    BY <1>2, <1>4, <1>8, <2>2, <2>3, <2>4, <2>5, <2>6 DEF AnswerTo
<1>9. CASE c[1] = 3
  <2>1. DoHead
    BY <1>9 DEF Does
  <2>2. PICK head \in Argument(3) :
          IF head > 1 THEN Reply(ACK.BAD_COMMAND) /\ UNCHANGED gw
                      ELSE Reply(ACK.OKAY) /\ gw' = [gw EXCEPT !.head = head]
    BY <2>1 DEF DoHead
  <2>3. head \in 0 .. 255
    BY <1>5, ZenonT(60) DEF Byte
  <2>4. Len(c) = 3 => head = c[3]
    BY <2>2
  <2>5. gw'.cyl = gw.cyl /\ (Reply(1) \/ (Reply(0) /\ gw'.head = head))
    <3>1. head > 1 \/ head \in {0, 1}
      BY <2>3
    <3>2. CASE head > 1
      BY <2>2, <3>2
    <3>3. CASE ~(head > 1) /\ head \in {0, 1}
      <4>1. Reply(0) /\ gw' = [gw EXCEPT !.head = head]
        BY <2>2, <3>3
      <4> QED
        BY <1>1, <3>3, <4>1, GwHead
    <3> QED
      BY <3>1, <3>2, <3>3
  <2>6. NextFrame
    BY <2>1 DEF DoHead
  <2>7. CASE Reply(1)
    BY <1>2, <1>3, <1>4, <1>9, <2>5, <2>6, <2>7 DEF AnswerTo
  <2>8. CASE Reply(0) /\ gw'.head = head
    BY <1>2, <1>3, <1>4, <1>9, <2>4, <2>5, <2>6, <2>8 DEF AnswerTo
  <2> QED
    BY <2>5, <2>7, <2>8
<1>10. CASE c[1] = 7
  <2>1. DoReadFlux
    BY <1>10 DEF Does
  <2>2. NextFrame
    BY <2>1 DEF DoReadFlux
  <2>3. CASE gw.sel_unit = NoUnit
    <3>1. Reply(7)
      BY <2>1, <2>3 DEF DoReadFlux
    <3> QED
      BY <1>2, <1>3, <1>4, <1>10, <2>2, <3>1 DEF AnswerTo
  <2>4. CASE gw.sel_unit # NoUnit
    <3>1. toHost' = toHost \o <<7, 0>> \o (IF Spinning THEN <<1, 0>> ELSE <<0>>)
          /\ gw' = [gw EXCEPT !.flux_status = IF Spinning THEN 0 ELSE 2]
      BY <2>1, <2>4 DEF DoReadFlux
    <3>2. /\ Len(toHost') \in {3, 4} /\ toHost'[1] = 7 /\ toHost'[2] = 0
          /\ toHost'[Len(toHost')] = 0 /\ (Len(toHost') = 4 => toHost'[3] # 0)
      <4>1. toHost \o <<7, 0>> = <<7, 0>>
        OBVIOUS
      <4>2. toHost' = <<7, 0>> \o <<1, 0>> \/ toHost' = <<7, 0>> \o <<0>>
        BY <3>1, <4>1
      <4>3. <<7, 0>> \in Seq(Byte) /\ <<1, 0>> \in Seq(Byte) /\ <<0>> \in Seq(Byte)
        BY DEF Byte
      <4>4. \A a, b \in Seq(Byte) :
              /\ Len(a \o b) = Len(a) + Len(b)
              /\ \A i \in 1 .. Len(a) : (a \o b)[i] = a[i]
              /\ \A i \in 1 .. Len(b) : (a \o b)[Len(a) + i] = b[i]
        OBVIOUS
      <4>5. CASE toHost' = <<7, 0>> \o <<1, 0>>
        <5>1. Len(toHost') = 4 /\ toHost'[1] = 7 /\ toHost'[2] = 0 /\ toHost'[3] = 1
              /\ toHost'[4] = 0
          BY <4>3, <4>4, <4>5
        <5> QED
          BY <5>1
      <4>6. CASE toHost' = <<7, 0>> \o <<0>>
        <5>1. Len(toHost') = 3 /\ toHost'[1] = 7 /\ toHost'[2] = 0 /\ toHost'[3] = 0
          BY <4>3, <4>4, <4>6
        <5> QED
          BY <5>1
      <4> QED
        BY <4>2, <4>5, <4>6
    <3>3. media = "none" => gw'.flux_status = 2
      <4>1. (IF Spinning THEN 0 ELSE 2) \in Byte
        BY <1>3
      <4>2. media = "none" => ~Spinning
        BY DEF Spinning
      <4> QED
        BY <1>1, <3>1, <4>1, <4>2, GwFlux
    <3> QED
      BY <1>4, <1>10, <2>2, <3>2, <3>3 DEF AnswerTo
  <2> QED
    BY <2>3, <2>4
<1>11. CASE c[1] = 8
  <2>1. DoWriteFlux
    BY <1>11 DEF Does
  <2>2. Reply(WriteFluxAck) /\ UNCHANGED <<gw, media, disk>>
    BY <2>1 DEF DoWriteFlux
  <2>3. WriteFluxAck \in Byte
    BY <1>3 DEF WriteFluxAck
  <2>4. sp'.cbuf = <<>> /\ IF WriteFluxAck = 0
          THEN sp'.state = "WRSTREAM" /\ sp'.wbuf = <<>> ELSE sp'.state = "CMD"
    <3>1. CASE WriteFluxAck = 0
      BY <2>1, <3>1 DEF DoWriteFlux
    <3>2. CASE WriteFluxAck # 0
      BY <1>1, <2>1, <3>2, SpCbuf DEF DoWriteFlux
    <3> QED
      BY <3>1, <3>2
  <2> QED
    BY <1>2, <1>11, <2>2, <2>3, <2>4 DEF AnswerTo
<1>12. CASE c[1] = 9
  <2>1. NextFrame /\ Reply(gw.flux_status) /\ gw' = gw
    BY <1>12 DEF Does, DoGetFluxStatus
  <2> QED
    BY <1>1, <1>2, <1>4, <1>12, <2>1, GwFields DEF AnswerTo
<1>13. CASE c[1] \in {6, 12}
  <2>1. NextFrame /\ \E unit \in Argument(3) : Reply(UnitAck(unit))
    BY <1>13, SMTT(60) DEF Does, DoMotor, DoSelect
  <2>2. \A unit : UnitAck(unit) \in Byte
    BY <1>3 DEF UnitAck
  <2> QED
    BY <1>6, <1>13, <2>1, <2>2
<1>14. CASE c[1] \in {13, 16}
  <2>1. NextFrame /\ Reply(0)
    BY <1>14 DEF Does, DoDeselect, DoReset
  <2> QED
    BY <1>3, <1>6, <1>14, <2>1
<1>15. CASE c[1] \in {14, 15}
  <2>1. NextFrame /\ (Reply(0) \/ Reply(1) \/ Reply(10))
    BY <1>15 DEF Does, DoSetBusType, DoSetPin
  <2> QED
    BY <1>3, <1>6, <1>15, <2>1
<1> QED
  BY <1>1, <1>7, <1>8, <1>9, <1>10, <1>11, <1>12, <1>13, <1>14, <1>15

\* A byte of a stream is stored, or ends it.  A status of 0 says that the
\* stream has been recorded where the heads are.
LEMMA StreamEffect ==
    ASSUME DeviceInv, Device, sp.state = "WRSTREAM"
    PROVE  /\ sp'.cbuf = sp.cbuf /\ media' = media
           /\ gw'.cyl = gw.cyl /\ gw'.head = gw.head
           /\ \/ /\ toDevice[1] # 0 /\ sp'.state = "WRSTREAM"
                 /\ sp'.wbuf = Append(sp.wbuf, toDevice[1])
                 /\ UNCHANGED <<toHost, gw, disk>>
              \/ /\ toDevice[1] = 0 /\ sp'.state = "CMD"
                 /\ toHost' = Append(toHost, 0)
                 /\ disk' \in {disk, [disk EXCEPT ![Here] = disk'[Here]]}
                 /\ gw'.flux_status = 0 /\ sp.wbuf # <<>> =>
                      disk' = [disk EXCEPT ![Here] = sp.wbuf]
<1>1. /\ sp \in SpType /\ gw \in GwType /\ sp.wbuf \in Seq(Byte)
      /\ Head(toDevice) = toDevice[1] /\ Head(toDevice) \in Byte
  BY DeviceTakesByte, FrameFacts, SpFields DEF DeviceInv, SimTypeOK
<1>2. disk \in [DiskPlaces -> Seq(Byte)] /\ Here \in DiskPlaces
  BY <1>1, GwFields DEF DeviceInv, SimTypeOK, Here, DiskPlaces
<1>3. \A v : [disk EXCEPT ![Here] = v][Here] = v
  BY <1>2
<1>4. ~FrameByte
  BY DEF FrameByte
<1>5. StreamData \/ WriteDone \/ WriteUnderrun
  BY <1>4 DEF Device, Collect, BadFrame, DoGetInfo, DoSeek, DoHead, DoMotor, DoSelect,
         DoDeselect, DoSetBusType, DoSetPin, DoReadFlux, DoGetFluxStatus, DoReset,
         DoWriteFlux, Dispatch
<1>6. CASE StreamData
  <2>1. sp' = [sp EXCEPT !.wbuf = Append(@, Head(toDevice))] /\ Head(toDevice) # 0
        /\ UNCHANGED <<toHost, gw, media, disk>>
    BY <1>6 DEF StreamData
  <2>2. Append(sp.wbuf, Head(toDevice)) \in Seq(Byte)
    BY <1>1
  <2>3. sp'.wbuf = Append(sp.wbuf, toDevice[1]) /\ sp'.state = sp.state /\ sp'.cbuf = sp.cbuf
    BY <1>1, <2>1, <2>2, SpWbuf
  <2> QED
    BY <1>1, <2>1, <2>3
<1>7. ASSUME StreamEnd
      PROVE  /\ toDevice[1] = 0 /\ sp'.state = "CMD" /\ sp'.cbuf = sp.cbuf
             /\ toHost' = Append(toHost, 0) /\ media' = media
  BY <1>1, <1>7, SpState DEF StreamEnd
<1>8. CASE WriteDone
  <2>1. (IF sp.wr_ok /\ Selected THEN ACK.OKAY ELSE ACK.NO_INDEX) \in Byte
    BY DEF Byte
  <2>2. /\ gw'.cyl = gw.cyl /\ gw'.head = gw.head
        /\ gw'.flux_status = IF sp.wr_ok /\ Selected THEN ACK.OKAY ELSE ACK.NO_INDEX
    BY <1>1, <1>8, <2>1, GwFlux DEF WriteDone
  <2>3. disk' = disk \/ disk' = [disk EXCEPT ![Here] = sp.wbuf]
    BY <1>8 DEF WriteDone
  <2>4. gw'.flux_status = 0 /\ sp.wbuf # <<>> => disk' = [disk EXCEPT ![Here] = sp.wbuf]
    BY <1>8, <2>2 DEF WriteDone
  <2>5. StreamEnd
    BY <1>8 DEF WriteDone
  <2> QED
    BY <1>3, <1>7, <2>2, <2>3, <2>4, <2>5
<1>9. CASE WriteUnderrun
  <2>1. ACK.FLUX_UNDERFLOW \in Byte
    BY DEF Byte
  <2>2. gw'.cyl = gw.cyl /\ gw'.head = gw.head /\ gw'.flux_status = 5
    BY <1>1, <1>9, <2>1, GwFlux DEF WriteUnderrun
  <2>3. disk' = [disk EXCEPT ![Here] = Damaged] /\ StreamEnd
    BY <1>9 DEF WriteUnderrun
  <2>4. disk'[Here] = Damaged
    BY <1>3, <2>3
  <2>5. disk' = [disk EXCEPT ![Here] = disk'[Here]]
    BY <2>3, <2>4
  <2> HIDE DEF Here
  <2> QED
    BY <1>7, <2>2, <2>3, <2>5
<1> QED
  BY <1>5, <1>6, <1>8, <1>9

\* Only the end of a stream changes the diskette.
LEMMA DiskStays ==
    ASSUME DeviceInv, Device, sp.state = "CMD"
    PROVE  UNCHANGED <<media, disk>>
<1>1. ~StreamByte
  BY DEF StreamByte
<1> QED
  BY <1>1 DEF Device, Collect, BadFrame, DoGetInfo, DoSeek, DoHead, DoMotor, DoSelect,
         DoDeselect, DoSetBusType, DoSetPin, DoReadFlux, DoGetFluxStatus, DoReset,
         DoWriteFlux, NextFrame, StreamData, WriteDone, WriteUnderrun, StreamEnd

\* Only a frame that starts with the code of WRITE_FLUX starts a stream.
LEMMA CommandKept ==
    ASSUME DeviceInv, Device, sp.state = "CMD", Frame[1] # 8
    PROVE  sp'.state = "CMD" /\ (sp'.cbuf = Frame \/ sp'.cbuf = <<>>)
<1>1. sp \in SpType /\ <<>> \in Seq(Byte) /\ Frame \in Seq(Byte)
  BY DeviceTakesByte, FrameFacts DEF DeviceInv, SimTypeOK
<1>2. CASE Collect
  BY <1>1, <1>2, SpCbuf DEF Collect
<1>3. CASE sp' = [sp EXCEPT !.cbuf = <<>>]
  BY <1>1, <1>3, SpCbuf
<1>4. ~StreamByte /\ ~DoWriteFlux
  BY DEF StreamByte, DoWriteFlux, Dispatch
<1> QED
  BY <1>2, <1>3, <1>4
     DEF Device, BadFrame, DoGetInfo, DoSeek, DoHead, DoMotor, DoSelect,
         DoDeselect, DoSetBusType, DoSetPin, DoReadFlux, DoGetFluxStatus, DoReset,
         NextFrame, StreamData, WriteDone, WriteUnderrun, StreamEnd

\* An answer goes behind those that are on the line.
LEMMA AnswersInOrder ==
    ASSUME DeviceInv, Device, toHost # <<>>
    PROVE  toHost' # <<>> /\ toHost'[1] = toHost[1]
<1>1. toHost \in Seq(Byte)
  BY DEF DeviceInv, SimTypeOK
<1> DEFINE Kept(q) == q # <<>> /\ q[1] = toHost[1]
<1>2. Kept(toHost) /\ Kept(Append(toHost, 0))
  BY <1>1
<1>3. \A a, b : Kept(toHost \o <<a, b>>)
  BY <1>1
<1>4. Kept(toHost \o <<0, 0, 1>>)
  BY <1>1
<1>5. Kept(toHost \o <<7, 0>> \o <<1, 0>>) /\ Kept(toHost \o <<7, 0>> \o <<0>>)
  BY <1>1
<1> HIDE DEF Kept
<1>6. \A ack : Reply(ack) => Kept(toHost')
  BY <1>3 DEF Reply
<1>7. Collect \/ StreamData => Kept(toHost')
  BY <1>2 DEF Collect, StreamData
<1>8. WriteDone \/ WriteUnderrun => Kept(toHost')
  BY <1>2 DEF WriteDone, WriteUnderrun, StreamEnd
<1>9. BadFrame \/ DoHead \/ DoDeselect \/ DoSetBusType \/ DoGetFluxStatus \/ DoReset
        \/ DoWriteFlux => Kept(toHost')
  BY <1>6 DEF BadFrame, DoHead, DoDeselect, DoSetBusType, DoGetFluxStatus, DoReset, DoWriteFlux
<1>10. DoSeek \/ DoMotor \/ DoSelect \/ DoSetPin => Kept(toHost')
  BY <1>6, Zenon DEF DoSeek, DoMotor, DoSelect, DoSetPin
<1>11. DoGetInfo => Kept(toHost')
  BY <1>4, <1>6 DEF DoGetInfo
<1>12. DoReadFlux => Kept(toHost')
  BY <1>5, <1>6 DEF DoReadFlux
<1>13. Kept(toHost')
  BY <1>7, <1>8, <1>9, <1>10, <1>11, <1>12 DEF Device
<1> QED
  BY <1>13 DEF Kept

\* When a command is done the next frame starts, or the stream.
LEMMA FrameDone ==
    ASSUME DeviceInv, Device, NEW c, IsFrame(c), Collecting(c),
           Len(sp.cbuf) + 1 = Len(c)
    PROVE  /\ sp'.cbuf = <<>>
           /\ c[1] # 8 => sp'.state = "CMD"
           /\ c[1] = 8 => gw' = gw
<1>1. Does(c[1]) /\ c[1] \in Codes
  BY FrameEnds DEF IsFrame
<1>2. sp \in SpType /\ <<>> \in Seq(Byte) /\ sp.state = "CMD"
  BY DEF DeviceInv, SimTypeOK, Collecting
<1>3. c[1] # 8 => NextFrame
  BY <1>1
     DEF Does, DoGetInfo, DoSeek, DoHead, DoMotor, DoSelect, DoDeselect, DoSetBusType,
         DoSetPin, DoReadFlux, DoGetFluxStatus, DoReset
<1>4. c[1] = 8 => DoWriteFlux
  BY <1>1 DEF Does
<1>5. NextFrame => sp'.cbuf = <<>> /\ sp'.state = "CMD"
  BY <1>2, SpCbuf DEF NextFrame
<1>6. DoWriteFlux => sp'.cbuf = <<>> /\ gw' = gw
  BY <1>2, SpCbuf DEF DoWriteFlux
<1> QED
  BY <1>3, <1>4, <1>5, <1>6

-----------------------------------------------------------------------------
(* The program.                                                            *)

\* The points of the program at which a command is sent.
CommandPcs ==
    {"reset", "info", "bus", "select", "pin", "motor", "rpm_on", "rflux",
     "rstatus", "rpm_off", "rpm_fail", "densel", "spin", "sidepin", "seek",
     "head", "wflux", "status", "leave", "unset", "deselect", "cleanup"}

TrackPcs == {"sidepin", "seek", "head", "wflux", "stream", "sync", "status"}

\* write_track() is called for tracks of the image only.
LoopInv ==
    /\ s < Sides /\ (Tracks # 0 => t < Tracks)
    /\ pc \in TrackPcs => Tracks # 0

HostPcs == CommandPcs \cup {"open", "rstream", "stream", "sync"} \cup Stopped

\* The variables that are not flags.
DataInv ==
    /\ DeviceInv
    /\ opt \in Settings
    /\ pc \in HostPcs
    /\ t \in Nat /\ s \in {0, 1}
    /\ retry_cnt \in 0 .. MaxRetries /\ resets \in 0 .. 3 /\ run \in Nat
    /\ wbuf \in Seq(Byte)
    /\ told \in [DiskPlaces -> {"untouched", "begun", "written"}]
    /\ defaulted \subseteq Signals \ {"INT"}
    /\ LoopInv
    /\ pc = "cleanup" => resets # 0

FlagInv ==
    /\ waiting \in BOOLEAN /\ taken \in BOOLEAN
    /\ eintr \in BOOLEAN /\ broken \in BOOLEAN
    /\ writing_floppy \in BOOLEAN /\ exit_requested \in BOOLEAN

-----------------------------------------------------------------------------
(* The commands.                                                           *)

LEMMA CommandDomain == DOMAIN Command = CommandPcs
BY DEF Command, CommandPcs

\* Every track of the image has a place in the drive.
LEMMA PlaceInDrive ==
    ASSUME NEW track \in 0 .. Tracks - 1, NEW side \in {0, 1}
    PROVE  /\ Place(track, side) \in DiskPlaces
           /\ Place(track, side)[1] \in 0 .. MaxCyl - 1
           /\ Place(track, side)[2] \in {0, 1}
<1>1. Steps \in {1, 2} /\ Tracks \in Nat /\ (Tracks - 1) * Steps < DriveTracks
      /\ DriveTracks \in 1 .. MaxCyl /\ ReverseSides \in {0, 1}
  BY DiskWriteAssumption, GwSimAssumption
<1>2. track * Steps \in 0 .. DriveTracks - 1
  <2>1. CASE Steps = 1
    BY <2>1, <1>1
  <2>2. CASE Steps = 2
    BY <2>2, <1>1
  <2> QED
    BY <2>1, <2>2, <1>1
<1>3. (side + ReverseSides) % 2 \in {0, 1}
  BY <1>1
<1> QED
  BY <1>1, <1>2, <1>3 DEF Place, DiskPlaces, MaxCyl

\* What write_track() and gw_write_stream() send is bytes.
LEMMA StreamType ==
    ASSUME NEW track \in 0 .. Tracks - 1, NEW side \in {0, 1}
    PROVE  /\ Stream(Place(track, side)) \in Seq(Byte)
           /\ Pulses(Place(track, side)) \in Seq(Byte)
<1>1. Place(track, side)[1] \in 0 .. 87 /\ Place(track, side)[2] \in {0, 1}
  BY PlaceInDrive DEF MaxCyl
<1>2. Pulses(Place(track, side)) \in Seq(Byte)
  BY <1>1, SMTT(60) DEF Pulses, Byte
<1> QED
  BY <1>2 DEF Stream, Byte

\* The bytes of each command, with the codes of greaseweazle.h.
LEMMA CommandBytes ==
    /\ Command["reset"] = <<16, 2>> /\ Command["cleanup"] = <<16, 2>>
    /\ Command["info"] = <<0, 3, 0>> /\ Command["bus"] = <<14, 3, Bus>>
    /\ Command["select"] = <<12, 3, Unit>> /\ Command["deselect"] = <<13, 2>>
    /\ Command["pin"] = <<15, 4, 2, 1>> /\ Command["densel"] = <<15, 4, 2, 0>>
    /\ Command["sidepin"] = <<15, 4, 2, s>>
    /\ Command["motor"] = <<6, 4, Unit, 1>> /\ Command["rpm_on"] = <<6, 4, Unit, 1>>
    /\ Command["spin"] = <<6, 4, Unit, 1>>
    /\ Command["rpm_off"] = <<6, 4, Unit, 0>> /\ Command["rpm_fail"] = <<6, 4, Unit, 0>>
    /\ Command["leave"] = <<6, 4, Unit, 0>> /\ Command["unset"] = <<6, 4, Unit, 0>>
    /\ Command["rflux"] = <<7, 8, 0, 0, 0, 0, 2, 0>>
    /\ Command["rstatus"] = <<9, 2>> /\ Command["status"] = <<9, 2>>
    /\ Command["seek"] = <<2, 3, Place(t, s)[1]>>
    /\ Command["head"] = <<3, 3, Place(t, s)[2]>>
    /\ Command["wflux"] = <<8, 4, 1, 1>>
BY ZenonT(60) DEF Command, CMD

\* READ_FLUX is a frame; the longest one.
LEMMA ReadFluxFrame == IsFrame(<<7, 8, 0, 0, 0, 0, 2, 0>>)
BY DEF IsFrame, Byte, Codes

\* Every command is a frame.
LEMMA CommandType ==
    ASSUME NEW p \in CommandPcs, s \in {0, 1}, t \in Nat,
           p \in {"seek", "head"} => t < Tracks
    PROVE  IsFrame(Command[p])
<1>1. Bus \in Byte /\ Unit \in Byte /\ s \in Byte
  BY GwSimAssumption DEF BUS, MaxUnits, Byte
<1>2. p \in {"seek", "head"} => Place(t, s)[1] \in Byte /\ Place(t, s)[2] \in Byte
  BY PlaceInDrive, DiskWriteAssumption, SMTT(60) DEF MaxCyl, Byte
<1>4. IsFrame(<<16, 2>>) /\ IsFrame(<<13, 2>>) /\ IsFrame(<<9, 2>>)
  BY DEF IsFrame, Byte, Codes
<1>5. IsFrame(<<0, 3, 0>>) /\ IsFrame(<<14, 3, Bus>>) /\ IsFrame(<<12, 3, Unit>>)
  BY <1>1 DEF IsFrame, Byte, Codes
<1>6. /\ IsFrame(<<15, 4, 2, 1>>) /\ IsFrame(<<15, 4, 2, 0>>) /\ IsFrame(<<15, 4, 2, s>>)
      /\ IsFrame(<<6, 4, Unit, 1>>) /\ IsFrame(<<6, 4, Unit, 0>>)
      /\ IsFrame(<<8, 4, 1, 1>>)
  BY <1>1 DEF IsFrame, Byte, Codes
<1>7. CASE p \in {"seek", "head"}
  <2>1. /\ IsFrame(<<2, 3, Place(t, s)[1]>>)
        /\ IsFrame(<<3, 3, Place(t, s)[2]>>)
    BY <1>2, <1>7 DEF IsFrame, Byte, Codes
  <2> QED
    BY <2>1, <1>7, CommandBytes
<1>8. CASE p \in {"reset", "info", "bus", "select", "deselect", "cleanup", "rflux", "rstatus",
                  "status", "wflux"}
  BY <1>4, <1>5, <1>6, <1>8, CommandBytes, ReadFluxFrame, ZenonT(60)
<1>9. CASE p \in {"pin", "densel", "sidepin", "motor", "rpm_on", "spin", "rpm_off",
                  "rpm_fail", "leave", "unset"}
  BY <1>6, <1>9, CommandBytes, ZenonT(60)
<1> QED
  BY <1>7, <1>8, <1>9 DEF CommandPcs

-----------------------------------------------------------------------------
(* Types.                                                                  *)

\* The device keeps its types through a step of the host that leaves it alone
\* and has bytes on both lines.
LEMMA HostKeepsDevice ==
    ASSUME DeviceInv, toDevice' \in Seq(Byte), toHost' \in Seq(Byte),
           UNCHANGED <<sp, gw, media, disk>>
    PROVE  DeviceInv'
BY DEF DeviceInv, SimTypeOK, FrameInv

\* The answer to a command that returns is taken off the line, and no more.
LEMMA ReturnsFacts ==
    ASSUME DeviceInv, NEW p, Returns(p)
    PROVE  /\ pc = p
           /\ DeviceInv'
           /\ UNCHANGED <<toDevice, sp, gw, media, disk, opt, run>>
           /\ waiting' = FALSE /\ eintr' = FALSE
<1>1. \A n \in {2, 3} : Drop(toHost, n) \in Seq(Byte)
  BY DEF Drop, DeviceInv, SimTypeOK
<1>2. toHost' \in Seq(Byte) /\ toDevice' \in Seq(Byte) /\ UNCHANGED <<sp, gw, media, disk>>
  BY <1>1 DEF Returns, DeviceInv, SimTypeOK
<1>3. DeviceInv'
  BY <1>2, HostKeepsDevice
<1> QED
  BY <1>3 DEF Returns

\* A step that returns from a command keeps the types if the program goes on
\* where it may, and changes nothing else but the count of retries and of
\* resets left.
LEMMA ReturnKeepsTypes ==
    ASSUME DataInv, NEW p, Returns(p),
           UNCHANGED <<t, s, wbuf, told, defaulted>>,
           retry_cnt' \in 0 .. MaxRetries, resets' \in 0 .. 3,
           pc' \in HostPcs, pc' \in TrackPcs => Tracks # 0,
           pc' = "cleanup" => resets' # 0
    PROVE  DataInv'
BY ReturnsFacts DEF DataInv, LoopInv

\* Each action of the host keeps the types: main(), dmk2gw(), write_track(),
\* gw_write_stream(), gw_do_command().
LEMMA HostDataStep == DataInv /\ Host => DataInv'
<1> SUFFICES ASSUME DataInv, Host PROVE DataInv'
  OBVIOUS
<1>0. DeviceInv /\ toDevice \in Seq(Byte) /\ toHost \in Seq(Byte)
  BY DEF DataInv, DeviceInv, SimTypeOK
<1> USE DiskWriteAssumption
    DEF HostPcs, CommandPcs, TrackPcs, Stopped, trackVars, hostSigs, LoopInv
<1>1. CASE Send
  <2>1. pc \in CommandPcs /\ toDevice' = toDevice \o Command[pc]
        /\ UNCHANGED <<toHost, sp, gw, media, disk, pc, trackVars, resets, hostSigs, opt, run>>
    BY <1>1, CommandDomain DEF Send
  <2>2. Command[pc] \in Seq(Byte)
    BY <2>1, CommandType, ZenonT(60) DEF DataInv, IsFrame
  <2>3. DeviceInv'
    BY <1>0, <2>1, <2>2, HostKeepsDevice
  <2>4. told' \in [DiskPlaces -> {"untouched", "begun", "written"}]
    BY <1>1 DEF Send, DataInv
  <2> QED
    BY <2>1, <2>3, <2>4 DEF DataInv
<1>2. CASE Open
  <2>1. toHost' \in Seq(Byte)
    BY <1>2 DEF Open
  <2>2. DeviceInv'
    BY <1>0, <1>2, <2>1, HostKeepsDevice DEF Open
  <2> QED
    BY <1>2, <2>2 DEF DataInv, Open
<1>3. CASE InitGw
  <2>1. PICK next \in {<<"reset", "info">>, <<"info", "bus">>, <<"bus", "select">>} :
          /\ Returns(next[1])
          /\ pc' = (IF Okay THEN next[2] ELSE "fatal") /\ UNCHANGED resets
          /\ UNCHANGED <<trackVars, hostSigs, told>>
    BY <1>3 DEF InitGw
  <2>2. /\ resets' \in 0 .. 3 /\ pc' \in HostPcs \ TrackPcs
        /\ pc' = "cleanup" => resets' # 0
    BY <2>1 DEF DataInv, Fatal
  <2> QED
    BY <2>1, <2>2, ReturnKeepsTypes DEF DataInv
<1>4. CASE SetDrive
  <2>1. PICK next \in {<<"select", "pin">>, <<"pin", "motor">>, <<"motor", "rpm_on">>,
                        <<"rpm_on", "rflux">>} :
          /\ Returns(next[1])
          /\ IF Okay THEN pc' = next[2] /\ UNCHANGED resets ELSE Fatal
          /\ UNCHANGED <<trackVars, hostSigs, told>>
    BY <1>4 DEF SetDrive
  <2>2. /\ resets' \in 0 .. 3 /\ pc' \in HostPcs \ TrackPcs
        /\ pc' = "cleanup" => resets' # 0
    BY <2>1 DEF DataInv, Fatal
  <2> QED
    BY <2>1, <2>2, ReturnKeepsTypes DEF DataInv
<1>5. CASE ReadFlux
  <2>1. Returns("rflux") /\ pc = "rflux"
    BY <1>5 DEF ReadFlux, Returns
  <2>2. /\ UNCHANGED <<t, s, wbuf, told, defaulted>>
        /\ retry_cnt' \in 0 .. MaxRetries /\ resets' \in 0 .. 3
        /\ pc' \in HostPcs /\ (pc' \in TrackPcs => Tracks # 0)
        /\ pc' = "cleanup" => resets' # 0
    BY <1>5, <2>1 DEF DataInv, ReadFlux
  <2> QED
    BY <2>1, <2>2, ReturnKeepsTypes
<1>6. CASE ReadStream
  <2>1. toHost' \in Seq(Byte)
    BY <1>0, <1>6 DEF ReadStream, Drop
  <2>2. DeviceInv'
    BY <1>0, <1>6, <2>1, HostKeepsDevice DEF ReadStream
  <2> QED
    BY <1>6, <2>2 DEF DataInv, ReadStream
<1>7. CASE ReadStatus
  <2>1. Returns("rstatus") /\ pc = "rstatus"
    BY <1>7 DEF ReadStatus, Returns
  <2>2. /\ UNCHANGED <<t, s, wbuf, told, defaulted>>
        /\ retry_cnt' \in 0 .. MaxRetries /\ resets' \in 0 .. 3
        /\ pc' \in HostPcs /\ (pc' \in TrackPcs => Tracks # 0)
        /\ pc' = "cleanup" => resets' # 0
    BY <1>7, <2>1 DEF DataInv, ReadStatus
  <2> QED
    BY <2>1, <2>2, ReturnKeepsTypes
<1>8. CASE RpmKnown
  <2>1. Returns("rpm_off") /\ pc = "rpm_off"
    BY <1>8 DEF RpmKnown, Returns
  <2>2. /\ UNCHANGED <<t, s, wbuf, told, defaulted>>
        /\ retry_cnt' \in 0 .. MaxRetries /\ resets' \in 0 .. 3
        /\ pc' \in HostPcs /\ (pc' \in TrackPcs => Tracks # 0)
        /\ pc' = "cleanup" => resets' # 0
    BY <1>8, <2>1 DEF DataInv, RpmKnown, Fatal, StartLoop
  <2> QED
    BY <2>1, <2>2, ReturnKeepsTypes
<1>9. CASE RpmUnknown
  <2>1. Returns("rpm_fail") /\ pc = "rpm_fail"
    BY <1>9 DEF RpmUnknown, Returns
  <2>2. /\ UNCHANGED <<t, s, wbuf, told, defaulted>>
        /\ retry_cnt' \in 0 .. MaxRetries /\ resets' \in 0 .. 3
        /\ pc' \in HostPcs /\ (pc' \in TrackPcs => Tracks # 0)
        /\ pc' = "cleanup" => resets' # 0
    BY <1>9, <2>1 DEF DataInv, RpmUnknown, Fatal
  <2> QED
    BY <2>1, <2>2, ReturnKeepsTypes
<1>10. CASE SetDensity
  <2>1. Returns("densel") /\ pc = "densel"
    BY <1>10 DEF SetDensity, Returns
  <2>2. /\ UNCHANGED <<t, s, wbuf, told, defaulted>>
        /\ retry_cnt' \in 0 .. MaxRetries /\ resets' \in 0 .. 3
        /\ pc' \in HostPcs /\ (pc' \in TrackPcs => Tracks # 0)
        /\ pc' = "cleanup" => resets' # 0
    BY <1>10, <2>1 DEF DataInv, SetDensity, Fatal, StartLoop
  <2> QED
    BY <2>1, <2>2, ReturnKeepsTypes
<1>11. CASE SpinUp
  <2>1. Returns("spin") /\ pc = "spin"
    BY <1>11 DEF SpinUp, Returns
  <2>2. /\ UNCHANGED <<t, s, wbuf, told, defaulted>>
        /\ retry_cnt' \in 0 .. MaxRetries /\ resets' \in 0 .. 3
        /\ pc' \in HostPcs /\ (pc' \in TrackPcs => Tracks # 0)
        /\ pc' = "cleanup" => resets' # 0
    BY <1>11, <2>1 DEF DataInv, SpinUp, TrackStart
  <2> QED
    BY <2>1, <2>2, ReturnKeepsTypes
<1>12. CASE SideDensity
  <2>1. Returns("sidepin") /\ pc = "sidepin"
    BY <1>12 DEF SideDensity, Returns
  <2>2. /\ UNCHANGED <<t, s, wbuf, told, defaulted>>
        /\ retry_cnt' \in 0 .. MaxRetries /\ resets' \in 0 .. 3
        /\ pc' \in HostPcs /\ (pc' \in TrackPcs => Tracks # 0)
        /\ pc' = "cleanup" => resets' # 0
    BY <1>12, <2>1 DEF DataInv, SideDensity, Fatal
  <2> QED
    BY <2>1, <2>2, ReturnKeepsTypes
<1>13. CASE Seek
  <2>1. Returns("seek") /\ pc = "seek"
    BY <1>13 DEF Seek, Returns
  <2>2. /\ UNCHANGED <<t, s, wbuf, told, defaulted>>
        /\ retry_cnt' \in 0 .. MaxRetries /\ resets' \in 0 .. 3
        /\ pc' \in HostPcs /\ (pc' \in TrackPcs => Tracks # 0)
        /\ pc' = "cleanup" => resets' # 0
    BY <1>13, <2>1 DEF DataInv, Seek
  <2> QED
    BY <2>1, <2>2, ReturnKeepsTypes
<1>14. CASE SelectHead
  <2>1. Returns("head") /\ pc = "head"
    BY <1>14 DEF SelectHead, Returns
  <2>2. /\ UNCHANGED <<t, s, wbuf, told, defaulted>>
        /\ retry_cnt' \in 0 .. MaxRetries /\ resets' \in 0 .. 3
        /\ pc' \in HostPcs /\ (pc' \in TrackPcs => Tracks # 0)
        /\ pc' = "cleanup" => resets' # 0
    BY <1>14, <2>1 DEF DataInv, SelectHead
  <2> QED
    BY <2>1, <2>2, ReturnKeepsTypes
<1>15. CASE WriteFlux
  <2>1. pc = "wflux" /\ DeviceInv' /\ opt' = opt /\ run' = run
    BY <1>0, <1>15, ReturnsFacts DEF WriteFlux
  <2>2. Stream(Place(t, s)) \in Seq(Byte)
    BY <2>1, StreamType, SMTT(60) DEF DataInv
  <2> QED
    BY <1>15, <2>1, <2>2 DEF DataInv, WriteFlux, Fatal
<1>16. CASE Accept
  <2>1. Append(toDevice, Head(wbuf)) \in Seq(Byte) /\ Tail(wbuf) \in Seq(Byte)
    BY <1>0, <1>16 DEF Accept, DataInv
  <2>2. DeviceInv'
    BY <1>0, <1>16, <2>1, HostKeepsDevice DEF Accept
  <2> QED
    BY <1>16, <2>1, <2>2 DEF DataInv, Accept
<1>17. CASE WriteReturns
  <2>1. DeviceInv'
    BY <1>0, <1>17, HostKeepsDevice DEF WriteReturns, simVars
  <2> QED
    BY <1>17, <2>1 DEF DataInv, WriteReturns
<1>18. CASE Sync
  <2>1. toHost' \in Seq(Byte)
    BY <1>0, <1>18, SMTT(60) DEF Sync
  <2>2. DeviceInv'
    BY <1>0, <1>18, <2>1, HostKeepsDevice DEF Sync
  <2> QED
    BY <1>18, <2>2 DEF DataInv, Sync
<1>19. CASE Retry
  <2>1. Returns("status") /\ pc = "status"
    BY <1>19 DEF Retry, Returns
  <2>2. /\ UNCHANGED <<t, s, wbuf, told, defaulted>>
        /\ retry_cnt' \in 0 .. MaxRetries /\ resets' \in 0 .. 3
        /\ pc' \in HostPcs /\ (pc' \in TrackPcs => Tracks # 0)
        /\ pc' = "cleanup" => resets' # 0
    BY <1>19, <2>1 DEF DataInv, Retry, MayRetry
  <2> QED
    BY <2>1, <2>2, ReturnKeepsTypes
<1>20. CASE TrackWritten
  <2>1. pc = "status" /\ DeviceInv' /\ opt' = opt /\ run' = run
    BY <1>0, <1>20, ReturnsFacts DEF TrackWritten
  <2>2. told' \in [DiskPlaces -> {"untouched", "begun", "written"}]
    BY <1>20 DEF TrackWritten, DataInv
  <2>3. CASE UNCHANGED <<t, s>> /\ pc' = "leave"
    BY <1>20, <2>1, <2>2, <2>3 DEF DataInv, TrackWritten
  <2>4. CASE ~LastTrack /\ pc' = TrackStart
    <3>1. t' = (IF s = Sides - 1 THEN t + 1 ELSE t) /\ s' = (s + 1) % Sides
      BY <1>20, <2>4 DEF TrackWritten, TrackStart
    <3>2. t' \in Nat /\ s' \in {0, 1} /\ s' < Sides /\ t' < Tracks /\ Tracks # 0
      BY <2>1, <2>4, <3>1 DEF DataInv, LastTrack
    <3> QED
      BY <1>20, <2>1, <2>2, <2>4, <3>2 DEF DataInv, TrackWritten, TrackStart
  <2> QED
    BY <1>20, <2>3, <2>4 DEF TrackWritten
<1>21. CASE TrackFailed
  <2>1. Returns("status") /\ pc = "status"
    BY <1>21 DEF TrackFailed, Returns
  <2>2. /\ UNCHANGED <<t, s, wbuf, told, defaulted>>
        /\ retry_cnt' \in 0 .. MaxRetries /\ resets' \in 0 .. 3
        /\ pc' \in HostPcs /\ (pc' \in TrackPcs => Tracks # 0)
        /\ pc' = "cleanup" => resets' # 0
    BY <1>21, <2>1 DEF DataInv, TrackFailed, Fatal
  <2> QED
    BY <2>1, <2>2, ReturnKeepsTypes
<1>22. CASE Leave
  <2>1. Returns("leave") /\ pc = "leave"
    BY <1>22 DEF Leave, Returns
  <2>2. /\ UNCHANGED <<t, s, wbuf, told, defaulted>>
        /\ retry_cnt' \in 0 .. MaxRetries /\ resets' \in 0 .. 3
        /\ pc' \in HostPcs /\ (pc' \in TrackPcs => Tracks # 0)
        /\ pc' = "cleanup" => resets' # 0
    BY <1>22, <2>1 DEF DataInv, Leave
  <2> QED
    BY <2>1, <2>2, ReturnKeepsTypes
<1>23. CASE UnsetDrive
  <2>1. PICK p \in {"unset", "deselect"} : Returns(p)
    BY <1>23 DEF UnsetDrive
  <2>2. pc' \in {"deselect", "done"} /\ UNCHANGED <<trackVars, resets, hostSigs, told>>
    BY <1>23 DEF UnsetDrive
  <2> QED
    BY <2>1, <2>2, ReturnKeepsTypes DEF DataInv
<1>24. CASE Cleanup
  <2>1. Returns("cleanup") /\ pc = "cleanup"
    BY <1>24 DEF Cleanup, Returns
  <2>2. /\ UNCHANGED <<t, s, wbuf, told, defaulted>>
        /\ retry_cnt' \in 0 .. MaxRetries /\ resets' \in 0 .. 3
        /\ pc' \in HostPcs /\ (pc' \in TrackPcs => Tracks # 0)
        /\ pc' = "cleanup" => resets' # 0
    BY <1>24, <2>1 DEF DataInv, Cleanup
  <2> QED
    BY <2>1, <2>2, ReturnKeepsTypes
<1> QED
  BY <1>1, <1>2, <1>3, <1>4, <1>5, <1>6, <1>7, <1>8, <1>9, <1>10, <1>11, <1>12, <1>13, <1>14, <1>15, <1>16, <1>17, <1>18, <1>19, <1>20, <1>21, <1>22, <1>23, <1>24 DEF Host

\* So does everything else that happens: the device's actions, a signal, and
\* another run of the program.
LEMMA DataStep == DataInv /\ [Next]_vars => DataInv'
<1> SUFFICES ASSUME DataInv, [Next]_vars PROVE DataInv'
  OBVIOUS
<1>0. DeviceInv /\ toDevice \in Seq(Byte) /\ toHost \in Seq(Byte)
  BY DEF DataInv, DeviceInv, SimTypeOK
<1>1. CASE Host
  BY <1>1, HostDataStep
<1>2. CASE Device /\ UNCHANGED <<hostVars, told>>
  BY <1>0, <1>2, DeviceStep DEF DataInv, hostVars, trackVars, hostSigs, LoopInv
<1>3. ASSUME NEW sig \in Signals, RequestExit(sig) PROVE DataInv'
  <2>1. DeviceInv'
    BY <1>0, <1>3, HostKeepsDevice DEF RequestExit, simVars
  <2>2. defaulted' \subseteq Signals \ {"INT"}
    BY <1>3 DEF RequestExit, DataInv
  <2> QED
    BY <1>3, <2>1, <2>2 DEF DataInv, RequestExit, trackVars, LoopInv
<1>4. ASSUME NEW sig \in Signals, ResetAndDie(sig) PROVE DataInv'
  <2>1. <<16, 2>> \in Seq(Byte)
    BY DEF Byte
  <2>2. toDevice' \in Seq(Byte)
    BY <1>0, <1>4, <2>1 DEF ResetAndDie, CMD
  <2>3. DeviceInv'
    BY <1>0, <1>4, <2>2, HostKeepsDevice DEF ResetAndDie
  <2> QED
    BY <1>4, <2>3
       DEF DataInv, ResetAndDie, trackVars, hostSigs, LoopInv, HostPcs, Stopped, TrackPcs
<1>5. ASSUME NEW sig \in Signals, Die(sig) PROVE DataInv'
  <2>1. DeviceInv'
    BY <1>0, <1>5, HostKeepsDevice DEF Die, simVars
  <2> QED
    BY <1>5, <2>1 DEF DataInv, Die, trackVars, hostSigs, LoopInv, HostPcs, Stopped, TrackPcs
<1>6. CASE NewRun
  <2>1. DeviceInv'
    BY <1>0, <1>6, HostKeepsDevice DEF NewRun, simVars
  <2>2. <<>> \in Seq(Byte)
    OBVIOUS
  <2> QED
    BY <1>6, <2>1, <2>2, DiskWriteAssumption
       DEF DataInv, NewRun, LoopInv, HostPcs, TrackPcs
<1>7. CASE UNCHANGED vars
  <2>1. DeviceInv'
    BY <1>0, <1>7, HostKeepsDevice DEF vars, simVars
  <2> QED
    BY <1>7, <2>1 DEF DataInv, vars, hostVars, trackVars, hostSigs, LoopInv
<1> QED
  BY <1>1, <1>2, <1>3, <1>4, <1>5, <1>6, <1>7 DEF Next, Signal

\* Each step keeps the flags Boolean.
LEMMA FlagStep == FlagInv /\ [Next]_vars => FlagInv'
<1> SUFFICES ASSUME FlagInv, [Next]_vars PROVE FlagInv'
  OBVIOUS
<1> USE DEF FlagInv, Returns, hostSigs, trackVars
<1>1. CASE Host
  <2>1. CASE Send
    BY <2>1, Zenon DEF Send
  <2>2. CASE Open
    BY <2>2, Zenon DEF Open
  <2>3. CASE InitGw
    BY <2>3, Zenon DEF InitGw
  <2>4. CASE SetDrive
    BY <2>4, Zenon DEF SetDrive
  <2>5. CASE ReadFlux
    BY <2>5, Zenon DEF ReadFlux
  <2>6. CASE ReadStream
    BY <2>6, Zenon DEF ReadStream
  <2>7. CASE ReadStatus
    BY <2>7, Zenon DEF ReadStatus
  <2>8. CASE RpmKnown
    BY <2>8, Zenon DEF RpmKnown, StartLoop
  <2>9. CASE RpmUnknown
    BY <2>9, Zenon DEF RpmUnknown
  <2>10. CASE SetDensity
    BY <2>10, Zenon DEF SetDensity, StartLoop
  <2>11. CASE SpinUp
    BY <2>11, Zenon DEF SpinUp
  <2>12. CASE SideDensity
    BY <2>12, Zenon DEF SideDensity
  <2>13. CASE Seek
    BY <2>13, Zenon DEF Seek
  <2>14. CASE SelectHead
    BY <2>14, Zenon DEF SelectHead
  <2>15. CASE WriteFlux
    BY <2>15, Zenon DEF WriteFlux
  <2>16. CASE Accept
    BY <2>16, Zenon DEF Accept
  <2>17. CASE WriteReturns
    BY <2>17, Zenon DEF WriteReturns
  <2>18. CASE Sync
    BY <2>18, Zenon DEF Sync
  <2>19. CASE Retry
    BY <2>19, Zenon DEF Retry
  <2>20. CASE TrackWritten
    BY <2>20, Zenon DEF TrackWritten
  <2>21. CASE TrackFailed
    BY <2>21, Zenon DEF TrackFailed
  <2>22. CASE Leave
    BY <2>22, Zenon DEF Leave
  <2>23. CASE UnsetDrive
    BY <2>23, Zenon DEF UnsetDrive
  <2>24. CASE Cleanup
    BY <2>24, Zenon DEF Cleanup
  <2> QED
    BY <1>1, <2>1, <2>2, <2>3, <2>4, <2>5, <2>6, <2>7, <2>8, <2>9, <2>10, <2>11, <2>12, <2>13, <2>14, <2>15, <2>16, <2>17, <2>18, <2>19, <2>20, <2>21, <2>22, <2>23, <2>24 DEF Host
<1>2. CASE Device /\ UNCHANGED <<hostVars, told>>
  BY <1>2, Zenon DEF hostVars
<1>3. ASSUME NEW sig \in Signals, RequestExit(sig) PROVE FlagInv'
  <2>1. eintr' \in BOOLEAN /\ exit_requested' = TRUE /\ broken' = eintr'
        /\ UNCHANGED <<waiting, taken, writing_floppy>>
    BY <1>3 DEF RequestExit
  <2> QED
    BY <2>1
<1>4. ASSUME NEW sig \in Signals, ResetAndDie(sig) \/ Die(sig) PROVE FlagInv'
  BY <1>4, ZenonT(60) DEF ResetAndDie, Die
<1>5. CASE NewRun
  BY <1>5, Zenon DEF NewRun
<1>6. CASE UNCHANGED vars
  BY <1>6, Zenon DEF vars, hostVars
<1> QED
  BY <1>1, <1>2, <1>3, <1>4, <1>5, <1>6 DEF Next, Signal

\* At the start everything has its type.
LEMMA InitTypes == Init => DataInv /\ FlagInv
<1> SUFFICES ASSUME Init PROVE DataInv /\ FlagInv
  OBVIOUS
<1>1. <<>> \in Seq(Byte)
  OBVIOUS
<1>2. sp \in SpType /\ sp.cbuf = <<>>
  BY <1>1, Zenon DEF Init, SimInit, SpType
<1>3. gw \in GwType
  BY GwPowerOn DEF Init, SimInit
<1>4. DeviceInv
  BY <1>1, <1>2, <1>3, GwSimAssumption
     DEF DeviceInv, SimTypeOK, FrameInv, Init, SimInit, MaxFrame
<1>5. DataInv
  BY <1>1, <1>4, DiskWriteAssumption DEF DataInv, Init, HostPcs, LoopInv, TrackPcs
<1> QED
  BY <1>5, Zenon DEF Init, FlagInv

\* Every variable keeps its type for every image and drive: no byte that the
\* host or the device puts on the line is out of range, the device's buffer is
\* never overrun, the tracks sought are tracks of the image and the drive, and
\* no retry is one too many.
THEOREM TypeCorrect == Spec => []TypeOK
<1>1. Init => DataInv /\ FlagInv
  BY InitTypes
<1>2. DataInv /\ FlagInv /\ [Next]_vars => DataInv' /\ FlagInv'
  BY DataStep, FlagStep
<1>3. DataInv /\ FlagInv => TypeOK
  BY CommandDomain DEF DataInv, FlagInv, TypeOK, DeviceInv, HostPcs
<1> QED
  BY <1>1, <1>2, <1>3, PTL DEF Spec

-----------------------------------------------------------------------------
(* The first program that dmk2gw's user runs after the device was switched *)
(* on stays in step with the device unless a signal breaks a call off, and *)
(* what it writes it writes where TrackWriter allows.  A program that      *)
(* follows a killed one may find the device in the middle of a stream or a *)
(* frame; that is left to TLC.                                             *)

\* Both queues are empty and the device waits for a command.
Idle == /\ toDevice = <<>> /\ toHost = <<>>
        /\ sp.state = "CMD" /\ sp.cbuf = <<>>

\* The command of this point is on its way, and nothing else is.
Underway ==
    /\ Collecting(Command[pc])
    /\ Len(toDevice) = Len(Command[pc]) - Len(sp.cbuf)
    /\ toHost = <<>>

\* It has been answered, and has had its effect on the device.
Answered == toDevice = <<>> /\ AnswerTo(Command[pc])

\* The stream of the track: with the device, on the line, still to be
\* accepted.
Receiving ==
    LET stream == Stream(Place(t, s)) IN
    /\ sp.state = "WRSTREAM" /\ sp.cbuf = <<>> /\ toHost = <<>>
    /\ Len(sp.wbuf) + Len(toDevice) + Len(wbuf) = Len(stream)
    /\ Len(sp.wbuf) < Len(stream)
    /\ \A i \in 1 .. Len(sp.wbuf) : sp.wbuf[i] = stream[i]
    /\ \A i \in 1 .. Len(toDevice) : toDevice[i] = stream[Len(sp.wbuf) + i]
    /\ \A i \in 1 .. Len(wbuf) :
         wbuf[i] = stream[Len(sp.wbuf) + Len(toDevice) + i]

OnDisk == disk[Place(t, s)] = Pulses(Place(t, s))

\* The whole stream has been received and acknowledged.
Received ==
    /\ sp.state = "CMD" /\ sp.cbuf = <<>> /\ toDevice = <<>>
    /\ Len(toHost) = 1 /\ toHost[1] = 0
    /\ wbuf = <<>> /\ (gw.flux_status = 0 => OnDisk)

\* The flux of the revolution that the speed is measured with.
Revolution ==
    /\ toDevice = <<>> /\ sp.state = "CMD" /\ sp.cbuf = <<>>
    /\ Len(toHost) \in {1, 2} /\ toHost[Len(toHost)] = 0
    /\ Len(toHost) = 2 => toHost[1] # 0

\* Host and device agree on what has been sent and what comes next.
Together ==
    /\ pc \in CommandPcs => IF waiting THEN Underway \/ Answered ELSE Idle
    /\ pc \in {"open", "done", "fatal"} => Idle
    /\ pc = "rstream" => Revolution
    /\ pc \in {"stream", "sync"} => Receiving \/ Received

\* What the answers so far have told the host of the device.
Known ==
    /\ pc \in {"head", "wflux", "stream", "sync", "status"} => gw.cyl = Place(t, s)[1]
    /\ pc \in {"wflux", "stream", "sync", "status"} => gw.head = Place(t, s)[2]
    /\ pc \in {"rstream", "rstatus"} /\ media = "none" => gw.flux_status # 0
    /\ pc = "status" /\ wbuf = <<>> /\ gw.flux_status = 0 => OnDisk

\* The answer to the command that starts the drive comes too late: it will be
\* taken for the answer to the next one.
SpinLate ==
    \/ /\ toHost = <<>> /\ Collecting(Command["spin"])
       /\ ~waiting => Len(toDevice) = Len(Command["spin"]) - Len(sp.cbuf)
    \/ /\ toHost # <<>> /\ toHost[1] = 6
       /\ ~waiting => toDevice = <<>> /\ sp.state = "CMD" /\ sp.cbuf = <<>>

\* The byte that ends a stream comes too late.
SyncLate == IF toHost = <<>> THEN sp.state = "WRSTREAM" ELSE toHost[1] = 0

\* A signal has broken a call off, and an answer has been left on the line.
Behind ==
    /\ broken /\ exit_requested /\ ~eintr
    /\ \/ pc \in {"sidepin", "seek"} /\ SpinLate
       \/ pc = "status" /\ SyncLate
       \/ pc \in {"leave", "unset", "deselect", "cleanup", "done", "fatal"}

SessionInv == pc = "killed" \/ (Together /\ Known) \/ Behind

NoWriteFlux(bytes, first) == \A i \in first .. Len(bytes) : bytes[i] # 8

\* The line is at frame c, which another one may follow; behind them nothing
\* can start a write.
OnLine(c, d) ==
    /\ Collecting(c)
    /\ Len(toDevice) >= Len(c) - Len(sp.cbuf) + Len(d)
    /\ \A i \in 1 .. Len(d) : toDevice[Len(c) - Len(sp.cbuf) + i] = d[i]
    /\ NoWriteFlux(toDevice, Len(c) - Len(sp.cbuf) + Len(d) + 1)

WriteBegun == told[Here] = "begun"

\* Whatever is on the line, a write starts only where one was begun: the bytes
\* of a stream and of most commands cannot start it, and a frame that could
\* starts where the host let it start.
LineSafe ==
    \/ /\ sp.state = "WRSTREAM" /\ sp.cbuf = <<>>
       /\ WriteBegun /\ NoWriteFlux(toDevice, 1)
    \/ sp.state = "CMD" /\ NoWriteFlux(sp.cbuf, 1) /\ NoWriteFlux(toDevice, 1)
    \/ \E c, d \in Seq(Byte) :
         /\ OnLine(c, d) /\ IsFrame(c)
         /\ c[1] = 8 => WriteBegun /\ d = <<>>
         /\ d # <<>> => IsFrame(d) /\ d[1] # 8

\* What a signal may have done: in any run.
SignalInv ==
    /\ eintr => broken
    /\ broken => exit_requested
    /\ pc \notin CommandPcs => pc \in Stopped \/ ~waiting
    /\ writing_floppy \/ eintr =>
         pc \in TrackPcs \cup {"spin", "leave", "cleanup"} \cup Stopped

\* The tracks before this one are written; this one may be under way.
ProgressInv ==
    /\ \A track \in 0 .. Tracks - 1, side \in 0 .. Sides - 1 :
         track < t \/ (track = t /\ side < s) => told[Place(track, side)] = "written"
    /\ \A p \in DiskPlaces : told[p] = "begun" => Tracks # 0 /\ p = Place(t, s)
    /\ pc \in {"stream", "sync", "status"} \/ (pc = "wflux" /\ waiting) =>
         told[Place(t, s)] = "begun"

\* The drive has no diskette: found out while the speed is measured.
MediaInv ==
    media = "none" =>
        /\ pc \notin TrackPcs \cup {"rpm_off", "densel", "spin", "leave"}
        /\ \A p \in DiskPlaces : told[p] = "untouched"

FirstRunInv ==
    /\ run # 0
    /\ run = 1 => SessionInv /\ LineSafe /\ ProgressInv /\ MediaInv

Invariant == DataInv /\ FlagInv /\ SignalInv /\ FirstRunInv

-----------------------------------------------------------------------------
(* Signals.                                                                *)

\* Every step keeps what is known of signals: handler() runs to its end, and
\* asks for the end of the program once only.
LEMMA SignalStep ==
    ASSUME DataInv, FlagInv, SignalInv, [Next]_vars
    PROVE  SignalInv'
<1> USE DEF SignalInv, FlagInv, CommandPcs, TrackPcs, Stopped, trackVars, hostSigs
<1>1. CASE Host
  <2>1. CASE Send
    BY <2>1, CommandDomain DEF Send
  <2>2. CASE Open
    BY <2>2 DEF Open
  <2>3. CASE InitGw
    BY <2>3 DEF InitGw, Returns
  <2>4. CASE SetDrive
    BY <2>4 DEF SetDrive, Fatal, Returns
  <2>5. CASE ReadFlux
    BY <2>5 DEF ReadFlux, Returns
  <2>6. CASE ReadStream
    BY <2>6 DEF ReadStream
  <2>7. CASE ReadStatus
    BY <2>7 DEF ReadStatus, Returns
  <2>8. CASE RpmKnown
    BY <2>8 DEF RpmKnown, Fatal, StartLoop, Returns
  <2>9. CASE RpmUnknown
    BY <2>9 DEF RpmUnknown, Fatal, Returns
  <2>10. CASE SetDensity
    BY <2>10 DEF SetDensity, Fatal, StartLoop, Returns
  <2>11. CASE SpinUp
    BY <2>11 DEF SpinUp, TrackStart, Returns
  <2>12. CASE SideDensity
    BY <2>12 DEF SideDensity, Fatal, Returns
  <2>13. CASE Seek
    BY <2>13 DEF Seek, Returns
  <2>14. CASE SelectHead
    BY <2>14 DEF SelectHead, Returns
  <2>15. CASE WriteFlux
    BY <2>15 DEF WriteFlux, Fatal, Returns
  <2>16. CASE Accept
    BY <2>16 DEF Accept
  <2>17. CASE WriteReturns
    BY <2>17 DEF WriteReturns
  <2>18. CASE Sync
    BY <2>18 DEF Sync
  <2>19. CASE Retry
    BY <2>19 DEF Retry, Returns
  <2>20. CASE TrackWritten
    BY <2>20 DEF TrackWritten, TrackStart, Returns
  <2>21. CASE TrackFailed
    BY <2>21 DEF TrackFailed, Fatal, Returns
  <2>22. CASE Leave
    BY <2>22 DEF Leave, Returns
  <2>23. CASE UnsetDrive
    BY <2>23 DEF UnsetDrive, Returns
  <2>24. CASE Cleanup
    BY <2>24 DEF Cleanup, Returns
  <2> QED
    BY <1>1, <2>1, <2>2, <2>3, <2>4, <2>5, <2>6, <2>7, <2>8, <2>9, <2>10, <2>11, <2>12, <2>13, <2>14, <2>15, <2>16, <2>17, <2>18, <2>19, <2>20, <2>21, <2>22, <2>23, <2>24 DEF Host
<1>2. CASE Device /\ UNCHANGED <<hostVars, told>>
  BY <1>2 DEF hostVars
<1>3. ASSUME NEW sig \in Signals, RequestExit(sig) PROVE SignalInv'
  BY <1>3 DEF RequestExit, Deliverable
<1>4. ASSUME NEW sig \in Signals, ResetAndDie(sig) \/ Die(sig) PROVE SignalInv'
  BY <1>4 DEF ResetAndDie, Die
<1>5. CASE NewRun
  BY <1>5 DEF NewRun
<1>6. CASE UNCHANGED vars
  BY <1>6 DEF vars, hostVars
<1> QED
  BY <1>1, <1>2, <1>3, <1>4, <1>5, <1>6 DEF Next, Signal

-----------------------------------------------------------------------------
(* The device's side of the session.                                       *)

\* The stream of a track.
LEMMA StreamFacts ==
    ASSUME DataInv, Tracks # 0, NEW p, p = Place(t, s)
    PROVE  /\ p \in DiskPlaces /\ p[1] \in 0 .. 87 /\ p[2] \in {0, 1}
           /\ Stream(p) \in Seq(Byte) /\ Pulses(p) \in Seq(Byte)
           /\ Len(Stream(p)) = 3 /\ Len(Pulses(p)) = 2
           /\ Stream(p)[1] = 10 + p[1] /\ Stream(p)[2] = 100 + p[2] /\ Stream(p)[3] = 0
           /\ Pulses(p)[1] = 10 + p[1] /\ Pulses(p)[2] = 100 + p[2]
<1>1. t \in 0 .. Tracks - 1 /\ s \in {0, 1}
  BY DiskWriteAssumption DEF DataInv, LoopInv
<1>2. p \in DiskPlaces /\ p[1] \in 0 .. MaxCyl - 1 /\ p[2] \in {0, 1}
  BY <1>1, PlaceInDrive
<1>3. Stream(p) \in Seq(Byte) /\ Pulses(p) \in Seq(Byte)
  BY <1>1, StreamType
<1> QED
  BY <1>2, <1>3 DEF Stream, Pulses, MaxCyl

\* What the commands of this point are, while tracks are written.
LEMMA CommandFrame ==
    ASSUME DataInv, pc \in CommandPcs
    PROVE  IsFrame(Command[pc])
<1>1. pc \in {"seek", "head"} => t < Tracks
  BY DEF DataInv, LoopInv, TrackPcs
<1> QED
  BY <1>1, CommandType DEF DataInv

\* A command on its way is collected, or answered.
LEMMA DeviceAnswers ==
    ASSUME DataInv, pc \in CommandPcs, Underway, Device, UNCHANGED <<pc, t, s>>
    PROVE  /\ Underway' \/ Answered'
           /\ UNCHANGED <<media, disk>>
           /\ pc \in {"rstatus", "wflux", "status"} => gw' = gw
           /\ pc = "head" => gw'.cyl = gw.cyl
<1>0. PICK c : c = Command[pc]
  OBVIOUS
<1>1. IsFrame(c) /\ DeviceInv
  BY <1>0, CommandFrame DEF DataInv
<1>2. Command' = Command /\ c = Command[pc]'
  BY <1>0 DEF Command
<1>3. Collecting(c) /\ Len(toDevice) = Len(c) - Len(sp.cbuf) /\ toHost = <<>>
  BY <1>0 DEF Underway
<1>4. Len(sp.cbuf) \in Nat /\ Len(c) \in 2 .. 8 /\ Len(sp.cbuf) < Len(c)
  BY <1>1, <1>3, SpFields DEF DeviceInv, SimTypeOK, Collecting, IsFrame
<1>5. toDevice # <<>> /\ Len(toDevice') = Len(toDevice) - 1 /\ toDevice' \in Seq(Byte)
  BY <1>1, DeviceTakesByte, FrameFacts
<1>6. /\ pc \in {"rstatus", "status"} => c[1] = 9
      /\ pc = "wflux" => c[1] = 8
      /\ pc = "head" => c[1] = 3
  BY <1>0, CommandBytes
<1>7. CASE Len(sp.cbuf) + 1 < Len(c)
  <2>1. /\ Collecting(c)' /\ Len(sp'.cbuf) = Len(sp.cbuf) + 1
        /\ UNCHANGED <<toHost, gw, media, disk>>
    BY <1>1, <1>3, <1>7, FrameGrows
  <2>2. Len(toDevice') = Len(c) - Len(sp'.cbuf)
    <3> DEFINE l == Len(toDevice)
               r == Len(toDevice')
               n == Len(sp.cbuf)
               m == Len(sp'.cbuf)
               k == Len(c)
    <3>1. n \in Nat /\ k \in Nat /\ l = k - n /\ r = l - 1 /\ m = n + 1
      BY <1>3, <1>4, <1>5, <2>1
    <3> HIDE DEF l, r, n, m, k
    <3>2. r = k - m
      BY <3>1
    <3> QED
      BY <3>2 DEF r, k, m
  <2>3. Underway'
    BY <1>2, <1>3, <2>1, <2>2 DEF Underway
  <2> QED
    BY <2>1, <2>3
<1>8. CASE Len(sp.cbuf) + 1 = Len(c)
  <2>1. /\ Does(c[1]) /\ Frame[1] = c[1]
        /\ \A i \in 1 .. Len(c) : Argument(i) = {c[i]}
    BY <1>1, <1>3, <1>8, FrameEnds
  <2>2. /\ AnswerTo(c)' /\ UNCHANGED <<media, disk>>
        /\ c[1] \in {8, 9} => gw' = gw
        /\ c[1] = 3 => gw'.cyl = gw.cyl
    BY <1>1, <1>3, <1>5, <2>1, CommandEffect DEF Collecting
  <2>3. Len(toDevice') = 0
    BY <1>3, <1>4, <1>5, <1>8
  <2>4. toDevice' = <<>>
    BY <1>5, <2>3
  <2>5. Answered'
    BY <1>2, <2>2, <2>4 DEF Answered
  <2> QED
    BY <1>6, <2>2, <2>5
<1> QED
  BY <1>4, <1>7, <1>8

\* A byte of the stream reaches the device.
LEMMA DeviceReceives ==
    ASSUME DataInv, Tracks # 0, Receiving, Here = Place(t, s), Device,
           UNCHANGED <<t, s, wbuf>>
    PROVE  /\ Receiving' \/ Received'
           /\ gw'.cyl = gw.cyl /\ gw'.head = gw.head /\ media' = media
<1>0. PICK p : p = Place(t, s)
  OBVIOUS
<1> DEFINE stream == Stream(p)
           got == sp.wbuf
           line == toDevice
           a == Len(got)
           b == Len(line)
           d == Len(wbuf)
<1>1. DeviceInv /\ got \in Seq(Byte) /\ line \in Seq(Byte) /\ wbuf \in Seq(Byte)
      /\ disk \in [DiskPlaces -> Seq(Byte)]
  BY SpFields DEF DataInv, DeviceInv, SimTypeOK
<1>10. /\ Stream(p)[1] = 10 + p[1] /\ Stream(p)[2] = 100 + p[2] /\ p[1] \in 0 .. 87
       /\ p[2] \in {0, 1}
  BY <1>0, StreamFacts
<1>11. stream[1] # 0 /\ stream[2] # 0
  BY <1>10
<1>2. /\ p \in DiskPlaces /\ stream \in Seq(Byte) /\ Pulses(p) \in Seq(Byte)
      /\ Len(stream) = 3 /\ Len(Pulses(p)) = 2
      /\ stream[1] # 0 /\ stream[2] # 0 /\ stream[3] = 0
      /\ stream[1] = Pulses(p)[1] /\ stream[2] = Pulses(p)[2]
  BY <1>0, <1>11, StreamFacts
<1>3. /\ a \in Nat /\ b \in Nat /\ d \in Nat /\ a + b + d = 3 /\ a < 3
      /\ \A i \in 1 .. a : got[i] = stream[i]
      /\ \A i \in 1 .. b : line[i] = stream[a + i]
      /\ \A i \in 1 .. d : wbuf[i] = stream[a + b + i]
      /\ sp.state = "WRSTREAM" /\ sp.cbuf = <<>> /\ toHost = <<>>
  BY <1>0, <1>1, <1>2 DEF Receiving
<1>4. /\ b >= 1 /\ Len(line') = b - 1 /\ line' \in Seq(Byte)
      /\ \A i \in 1 .. b - 1 : line'[i] = line[i + 1]
  <2>1. /\ toDevice # <<>> /\ Len(toDevice) \in Nat \ {0} /\ Len(toDevice') = Len(toDevice) - 1
        /\ \A i \in 1 .. Len(toDevice') : toDevice'[i] = toDevice[i + 1]
        /\ toDevice' = Tail(toDevice)
    BY <1>1, DeviceTakesByte
  <2>2. toDevice' \in Seq(Byte)
    BY <1>1, <2>1, FrameFacts
  <2> QED
    BY <2>1, <2>2
<1>5. /\ sp'.cbuf = sp.cbuf /\ media' = media
      /\ gw'.cyl = gw.cyl /\ gw'.head = gw.head
      /\ \/ /\ line[1] # 0 /\ sp'.state = "WRSTREAM"
            /\ sp'.wbuf = Append(sp.wbuf, line[1])
            /\ UNCHANGED <<toHost, gw, disk>>
         \/ /\ line[1] = 0 /\ sp'.state = "CMD"
            /\ toHost' = Append(toHost, 0)
            /\ disk' \in {disk, [disk EXCEPT ![Here] = disk'[Here]]}
            /\ gw'.flux_status = 0 /\ sp.wbuf # <<>> =>
                 disk' = [disk EXCEPT ![Here] = sp.wbuf]
  BY <1>1, <1>3, StreamEffect
<1>6. line[1] = stream[a + 1] /\ line[1] \in Byte
  BY <1>1, <1>3, <1>4
<1>7. CASE line[1] # 0
  <2>1. a + 1 # 3
    BY <1>2, <1>6, <1>7
  <2>2. a + 1 < 3 /\ (a + 1) + (b - 1) + d = 3
    BY <1>3, <1>4, <2>1, SMTT(60)
  <2>3. sp'.wbuf = Append(got, line[1]) /\ sp'.state = "WRSTREAM" /\ toHost' = <<>>
        /\ sp'.cbuf = <<>>
    BY <1>3, <1>5, <1>7
  <2>4. Len(sp'.wbuf) = a + 1 /\ \A i \in 1 .. a + 1 : sp'.wbuf[i] = stream[i]
    BY <1>1, <1>3, <1>6, <2>3
  <2>5. \A i \in 1 .. b - 1 : line'[i] = stream[(a + 1) + i]
    <3> HIDE DEF a, b, d, stream, line
    <3> SUFFICES ASSUME NEW i \in 1 .. b - 1 PROVE line'[i] = stream[(a + 1) + i]
      OBVIOUS
    <3>1. i + 1 \in 1 .. b /\ a + (i + 1) = (a + 1) + i
      BY <1>3
    <3> QED
      BY <1>3, <1>4, <3>1
  <2>6. \A i \in 1 .. d : wbuf[i] = stream[(a + 1) + (b - 1) + i]
    <3> HIDE DEF a, b, d, stream
    <3> SUFFICES ASSUME NEW i \in 1 .. d PROVE wbuf[i] = stream[(a + 1) + (b - 1) + i]
      OBVIOUS
    <3>1. (a + 1) + (b - 1) + i = a + b + i
      BY <1>3
    <3> QED
      BY <1>3, <3>1
  <2>7. Receiving'
    <3>1. Stream(Place(t', s')) = stream /\ wbuf' = wbuf
      BY <1>0
    <3> HIDE DEF a, b, d, stream, line, got
    <3>2. /\ Len(sp'.wbuf) = a + 1 /\ Len(toDevice') = b - 1 /\ Len(wbuf') = d
          /\ Len(stream) = 3
      BY <1>2, <1>4, <2>4 DEF d, line
    <3> QED
      BY <1>3, <2>2, <2>3, <2>4, <2>5, <2>6, <3>1, <3>2 DEF Receiving, line
  <2> QED
    BY <1>5, <2>7
<1>8. CASE line[1] = 0
  <2>1. a = 2
    <3>1. stream[a + 1] = 0
      BY <1>6, <1>8
    <3> HIDE DEF a, b, d, stream, line, got
    <3> QED
      BY <1>2, <1>3, <3>1
  <2>2. b = 1 /\ d = 0
    BY <1>3, <1>4, <2>1
  <2>3. line' = <<>> /\ wbuf' = <<>>
    BY <1>1, <1>4, <2>2
  <2>4. got = Pulses(p)
    <3>1. Len(got) = Len(Pulses(p)) /\ got[1] = Pulses(p)[1] /\ got[2] = Pulses(p)[2]
      BY <1>2, <1>3, <2>1
    <3>2. \A i \in 1 .. Len(got) : got[i] = Pulses(p)[i]
      BY <1>2, <2>1, <3>1
    <3> HIDE DEF got
    <3> QED
      BY <1>1, <1>2, <3>1, <3>2, SeqEqual
  <2>5. got # <<>>
    BY <2>1
  <2>6. gw'.flux_status = 0 => disk'[p] = Pulses(p)
    BY <1>0, <1>1, <1>2, <1>5, <1>8, <2>4, <2>5
  <2>7. Len(toHost') = 1 /\ toHost'[1] = 0
    BY <1>3, <1>5, <1>8
  <2>8. Received'
    BY <1>0, <1>3, <1>5, <1>8, <2>3, <2>6, <2>7 DEF Received, OnDisk
  <2> QED
    BY <1>5, <2>8
<1> QED
  BY <1>7, <1>8

\* What the device does keeps it safe.
LEMMA DeviceLine ==
    ASSUME DataInv, LineSafe, Device, told' = told
    PROVE  LineSafe'
<1>1. /\ DeviceInv /\ sp.cbuf \in Seq(Byte) /\ toDevice \in Seq(Byte)
      /\ sp.state \in {"CMD", "WRSTREAM"}
  BY SpFields DEF DataInv, DeviceInv, SimTypeOK
<1> DEFINE n == Len(sp.cbuf)
           b == Len(toDevice)
<1>2. /\ n \in Nat /\ b \in Nat /\ b >= 1 /\ Len(toDevice') = b - 1
      /\ \A i \in 1 .. b - 1 : toDevice'[i] = toDevice[i + 1]
  BY <1>1, DeviceTakesByte
<1>3. /\ Len(Frame) = n + 1
      /\ \A i \in 1 .. n : Frame[i] = sp.cbuf[i]
      /\ Frame[n + 1] = toDevice[1]
  BY <1>1, DeviceTakesByte, FrameFacts
<1>4. \A k \in Nat \ {0} : NoWriteFlux(toDevice, k + 1) => NoWriteFlux(toDevice, k)'
  <2> HIDE DEF n, b
  <2> SUFFICES ASSUME NEW k \in Nat \ {0}, NoWriteFlux(toDevice, k + 1),
                      NEW i \in k .. Len(toDevice')
               PROVE  toDevice'[i] # 8
    BY DEF NoWriteFlux
  <2>1. i \in 1 .. b - 1 /\ i + 1 \in k + 1 .. b
    BY <1>2
  <2> QED
    BY <1>2, <2>1 DEF NoWriteFlux, b
<1>5. NoWriteFlux(toDevice, 1) => NoWriteFlux(toDevice, 1)'
  BY <1>2 DEF NoWriteFlux
<1>6. Here' = Here => (WriteBegun => WriteBegun')
  BY DEF WriteBegun
<1>7. sp'.cbuf = <<>> => NoWriteFlux(sp.cbuf, 1)'
  BY DEF NoWriteFlux
<1>8. CASE /\ sp.state = "WRSTREAM" /\ sp.cbuf = <<>>
           /\ WriteBegun /\ NoWriteFlux(toDevice, 1)
  <2>1. /\ sp'.cbuf = <<>> /\ gw'.cyl = gw.cyl /\ gw'.head = gw.head
        /\ sp'.state = "WRSTREAM" \/ sp'.state = "CMD"
    BY <1>1, <1>8, StreamEffect
  <2>2. Here' = Here
    BY <2>1 DEF Here
  <2> QED
    BY <1>5, <1>6, <1>7, <1>8, <2>1, <2>2 DEF LineSafe
<1>9. CASE sp.state = "CMD" /\ NoWriteFlux(sp.cbuf, 1) /\ NoWriteFlux(toDevice, 1)
  <2>1. toDevice[1] # 8 /\ \A i \in 1 .. n : sp.cbuf[i] # 8
    BY <1>2, <1>9 DEF NoWriteFlux
  <2>2. \A i \in 1 .. n + 1 : Frame[i] # 8
    BY <1>2, <1>3, <2>1, SMTT(60)
  <2>3. Frame[1] # 8
    BY <1>2, <2>2
  <2>4. sp'.state = "CMD" /\ (sp'.cbuf = Frame \/ sp'.cbuf = <<>>)
    BY <1>1, <1>9, <2>3, CommandKept
  <2>5. NoWriteFlux(Frame, 1)
    BY <1>3, <2>2 DEF NoWriteFlux
  <2>6. NoWriteFlux(sp.cbuf, 1)'
    BY <1>7, <2>4, <2>5 DEF NoWriteFlux
  <2> QED
    BY <1>5, <1>9, <2>4, <2>6 DEF LineSafe
<1>10. ASSUME NEW c \in Seq(Byte), NEW d \in Seq(Byte), OnLine(c, d), IsFrame(c),
              c[1] = 8 => WriteBegun /\ d = <<>>,
              d # <<>> => IsFrame(d) /\ d[1] # 8
       PROVE  LineSafe'
  <2> DEFINE k == Len(c)
             l == Len(d)
  <2>0. PICK m : m = Len(sp'.cbuf)
    OBVIOUS
  <2>1. /\ k \in 2 .. 8 /\ l \in Nat /\ n < k /\ Collecting(c) /\ b >= k - n + l
        /\ \A i \in 1 .. l : toDevice[k - n + i] = d[i]
        /\ NoWriteFlux(toDevice, k - n + l + 1)
    BY <1>10 DEF OnLine, Collecting, IsFrame
  <2>2. CASE n + 1 < k
    <3>1. Collecting(c)' /\ m = n + 1 /\ gw' = gw
      BY <2>0, <1>1, <1>10, <2>1, <2>2, FrameGrows
    <3> HIDE DEF n, b, k, l
    <3>2. b - 1 >= k - m + l
      BY <1>2, <2>1, <3>1
    <3>3. \A i \in 1 .. l : toDevice'[k - m + i] = d[i]
      <4> SUFFICES ASSUME NEW i \in 1 .. l PROVE toDevice'[k - m + i] = d[i]
        OBVIOUS
      <4>1. k - m + i \in 1 .. b - 1 /\ (k - m + i) + 1 = k - n + i
        BY <1>2, <2>1, <2>2, <3>1
      <4> QED
        BY <1>2, <2>1, <4>1
    <3>4. NoWriteFlux(toDevice, k - m + l + 1)'
      <4>1. k - m + l + 1 \in Nat \ {0} /\ (k - m + l + 1) + 1 = k - n + l + 1
        BY <1>2, <2>1, <2>2, <3>1
      <4> QED
        BY <1>4, <2>1, <4>1
    <3>5. OnLine(c, d)'
      BY <1>2, <2>0, <3>1, <3>2, <3>3, <3>4 DEF OnLine, k, l
    <3>6. Here' = Here
      BY <3>1 DEF Here
    <3>7. c[1] = 8 => WriteBegun'
      BY <1>6, <1>10, <3>6
    <3> QED
      BY <1>10, <3>5, <3>7 DEF LineSafe
  <2>3. CASE n + 1 = k
    <3>1. /\ sp'.cbuf = <<>> /\ (c[1] # 8 => sp'.state = "CMD")
          /\ c[1] = 8 => gw' = gw
      BY <1>1, <1>10, <2>1, <2>3, FrameDone
    <3>2. k - n + l + 1 = (l + 1) + 1 /\ l + 1 \in Nat \ {0}
      <4> HIDE DEF n, b, k, l
      <4> QED
        BY <1>2, <2>1, <2>3
    <3>3. NoWriteFlux(toDevice, l + 1)'
      <4> HIDE DEF l
      <4> QED
        BY <1>4, <2>1, <3>2
    <3>4. CASE d = <<>>
      <4>1. NoWriteFlux(toDevice, 1)'
        BY <3>3, <3>4
      <4>2. CASE sp'.state = "CMD"
        BY <1>7, <3>1, <4>1, <4>2 DEF LineSafe
      <4>3. CASE c[1] = 8 /\ sp'.state = "WRSTREAM"
        <5>1. Here' = Here
          BY <3>1, <4>3 DEF Here
        <5> QED
          BY <1>6, <1>10, <3>1, <4>1, <4>3, <5>1 DEF LineSafe
      <4>4. DeviceInv'
        BY <1>1, DeviceStep
      <4>5. sp'.state \in {"CMD", "WRSTREAM"}
        BY <4>4, SpFields DEF DeviceInv, SimTypeOK
      <4> QED
        BY <3>1, <4>2, <4>3, <4>5
    <3>5. CASE d # <<>>
      <4>1. IsFrame(d) /\ d[1] # 8 /\ c[1] # 8 /\ sp'.state = "CMD"
        BY <1>10, <3>1, <3>5
      <4>2. l \in 2 .. 8 /\ m = 0
        BY <2>0, <3>1, <4>1 DEF IsFrame
      <4> HIDE DEF n, b, k, l
      <4>3. b - 1 >= l
        BY <1>2, <2>1, <2>3
      <4>4. \A i \in 1 .. l : toDevice'[i] = d[i]
        <5> SUFFICES ASSUME NEW i \in 1 .. l PROVE toDevice'[i] = d[i]
          OBVIOUS
        <5>1. i \in 1 .. b - 1 /\ k - n + i = i + 1
          BY <1>2, <2>1, <2>3, <4>3
        <5> QED
          BY <1>2, <2>1, <5>1
      <4>5. Collecting(d)'
        <5>1. Len(sp'.cbuf) = 0 /\ Len(d) = l /\ Len(toDevice') = b - 1
          BY <1>2, <2>0, <4>2 DEF l
        <5>2. /\ Len(sp'.cbuf) < Len(d) /\ Len(toDevice') >= Len(d) - Len(sp'.cbuf)
              /\ \A i \in 1 .. Len(sp'.cbuf) : (sp'.cbuf)[i] = d[i]
          BY <4>2, <4>3, <5>1
        <5>3. \A i \in 1 .. Len(d) - Len(sp'.cbuf) : toDevice'[i] = d[Len(sp'.cbuf) + i]
          BY <4>2, <4>4, <5>1
        <5> QED
          BY <4>1, <5>2, <5>3, Zenon DEF Collecting
      <4>6. <<>> \in Seq(Byte) /\ Len(<<>>) = 0
        OBVIOUS
      <4>7. OnLine(d, <<>>)'
        <5>1. l - m + 0 = l /\ l - m + 0 + 1 = l + 1 /\ b - 1 >= l - m + 0
          BY <4>2, <4>3
        <5> QED
          BY <1>2, <2>0, <3>3, <4>5, <4>6, <5>1 DEF OnLine, NoWriteFlux, l
      <4> QED
        BY <4>1, <4>6, <4>7 DEF LineSafe
    <3> QED
      BY <3>4, <3>5
  <2> QED
    BY <1>2, <2>1, <2>2, <2>3
<1> QED
  BY <1>8, <1>9, <1>10 DEF LineSafe

\* A late answer stays the next one that the host will see.
LEMMA DeviceBehind ==
    ASSUME DataInv, FlagInv, Behind, Device, UNCHANGED <<hostVars, told>>
    PROVE  Behind'
<1>1. DeviceInv
  BY DEF DataInv
<1>2. /\ UNCHANGED <<pc, t, s, waiting>> /\ Command' = Command
      /\ broken' /\ exit_requested' /\ ~eintr'
  BY DEF Behind, hostVars, trackVars, hostSigs, Command
<1>3. toHost # <<>> => toHost' # <<>> /\ toHost'[1] = toHost[1]
  BY <1>1, AnswersInOrder
<1>4. toDevice # <<>> /\ Len(toDevice) \in Nat /\ Len(toDevice') = Len(toDevice) - 1
      /\ toDevice' \in Seq(Byte)
  BY <1>1, DeviceTakesByte, FrameFacts
<1>5. ASSUME pc \in {"sidepin", "seek"}, SpinLate PROVE SpinLate'
  <2>1. PICK c : c = Command["spin"]
    OBVIOUS
  <2>2. c = Command'["spin"] /\ IsFrame(c) /\ c[1] = 6 /\ Len(c) = 4
    <3>1. IsFrame(c)
      BY <2>1, CommandType DEF CommandPcs, DataInv
    <3> QED
      BY <1>2, <2>1, <3>1, CommandBytes
  <2>3. CASE toHost # <<>>
    BY <1>2, <1>3, <1>4, <1>5, <2>3 DEF SpinLate
  <2>4. CASE toHost = <<>>
    <3>1. Collecting(c) /\ (~waiting => Len(toDevice) = Len(c) - Len(sp.cbuf))
      BY <1>5, <2>1, <2>4 DEF SpinLate
    <3>2. Len(sp.cbuf) \in Nat /\ Len(sp.cbuf) < 4
      BY <1>1, <2>2, <3>1, SpFields DEF DeviceInv, SimTypeOK, Collecting
    <3>3. CASE Len(sp.cbuf) + 1 < Len(c)
      <4>1. Collecting(c)' /\ Len(sp'.cbuf) = Len(sp.cbuf) + 1 /\ toHost' = toHost
        BY <1>1, <2>2, <3>1, <3>3, FrameGrows
      <4>2. ~waiting' => Len(toDevice') = Len(c) - Len(sp'.cbuf)
        <5> DEFINE l == Len(toDevice)
                   r == Len(toDevice')
                   n == Len(sp.cbuf)
                   m == Len(sp'.cbuf)
        <5>1. ~waiting => n \in Nat /\ l = 4 - n /\ r = l - 1 /\ m = n + 1
          BY <1>4, <2>2, <3>1, <3>2, <4>1
        <5> HIDE DEF l, r, n, m
        <5>2. ~waiting => r = 4 - m
          BY <5>1
        <5> QED
          BY <1>2, <2>2, <5>2 DEF r, m
      <4> QED
        BY <2>2, <2>4, <4>1, <4>2 DEF SpinLate
    <3>4. CASE Len(sp.cbuf) + 1 = Len(c)
      <4>1. /\ Does(c[1]) /\ Frame[1] = c[1]
            /\ \A i \in 1 .. Len(c) : Argument(i) = {c[i]}
        BY <1>1, <2>2, <3>1, <3>4, FrameEnds
      <4>2. AnswerTo(c)'
        BY <1>1, <1>4, <2>2, <2>4, <3>1, <4>1, CommandEffect DEF Collecting
      <4>3. toHost' # <<>> /\ toHost'[1] = 6 /\ sp'.state = "CMD" /\ sp'.cbuf = <<>>
        <5>1. Len(toHost') >= 2
          BY <4>2 DEF AnswerTo
        <5>2. toHost' # <<>>
          BY <5>1
        <5> QED
          BY <2>2, <4>2, <5>2 DEF AnswerTo
      <4>4. ~waiting => Len(toDevice') = 0
        BY <1>4, <2>2, <3>1, <3>2, <3>4
      <4>5. ~waiting' => toDevice' = <<>>
        <5>1. Len(toDevice') = 0 => toDevice' = <<>>
          BY <1>4
        <5> QED
          BY <1>2, <4>4, <5>1, Zenon
      <4> QED
        BY <4>3, <4>5 DEF SpinLate
    <3> QED
      BY <2>2, <3>2, <3>3, <3>4
  <2> QED
    BY <2>3, <2>4
<1>6. ASSUME SyncLate PROVE SyncLate'
  <2>1. CASE toHost # <<>>
    BY <1>3, <1>6, <2>1 DEF SyncLate
  <2>2. CASE toHost = <<>>
    <3>1. sp.state = "WRSTREAM"
      BY <1>6, <2>2 DEF SyncLate
    <3>2. \/ sp'.state = "WRSTREAM" /\ toHost' = <<>>
          \/ toHost' = Append(<<>>, 0)
      BY <1>1, <2>2, <3>1, StreamEffect
    <3>3. Append(<<>>, 0) # <<>> /\ Append(<<>>, 0)[1] = 0
      OBVIOUS
    <3> QED
      BY <3>2, <3>3 DEF SyncLate
  <2> QED
    BY <2>1, <2>2
<1> QED
  BY <1>2, <1>5, <1>6 DEF Behind

\* Host and device stay in agreement, or the host stays behind, whatever the
\* device does.
LEMMA DeviceSession ==
    ASSUME DataInv, FlagInv, SessionInv, Device, UNCHANGED <<hostVars, told>>
    PROVE  SessionInv'
<1>1. UNCHANGED <<pc, t, s, waiting, wbuf>> /\ DeviceInv /\ toDevice # <<>>
  BY DeviceTakesByte DEF hostVars, trackVars, DataInv
<1>2. CASE pc = "killed"
  BY <1>1, <1>2 DEF SessionInv
<1>3. CASE Behind
  BY <1>3, DeviceBehind DEF SessionInv
<1>4. CASE Together /\ Known /\ pc # "killed"
  <2> USE DEF CommandPcs
  <2>1. CASE pc \in CommandPcs
    <3>1. Underway
      BY <1>1, <1>4, <2>1 DEF Together, Idle, Answered
    <3>2. /\ Underway' \/ Answered'
          /\ UNCHANGED <<media, disk>>
          /\ pc \in {"rstatus", "wflux", "status"} => gw' = gw
          /\ pc = "head" => gw'.cyl = gw.cyl
      BY <1>1, <2>1, <3>1, DeviceAnswers
    <3>3. waiting
      BY <1>1, <1>4, <2>1 DEF Together, Idle
    <3>4. Together'
      BY <1>1, <2>1, <3>2, <3>3 DEF Together
    <3>5. Known'
      BY <1>1, <1>4, <2>1, <3>2 DEF Known, OnDisk
    <3> QED
      BY <3>4, <3>5 DEF SessionInv
  <2>2. CASE pc \in {"stream", "sync"}
    <3>1. Receiving /\ Tracks # 0
      BY <1>1, <1>4, <2>2 DEF Together, Received, DataInv, LoopInv, TrackPcs
    <3>2. Here = Place(t, s)
      BY <1>4, <2>2 DEF Known, Here, Place
    <3>3. /\ Receiving' \/ Received'
          /\ gw'.cyl = gw.cyl /\ gw'.head = gw.head /\ media' = media
      BY <1>1, <3>1, <3>2, DeviceReceives
    <3> QED
      BY <1>1, <1>4, <2>2, <3>3 DEF Together, Known, SessionInv
  <2>3. CASE pc \notin CommandPcs \cup {"stream", "sync"}
    BY <1>1, <1>4, <2>3 DEF Together, Idle, Revolution, DataInv, HostPcs, Stopped
  <2> QED
    BY <2>1, <2>2, <2>3
<1> QED
  BY <1>2, <1>3, <1>4 DEF SessionInv

-----------------------------------------------------------------------------
(* The host's side of the session.                                         *)

\* The points that may be passed with a late answer on the line, whatever it
\* is.
LoosePcs == {"leave", "unset", "deselect", "cleanup", "done", "fatal"}

\* A command returns the acknowledgement the device gave to it; or the host is
\* behind, and takes what it reads for a failure where that matters.
LEMMA Returned ==
    ASSUME DataInv, FlagInv, SignalInv, SessionInv, NEW p \in CommandPcs, Returns(p)
    PROVE  \/ /\ Together /\ Known /\ ~eintr /\ ~Behind
              /\ Answered /\ Result = toHost[2] /\ toDevice' = <<>> /\ sp'.cbuf = <<>>
              /\ p # "rflux" \/ ~Okay => toHost' = <<>>
              /\ p \notin {"rflux", "wflux"} \/ ~Okay => Idle'
           \/ Together /\ Known /\ eintr /\ Result < 0
           \/ Behind /\ (p \notin LoosePcs => Result < 0)
<1>1. /\ pc = p /\ UNCHANGED <<toDevice, sp>> /\ toHost \in Seq(Byte)
      /\ eintr \/ (waiting /\ toHost # <<>>)
      /\ toHost' = IF eintr THEN toHost
                   ELSE Drop(toHost, IF p = "info" /\ Okay THEN 3 ELSE 2)
  BY DEF Returns, DataInv, DeviceInv, SimTypeOK
<1>2. pc # "killed"
  BY <1>1 DEF CommandPcs
<1>3. CASE Behind
  <2>1. ~eintr /\ waiting /\ toHost # <<>>
    BY <1>1, <1>3 DEF Behind
  <2>2. p \in {"sidepin", "seek", "status"} \/ p \in LoosePcs
    BY <1>1, <1>3 DEF Behind, LoosePcs
  <2>3. p \in {"sidepin", "seek", "status"} => toHost[1] # Command[pc][1]
    <3>1. p \in {"sidepin", "seek"} => toHost[1] = 6
      BY <1>1, <1>3, <2>1 DEF Behind, SpinLate
    <3>2. p = "status" => toHost[1] = 0
      BY <1>1, <1>3, <2>1 DEF Behind, SyncLate
    <3> QED
      BY <1>1, <3>1, <3>2, CommandBytes, SMTT(60)
  <2>4. p \in {"sidepin", "seek", "status"} => Result \in {-3, -1}
    BY <2>1, <2>3 DEF Result
  <2>5. p \in {"sidepin", "seek", "status"} => Result < 0
    BY <2>4
  <2> QED
    BY <1>3, <2>2, <2>5
<1>4. CASE Together /\ Known /\ eintr
  <2>1. Result \in {-3, -2}
    BY <1>4 DEF Result
  <2> QED
    BY <1>4, <2>1
<1>5. CASE Together /\ Known /\ ~eintr /\ ~Behind
  <2>1. waiting /\ toHost # <<>> /\ Answered
    BY <1>1, <1>5 DEF Together, Underway
  <2>2. PICK c : c = Command[pc]
    OBVIOUS
  <2>3. /\ toDevice = <<>> /\ sp.cbuf = <<>> /\ Len(toHost) >= 2 /\ toHost[1] = c[1]
        /\ c[1] \notin {0, 7} \/ toHost[2] # 0 => Len(toHost) = 2
        /\ c[1] = 0 /\ toHost[2] = 0 => Len(toHost) = 3
        /\ IF c[1] = 8 /\ toHost[2] = 0 THEN sp.state = "WRSTREAM" ELSE sp.state = "CMD"
    BY <2>1, <2>2 DEF Answered, AnswerTo
  <2>4. Result = toHost[2] /\ (Okay <=> toHost[2] = 0)
    <3>1. ~(Len(toHost) < 2) /\ toHost[1] = Command[pc][1]
      BY <1>1, <2>2, <2>3
    <3>2. Result = toHost[2]
      BY <1>5, <3>1, Zenon DEF Result
    <3> QED
      BY <3>2 DEF Okay, ACK
  <2>5. /\ p = "info" <=> c[1] = 0
        /\ p = "rflux" <=> c[1] = 7
        /\ p = "wflux" <=> c[1] = 8
    BY <1>1, <2>2, CommandBytes DEF CommandPcs
  <2>6. PICK n : n = IF p = "info" /\ Okay THEN 3 ELSE 2
    OBVIOUS
  <2>7. p # "rflux" \/ ~Okay => Len(toHost) = n
    BY <2>3, <2>4, <2>5, <2>6
  <2>8. toHost' = SubSeq(toHost, n + 1, Len(toHost)) /\ n \in {2, 3}
    BY <1>1, <1>5, <2>6 DEF Drop
  <2>9. p # "rflux" \/ ~Okay => toHost' = <<>>
    BY <1>1, <2>7, <2>8
  <2> QED
    BY <1>1, <1>5, <2>1, <2>3, <2>4, <2>5, <2>9 DEF Idle
<1> QED
  BY <1>2, <1>3, <1>4, <1>5 DEF SessionInv

\* Once a call was broken off, the host may go to the end.
LEMMA GoLoose ==
    ASSUME SignalInv, Behind \/ eintr, eintr' = FALSE, pc' \in LoosePcs,
           UNCHANGED <<broken, exit_requested>>
    PROVE  SessionInv'
BY DEF SignalInv, Behind, SessionInv, LoosePcs

\* Where nothing is known of the device, it is enough that both ends wait for
\* the next command.
LEMMA GoIdle ==
    ASSUME Idle', waiting' = FALSE, pc' \in (CommandPcs \cup LoosePcs), Known'
    PROVE  SessionInv'
BY DEF SessionInv, Together, CommandPcs, LoosePcs, Idle

\* A command that leaves nothing to remember.
LEMMA ReturnToIdle ==
    ASSUME DataInv, FlagInv, SignalInv, SessionInv, NEW p \in CommandPcs, Returns(p),
           UNCHANGED <<broken, exit_requested>>,
           pc' \in (CommandPcs \cup LoosePcs)
                      \ {"rstatus", "head", "wflux", "status"},
           p \notin {"rflux", "wflux"} \/ ~Okay,
           pc' \notin LoosePcs => ~Behind /\ ~eintr
    PROVE  SessionInv'
<1>1. waiting' = FALSE /\ eintr' = FALSE
  BY DEF Returns
<1>2. Known'
  BY DEF Known, CommandPcs, LoosePcs
<1>3. CASE Behind \/ eintr
  BY <1>1, <1>3, GoLoose
<1>4. CASE ~Behind /\ ~eintr
  BY <1>1, <1>2, <1>4, Returned, GoIdle
<1> QED
  BY <1>3, <1>4

\* The steps of main() and dmk2gw() after which nothing is known of the
\* device but that it is idle.
LEMMA SimpleReturns ==
    ASSUME DataInv, FlagInv, SignalInv, SessionInv,
           InitGw \/ SetDrive \/ ReadStatus \/ RpmKnown \/ RpmUnknown \/ SetDensity
             \/ SideDensity \/ TrackFailed \/ Leave \/ UnsetDrive \/ Cleanup
    PROVE  SessionInv'
<1> DEFINE From == {"reset", "info", "bus", "select", "pin", "motor", "rpm_on", "rstatus",
                    "rpm_off", "rpm_fail", "densel"}
<1>1. pc \in From => ~Behind /\ ~eintr
  BY DEF Behind, SignalInv, TrackPcs, Stopped
<1> USE DEF CommandPcs, LoosePcs, hostSigs
<1>2. CASE InitGw
  <2>1. PICK next \in {<<"reset", "info">>, <<"info", "bus">>, <<"bus", "select">>} :
          /\ Returns(next[1])
          /\ pc' = IF Okay THEN next[2] ELSE "fatal"
          /\ UNCHANGED hostSigs
    BY <1>2 DEF InitGw
  <2>2. pc \in From /\ next[1] \in CommandPcs \ {"rflux", "wflux"}
    BY <2>1 DEF Returns
  <2>3. pc' \in {"info", "bus", "select", "fatal"}
    BY <2>1
  <2> QED
    BY <1>1, <2>1, <2>2, <2>3, ReturnToIdle
<1>3. CASE SetDrive
  <2>1. PICK next \in {<<"select", "pin">>, <<"pin", "motor">>, <<"motor", "rpm_on">>,
                        <<"rpm_on", "rflux">>} :
          /\ Returns(next[1])
          /\ pc' = next[2] \/ pc' = "cleanup"
          /\ UNCHANGED hostSigs
    BY <1>3 DEF SetDrive, Fatal
  <2>2. pc \in From /\ next[1] \in CommandPcs \ {"rflux", "wflux"}
    BY <2>1 DEF Returns
  <2>3. pc' \in {"pin", "motor", "rpm_on", "rflux", "cleanup"}
    BY <2>1
  <2> QED
    BY <1>1, <2>1, <2>2, <2>3, ReturnToIdle
<1>4. CASE ReadStatus
  <2>1. Returns("rstatus") /\ pc' \in {"rpm_off", "rpm_fail"} /\ UNCHANGED hostSigs /\ pc \in From
    BY <1>4 DEF ReadStatus, Returns
  <2> QED
    BY <1>1, <2>1, ReturnToIdle
<1>5. CASE RpmKnown
  <2>1. /\ Returns("rpm_off") /\ pc' \in {"cleanup", "spin", "densel"}
        /\ UNCHANGED <<broken, exit_requested>> /\ pc \in From
    BY <1>5 DEF RpmKnown, Returns, Fatal, StartLoop
  <2> QED
    BY <1>1, <2>1, ReturnToIdle
<1>6. CASE RpmUnknown
  <2>1. Returns("rpm_fail") /\ pc' = "cleanup" /\ UNCHANGED hostSigs
    BY <1>6 DEF RpmUnknown, Fatal
  <2> QED
    BY <2>1, ReturnToIdle
<1>7. CASE SetDensity
  <2>1. /\ Returns("densel") /\ pc' \in {"cleanup", "spin"}
        /\ UNCHANGED <<broken, exit_requested>> /\ pc \in From
    BY <1>7 DEF SetDensity, Returns, Fatal, StartLoop
  <2> QED
    BY <1>1, <2>1, ReturnToIdle
<1>8. CASE SideDensity
  <2>1. Returns("sidepin") /\ UNCHANGED hostSigs
        /\ IF Okay THEN pc' = "seek" ELSE pc' = "cleanup"
    BY <1>8 DEF SideDensity, Fatal
  <2>2. CASE Okay
    <3>1. ~(Result < 0) /\ "sidepin" \in CommandPcs \ LoosePcs
      BY <2>2 DEF Okay, ACK
    <3>2. ~Behind /\ ~eintr
      BY <2>1, <3>1, Returned
    <3> QED
      BY <2>1, <2>2, <3>2, ReturnToIdle
  <2>3. CASE ~Okay
    BY <2>1, <2>3, ReturnToIdle
  <2> QED
    BY <2>2, <2>3
<1>9. CASE TrackFailed
  <2>1. Returns("status") /\ UNCHANGED hostSigs /\ pc' \in {"leave", "cleanup"}
    BY <1>9 DEF TrackFailed, Fatal
  <2> QED
    BY <2>1, ReturnToIdle
<1>10. CASE Leave
  <2>1. Returns("leave") /\ pc' = "unset" /\ UNCHANGED <<broken, exit_requested>>
    BY <1>10 DEF Leave
  <2> QED
    BY <2>1, ReturnToIdle
<1>11. CASE UnsetDrive
  <2>1. PICK p \in {"unset", "deselect"} : Returns(p)
    BY <1>11 DEF UnsetDrive
  <2>2. pc' \in {"deselect", "done"} /\ UNCHANGED hostSigs
    BY <1>11 DEF UnsetDrive
  <2> QED
    BY <2>1, <2>2, ReturnToIdle
<1>12. CASE Cleanup
  <2>1. Returns("cleanup") /\ pc' \in {"cleanup", "fatal"} /\ UNCHANGED hostSigs
    BY <1>12 DEF Cleanup
  <2> QED
    BY <2>1, ReturnToIdle
<1> QED
  BY <1>2, <1>3, <1>4, <1>5, <1>6, <1>7, <1>8, <1>9, <1>10, <1>11, <1>12

\* A command put on an empty line, to a device that expects one.
LEMMA SentAlone ==
    ASSUME DataInv, Send, toDevice = <<>>, sp.state = "CMD", sp.cbuf = <<>>
    PROVE  /\ IsFrame(Command[pc])
           /\ toDevice' = Command[pc] /\ Command' = Command
           /\ Collecting(Command[pc])'
           /\ Len(toDevice') = Len(Command[pc]) - Len(sp'.cbuf)
<1>1. pc \in CommandPcs /\ toDevice' = toDevice \o Command[pc] /\ UNCHANGED <<sp, pc, t, s>>
  BY CommandDomain DEF Send, trackVars
<1>2. PICK c : c = Command[pc]
  OBVIOUS
<1>3. IsFrame(c) /\ Command' = Command /\ pc' = pc
  BY <1>1, <1>2, CommandFrame DEF Command
<1>4. c \in Seq(Byte) /\ Len(c) \in 2 .. 8
  BY <1>3 DEF IsFrame
<1>5. toDevice' = c
  <2>1. <<>> \o c = c
    BY <1>4, ConcatEmptySeq
  <2> QED
    BY <1>1, <1>2, <2>1, Zenon
<1>6. PICK m : m = Len(sp'.cbuf)
  OBVIOUS
<1>7. m = 0 /\ sp'.state = "CMD" /\ Len(c) - 0 = Len(c) /\ Len(toDevice') = Len(c)
      /\ \A i \in 1 .. Len(c) : 0 + i = i
  BY <1>1, <1>4, <1>5, <1>6
<1>8. /\ m < Len(c) /\ Len(toDevice') >= Len(c) - m
      /\ \A i \in 1 .. m : sp'.cbuf[i] = c[i]
  BY <1>4, <1>7
<1>9. \A i \in 1 .. Len(c) - m : toDevice'[i] = c[m + i]
  BY <1>5, <1>7
<1>10. Collecting(c)'
  BY <1>6, <1>7, <1>8, <1>9 DEF Collecting
<1>11. Collecting(Command[pc])' /\ Len(toDevice') = Len(Command[pc]) - Len(sp'.cbuf)
  BY <1>2, <1>3, <1>6, <1>7, <1>10
<1> QED
  BY <1>2, <1>3, <1>5, <1>11

\* gw_do_command() puts the command on an empty line, unless the host is
\* behind.
LEMMA SendSession ==
    ASSUME DataInv, FlagInv, SignalInv, SessionInv, Send
    PROVE  SessionInv'
<1>1. /\ pc \in CommandPcs /\ ~waiting /\ ~eintr /\ waiting' = TRUE
      /\ toDevice' = toDevice \o Command[pc]
      /\ UNCHANGED <<toHost, sp, gw, media, disk, pc, t, s, wbuf, eintr, broken, exit_requested>>
  BY CommandDomain DEF Send, trackVars, hostSigs
<1>2. PICK c : c = Command[pc]
  BY SMTT(60)
<1>3. IsFrame(c) /\ toDevice \in Seq(Byte) /\ c = Command'[pc'] /\ Command' = Command
  BY <1>1, <1>2, CommandFrame, ZenonT(60) DEF DataInv, DeviceInv, SimTypeOK, Command
<1>4. c \in Seq(Byte) /\ Len(c) \in 2 .. 8
  BY <1>3 DEF IsFrame
<1>5. CASE Together /\ Known
  <2>1. Idle
    BY <1>1, <1>5 DEF Together
  <2>2. Collecting(Command[pc])' /\ Len(toDevice') = Len(Command[pc]) - Len(sp'.cbuf)
        /\ Command' = Command
    BY <2>1, SentAlone DEF Idle
  <2>4. Underway'
    BY <1>1, <2>1, <2>2 DEF Underway, Idle, Collecting
  <2>5. Together'
    BY <1>1, <2>4 DEF Together, CommandPcs
  <2>6. Known'
    BY <1>1, <1>5 DEF Known, OnDisk
  <2> QED
    BY <2>5, <2>6 DEF SessionInv
<1>6. CASE Behind
  <2>1. SpinLate => SpinLate'
    <3> SUFFICES ASSUME SpinLate PROVE SpinLate'
      OBVIOUS
    <3>1. CASE toHost # <<>>
      BY <1>1, <3>1 DEF SpinLate
    <3>2. CASE toHost = <<>>
      <4>1. PICK d : d = Command["spin"]
        OBVIOUS
      <4>2. d = Command'["spin"] /\ Collecting(d)
        BY <1>3, <3>2, <4>1 DEF SpinLate
      <4>3. Len(sp.cbuf) \in Nat /\ Len(d) = 4
        BY <4>1, CommandBytes, SpFields, SMTT(60) DEF DataInv, DeviceInv, SimTypeOK
      <4>4. Len(toDevice) >= 4 - Len(sp.cbuf) /\ Len(toDevice) \in Nat
        BY <1>3, <4>2, <4>3 DEF Collecting
      <4>5. /\ Len(toDevice') = Len(toDevice) + Len(c)
            /\ \A i \in 1 .. Len(toDevice) : toDevice'[i] = toDevice[i]
        BY <1>1, <1>2, <1>3, <1>4
      <4> DEFINE n == Len(sp.cbuf)
                 l == Len(toDevice)
                 r == Len(toDevice')
      <4>6. n \in Nat /\ l \in Nat /\ r \in Nat /\ l >= 4 - n /\ r >= l /\ n < 4
        BY <1>4, <4>2, <4>3, <4>4, <4>5 DEF Collecting
      <4>7. \A i \in 1 .. 4 - n : toDevice[i] = d[n + i]
        BY <4>2, <4>3 DEF Collecting
      <4> HIDE DEF n, l, r
      <4>8. r >= 4 - n /\ \A i \in 1 .. 4 - n : i \in 1 .. l
        BY <4>6
      <4>9. \A i \in 1 .. 4 - n : toDevice'[i] = d[n + i]
        BY <4>5, <4>7, <4>8 DEF l
      <4>10. Collecting(d)'
        <5>1. /\ n = Len(sp'.cbuf) /\ r = Len(toDevice') /\ Len(d) = 4
              /\ sp'.state = sp.state /\ sp'.cbuf = sp.cbuf
          BY <1>1, <4>3 DEF n, r
        <5>2. sp.state = "CMD" /\ \A i \in 1 .. n : sp.cbuf[i] = d[i]
          BY <4>2 DEF Collecting, n
        <5> QED
          BY <4>6, <4>8, <4>9, <5>1, <5>2 DEF Collecting
      <4> QED
        BY <1>1, <3>2, <4>2, <4>10 DEF SpinLate, Collecting
    <3> QED
      BY <3>1, <3>2
  <2> QED
    BY <1>1, <1>6, <2>1 DEF Behind, SessionInv, SyncLate
<1>7. pc # "killed"
  BY <1>1 DEF CommandPcs
<1> QED
  BY <1>5, <1>6, <1>7 DEF SessionInv

\* gw_init() finds an idle device; the flux of the measured revolution is read
\* to its end.
LEMMA OpenSession ==
    ASSUME DataInv, FlagInv, SignalInv, SessionInv, Open \/ ReadFlux \/ ReadStream
    PROVE  SessionInv'
<1>1. CASE Open
  <2>1. /\ pc = "open" /\ toHost' = <<>> /\ pc' \in {"reset", "info"}
        /\ UNCHANGED <<toDevice, sp, gw, media, waiting>>
    BY <1>1 DEF Open
  <2>2. Idle' /\ waiting' = FALSE
    BY <2>1 DEF SessionInv, Together, Behind, Idle, SignalInv, FlagInv, CommandPcs, Stopped
  <2> QED
    BY <2>1, <2>2, GoIdle DEF Known, CommandPcs
<1>2. CASE ReadFlux
  <2>1. /\ Returns("rflux") /\ UNCHANGED hostSigs /\ pc = "rflux" /\ UNCHANGED <<media, gw, sp>>
        /\ waiting' = FALSE
    BY <1>2 DEF ReadFlux, Returns
  <2>2. CASE ~Okay
    <3>1. pc' = "rpm_fail" /\ ~Behind /\ ~eintr
      BY <1>2, <2>1, <2>2 DEF ReadFlux, Behind, SignalInv, TrackPcs, Stopped
    <3> QED
      BY <2>1, <2>2, <3>1, ReturnToIdle DEF CommandPcs, LoosePcs, hostSigs
  <2>3. CASE Okay
    <3>1. pc' = "rstream" /\ ~Behind /\ ~eintr
      BY <1>2, <2>1, <2>3 DEF ReadFlux, Behind, SignalInv, TrackPcs, Stopped
    <3>2. Answered /\ Result = toHost[2] /\ toDevice' = <<>> /\ sp'.cbuf = <<>>
      BY <2>1, <3>1, Returned DEF CommandPcs
    <3>3. /\ Len(toHost) \in {3, 4} /\ toHost[Len(toHost)] = 0
          /\ Len(toHost) = 4 => toHost[3] # 0
          /\ media = "none" => gw.flux_status # 0
          /\ sp.state = "CMD"
      BY <2>1, <2>3, <3>2, CommandBytes DEF Answered, AnswerTo, Okay, ACK
    <3>4. toHost' = SubSeq(toHost, 3, Len(toHost)) /\ toHost \in Seq(Byte)
      BY <2>1, <3>1 DEF Returns, Drop, DataInv, DeviceInv, SimTypeOK
    <3>5. /\ Len(toHost') \in {1, 2} /\ toHost'[Len(toHost')] = 0
          /\ Len(toHost') = 2 => toHost'[1] # 0
      BY <3>3, <3>4, SMTT(60)
    <3>6. Revolution'
      BY <2>1, <3>2, <3>3, <3>5 DEF Revolution
    <3> QED
      BY <2>1, <3>1, <3>3, <3>6 DEF SessionInv, Together, Known, CommandPcs
  <2> QED
    BY <2>2, <2>3
<1>3. CASE ReadStream
  <2>1. PICK n \in 1 .. Len(toHost) :
          /\ toHost' = Drop(toHost, n)
          /\ pc' = IF toHost[n] = 0 THEN "rstatus" ELSE "rstream"
    BY <1>3 DEF ReadStream
  <2>2. pc = "rstream" /\ UNCHANGED <<toDevice, sp, gw, media, disk, waiting>>
    BY <1>3 DEF ReadStream
  <2>3. Together /\ Known
    BY <2>2 DEF SessionInv, Behind
  <2>4. Revolution /\ waiting' = FALSE /\ toHost \in Seq(Byte)
    BY <2>2, <2>3
       DEF Together, SignalInv, FlagInv, CommandPcs, Stopped, DataInv, DeviceInv, SimTypeOK
  <2>5. CASE n = Len(toHost)
    <3>1. toHost' = <<>> /\ pc' = "rstatus"
      BY <2>1, <2>4, <2>5 DEF Revolution, Drop
    <3>2. Idle'
      BY <2>2, <2>4, <3>1 DEF Idle, Revolution
    <3> QED
      BY <2>2, <2>3, <2>4, <3>1, <3>2, GoIdle DEF Known, CommandPcs
  <2>6. CASE n # Len(toHost)
    <3>1. n = 1 /\ Len(toHost) = 2 /\ toHost[1] # 0 /\ toHost[2] = 0
      BY <2>4, <2>6 DEF Revolution
    <3>2. toHost' = SubSeq(toHost, 2, 2) /\ pc' = "rstream"
      BY <2>1, <3>1 DEF Drop
    <3>3. Len(toHost') = 1 /\ toHost'[1] = 0
      BY <2>4, <3>1, <3>2
    <3>4. Revolution'
      BY <2>2, <2>4, <3>3 DEF Revolution
    <3> QED
      BY <2>2, <2>3, <3>2, <3>4 DEF SessionInv, Together, Known, CommandPcs
  <2> QED
    BY <2>5, <2>6
<1> QED
  BY <1>1, <1>2, <1>3

\* dmk2gw() goes on when the command that starts the drive was broken off,
\* with its answer on the line or still to come.
LEMMA SpinUpSession ==
    ASSUME DataInv, FlagInv, SignalInv, SessionInv, SpinUp
    PROVE  SessionInv'
<1>1. /\ Returns("spin") /\ pc = "spin" /\ pc' \in {"leave", "sidepin", "seek"}
      /\ UNCHANGED <<toDevice, sp, gw, t, s, broken, exit_requested>>
      /\ waiting' = FALSE /\ eintr' = FALSE
  BY DEF SpinUp, Returns, TrackStart, trackVars, hostSigs
<1> USE DEF CommandPcs, LoosePcs
<1>2. CASE ~eintr
  BY <1>1, <1>2, ReturnToIdle DEF Behind
<1>3. CASE eintr /\ pc' = "leave"
  BY <1>1, <1>3, GoLoose
<1>4. CASE eintr /\ pc' \in {"sidepin", "seek"}
  <2>1. Together /\ toHost' = toHost /\ Command' = Command
    BY <1>1, <1>4 DEF SessionInv, Behind, Returns, Command
  <2>2. CASE ~waiting
    <3>1. Idle'
      BY <1>1, <2>1, <2>2 DEF Together, Idle
    <3> QED
      BY <1>1, <1>4, <3>1, GoIdle DEF Known
  <2>3. CASE waiting
    <3>1. Underway \/ Answered
      BY <1>1, <2>1, <2>3 DEF Together
    <3>2. CASE Underway
      <4>1. toHost = <<>> /\ Collecting(Command["spin"])
            /\ Len(toDevice) = Len(Command["spin"]) - Len(sp.cbuf)
        BY <1>1, <3>2 DEF Underway
      <4>2. SpinLate'
        BY <1>1, <2>1, <4>1 DEF SpinLate, Collecting
      <4> QED
        BY <1>1, <1>4, <4>2 DEF SessionInv, Behind, SignalInv
    <3>3. CASE Answered
      <4>1. /\ Len(toHost) >= 2 /\ toHost[1] = 6 /\ toDevice = <<>>
            /\ sp.state = "CMD" /\ sp.cbuf = <<>>
        BY <1>1, <3>3, CommandBytes DEF Answered, AnswerTo
      <4>2. toHost # <<>>
        BY <4>1
      <4>3. SpinLate'
        BY <1>1, <2>1, <4>1, <4>2 DEF SpinLate
      <4> QED
        BY <1>1, <1>4, <4>3 DEF SessionInv, Behind, SignalInv
    <3> QED
      BY <3>1, <3>2, <3>3
  <2> QED
    BY <2>2, <2>3
<1> QED
  BY <1>1, <1>2, <1>3, <1>4

\* The heads are told where to go, and the answers say that they are there.
LEMMA HeadsSession ==
    ASSUME DataInv, FlagInv, SignalInv, SessionInv, Seek \/ SelectHead
    PROVE  SessionInv'
<1> USE DEF CommandPcs, LoosePcs, hostSigs
<1>1. Okay => ~(Result < 0)
  BY DEF Okay, ACK
<1>2. PICK p : p = Place(t, s)
  OBVIOUS
<1>3. pc \in {"seek", "head"} => p[1] \in 0 .. DriveTracks - 1
  BY <1>2, StreamFacts DEF DataInv, LoopInv, TrackPcs, DiskPlaces
<1>4. PICK c : c = Command[pc]
  OBVIOUS
<1>5. CASE Seek
  <2>1. /\ Returns("seek") /\ pc = "seek" /\ pc' = (IF Okay THEN "head" ELSE "leave")
        /\ UNCHANGED <<t, s, gw, broken, exit_requested>> /\ waiting' = FALSE
    BY <1>5 DEF Seek, Returns, trackVars
  <2>2. CASE Okay
    <3>1. Answered /\ toHost[2] = 0 /\ Idle'
      BY <1>1, <2>1, <2>2, Returned DEF Okay, ACK
    <3>2. c[1] = 2 /\ Len(c) = 3 /\ c[3] = p[1]
      BY <1>2, <1>4, <2>1, CommandBytes
    <3>3. gw.cyl = p[1]
      <4>1. p[1] < DriveTracks
        BY <1>3, <2>1, GwSimAssumption DEF MaxCyl
      <4> QED
        BY <1>4, <3>1, <3>2, <4>1 DEF Answered, AnswerTo
    <3>4. Known'
      BY <1>2, <2>1, <2>2, <3>3 DEF Known
    <3> QED
      BY <2>1, <2>2, <3>1, <3>4, GoIdle
  <2>3. CASE ~Okay
    BY <2>1, <2>3, ReturnToIdle
  <2> QED
    BY <2>2, <2>3
<1>6. CASE SelectHead
  <2>1. /\ Returns("head") /\ pc = "head" /\ pc' = (IF Okay THEN "wflux" ELSE "leave")
        /\ UNCHANGED <<t, s, gw, broken, exit_requested>> /\ waiting' = FALSE
    BY <1>6 DEF SelectHead, Returns
  <2>2. CASE Okay
    <3>1. Answered /\ toHost[2] = 0 /\ Idle' /\ Known
      BY <1>1, <2>1, <2>2, Returned DEF Okay, ACK
    <3>2. c[1] = 3 /\ Len(c) = 3 /\ c[3] = p[2]
      BY <1>2, <1>4, <2>1, CommandBytes
    <3>3. gw.head = p[2]
      BY <1>4, <3>1, <3>2 DEF Answered, AnswerTo
    <3>4. Known'
      BY <1>2, <2>1, <2>2, <3>1, <3>3 DEF Known
    <3> QED
      BY <2>1, <2>2, <3>1, <3>4, GoIdle
  <2>3. CASE ~Okay
    BY <2>1, <2>3, ReturnToIdle
  <2> QED
    BY <2>2, <2>3
<1> QED
  BY <1>5, <1>6

\* gw_write_stream() starts to send the stream to a device that receives it.
LEMMA WriteFluxSession ==
    ASSUME DataInv, FlagInv, SignalInv, SessionInv, WriteFlux
    PROVE  SessionInv'
<1> USE DEF CommandPcs, LoosePcs, hostSigs
<1>1. /\ Returns("wflux") /\ pc = "wflux" /\ wbuf' = Stream(Place(t, s))
      /\ pc' \in (IF Okay THEN {"stream"} ELSE {"leave", "cleanup"})
      /\ UNCHANGED <<t, s, gw, sp, media, broken, exit_requested>> /\ waiting' = FALSE
  BY DEF WriteFlux, Returns, Fatal, Okay, ACK
<1>2. CASE Okay
  <2>1. /\ Answered /\ toHost[2] = 0 /\ toHost' = <<>> /\ toDevice' = <<>> /\ sp'.cbuf = <<>>
        /\ Known
    <3>1. ~(Result < 0) /\ "wflux" \notin LoosePcs
      BY <1>2 DEF Okay, ACK
    <3> QED
      BY <1>1, <1>2, <3>1, Returned DEF Okay, ACK
  <2>2. sp'.state = "WRSTREAM" /\ sp'.wbuf = <<>>
    <3>1. PICK c : c = Command[pc]
      OBVIOUS
    <3>2. c[1] = 8
      BY <1>1, <3>1, CommandBytes
    <3> QED
      BY <1>1, <2>1, <3>1, <3>2 DEF Answered, AnswerTo
  <2>3. PICK p : p = Place(t, s)
    OBVIOUS
  <2>4. Len(Stream(p)) = 3
    BY <1>1, <2>3, StreamFacts DEF DataInv, LoopInv, TrackPcs
  <2>5. Receiving'
    <3>1. Stream(Place(t', s')) = Stream(p) /\ wbuf' = Stream(p)
      BY <1>1, <2>3
    <3>2. PICK w : w = sp'.wbuf
      OBVIOUS
    <3>3. PICK l : l = toDevice'
      OBVIOUS
    <3>4. Len(w) = 0 /\ Len(l) = 0 /\ \A i \in 1 .. 3 : 0 + 0 + i = i
      BY <2>1, <2>2, <3>2, <3>3
    <3>5. /\ Len(w) + Len(l) + Len(Stream(p)) = 3 /\ Len(w) < 3
          /\ \A i \in 1 .. Len(w) : w[i] = Stream(p)[i]
          /\ \A i \in 1 .. Len(l) : l[i] = Stream(p)[Len(w) + i]
      BY <2>4, <3>4
    <3>6. \A i \in 1 .. 3 : Stream(p)[i] = Stream(p)[Len(w) + Len(l) + i]
      BY <3>4
    <3> QED
      <4>1. /\ sp'.state = "WRSTREAM" /\ sp'.cbuf = <<>> /\ toHost' = <<>>
            /\ Len(wbuf') = 3 /\ Len(Stream(p)) = 3
            /\ \A i \in 1 .. 3 : wbuf'[i] = Stream(p)[Len(w) + Len(l) + i]
        BY <2>1, <2>2, <2>4, <3>1, <3>6
      <4>2. PICK st : st = Stream(p)
        OBVIOUS
      <4>3. PICK wb : wb = wbuf'
        OBVIOUS
      <4>4. /\ Len(w) + Len(l) + Len(wb) = Len(st)
            /\ Len(w) < Len(st)
            /\ \A i \in 1 .. Len(w) : w[i] = st[i]
            /\ \A i \in 1 .. Len(l) : l[i] = st[Len(w) + i]
            /\ \A i \in 1 .. Len(wb) : wb[i] = st[Len(w) + Len(l) + i]
        BY <3>5, <4>1, <4>2, <4>3
      <4> QED
        BY <3>1, <3>2, <3>3, <4>1, <4>2, <4>3, <4>4, ZenonT(60) DEF Receiving
  <2>6. Known'
    BY <1>1, <1>2, <2>1 DEF Known
  <2> QED
    BY <1>1, <1>2, <2>5, <2>6 DEF SessionInv, Together
<1>3. CASE ~Okay
  BY <1>1, <1>3, ReturnToIdle
<1> QED
  BY <1>2, <1>3

\* gw_write() moves the stream to the line, byte by byte.
LEMMA AcceptSession ==
    ASSUME DataInv, FlagInv, SignalInv, SessionInv, Accept
    PROVE  SessionInv'
<1>1. /\ pc = "stream" /\ wbuf # <<>> /\ wbuf' = Tail(wbuf)
      /\ toDevice' = Append(toDevice, Head(wbuf))
      /\ UNCHANGED <<pc, toHost, sp, gw, media, disk, t, s, waiting>>
  BY DEF Accept
<1>2. Together /\ Known
  BY <1>1 DEF SessionInv, Behind
<1>3. Receiving
  BY <1>1, <1>2 DEF Together, Received
<1>4. PICK stream : stream = Stream(Place(t, s))
  OBVIOUS
<1> DEFINE a == Len(sp.wbuf)
           b == Len(toDevice)
           d == Len(wbuf)
<1>5. toDevice \in Seq(Byte) /\ wbuf \in Seq(Byte) /\ sp.wbuf \in Seq(Byte)
  BY SpFields DEF DataInv, DeviceInv, SimTypeOK
<1>6. /\ a \in Nat /\ b \in Nat /\ d \in Nat /\ d >= 1 /\ stream \in Seq(Byte)
      /\ Len(toDevice') = b + 1 /\ toDevice'[b + 1] = wbuf[1]
      /\ \A i \in 1 .. b : toDevice'[i] = toDevice[i]
      /\ Len(wbuf') = d - 1
      /\ \A i \in 1 .. d - 1 : wbuf'[i] = wbuf[i + 1]
  <2>1. stream \in Seq(Byte)
    BY <1>1, <1>4, StreamFacts DEF DataInv, LoopInv, TrackPcs
  <2> QED
    BY <1>1, <1>5, <2>1
<1>7. /\ a + b + d = Len(stream) /\ a < Len(stream)
      /\ \A i \in 1 .. a : sp.wbuf[i] = stream[i]
      /\ \A i \in 1 .. b : toDevice[i] = stream[a + i]
      /\ \A i \in 1 .. d : wbuf[i] = stream[a + b + i]
      /\ sp.state = "WRSTREAM" /\ sp.cbuf = <<>> /\ toHost = <<>>
  BY <1>3, <1>4 DEF Receiving
<1> HIDE DEF a, b, d
<1>8. \A i \in 1 .. b + 1 : toDevice'[i] = stream[a + i]
  <2> SUFFICES ASSUME NEW i \in 1 .. b + 1 PROVE toDevice'[i] = stream[a + i]
    OBVIOUS
  <2>1. CASE i \in 1 .. b
    BY <1>6, <1>7, <2>1
  <2>2. CASE i = b + 1
    <3>1. 1 \in 1 .. d /\ a + b + 1 = a + (b + 1)
      BY <1>6
    <3> QED
      BY <1>6, <1>7, <2>2, <3>1
  <2> QED
    BY <1>6, <2>1, <2>2
<1>9. \A i \in 1 .. d - 1 : wbuf'[i] = stream[a + (b + 1) + i]
  <2> SUFFICES ASSUME NEW i \in 1 .. d - 1 PROVE wbuf'[i] = stream[a + (b + 1) + i]
    OBVIOUS
  <2>1. i + 1 \in 1 .. d /\ a + b + (i + 1) = a + (b + 1) + i
    BY <1>6
  <2> QED
    BY <1>6, <1>7, <2>1
<1>10. a + (b + 1) + (d - 1) = Len(stream)
  BY <1>6, <1>7, SMTT(60)
<1>11. Receiving'
  <2>1. Len(sp'.wbuf) = a /\ Stream(Place(t', s')) = stream /\ sp' = sp
    BY <1>1, <1>4 DEF a
  <2>2. /\ sp'.state = "WRSTREAM" /\ sp'.cbuf = <<>> /\ toHost' = <<>>
        /\ Len(sp'.wbuf) + Len(toDevice') + Len(wbuf') = Len(stream)
        /\ Len(sp'.wbuf) < Len(stream)
    BY <1>1, <1>6, <1>7, <1>10, <2>1
  <2>3. \A i \in 1 .. Len(sp'.wbuf) : (sp'.wbuf)[i] = stream[i]
    BY <1>7, <2>1
  <2>4. \A i \in 1 .. Len(toDevice') : toDevice'[i] = stream[Len(sp'.wbuf) + i]
    BY <1>6, <1>8, <2>1
  <2>5. \A i \in 1 .. Len(wbuf') :
          wbuf'[i] = stream[Len(sp'.wbuf) + Len(toDevice') + i]
    BY <1>6, <1>9, <2>1
  <2> QED
    BY <2>1, <2>2, <2>3, <2>4, <2>5, Zenon DEF Receiving
<1> QED
  BY <1>1, <1>2, <1>11 DEF SessionInv, Together, Known, CommandPcs

\* The host leaves gw_write_stream() in agreement with the device, or with the
\* end of the stream still to come.
LEMMA StreamSession ==
    ASSUME DataInv, FlagInv, SignalInv, SessionInv,
           WriteReturns \/ Sync \/ Retry \/ TrackWritten
    PROVE  SessionInv'
<1> USE DEF CommandPcs, LoosePcs, hostSigs
<1>1. CASE WriteReturns
  <2>1. /\ pc = "stream" /\ pc' \in {"stream", "sync"}
        /\ UNCHANGED <<toDevice, toHost, sp, gw, media, disk, t, s, wbuf, waiting>>
    BY <1>1 DEF WriteReturns, simVars
  <2>2. Together /\ Known /\ (Receiving \/ Received)
    BY <2>1 DEF SessionInv, Behind, Together
  <2>3. Receiving' \/ Received'
    BY <2>1, <2>2 DEF Receiving, Received, OnDisk
  <2> QED
    BY <2>1, <2>2, <2>3 DEF SessionInv, Together, Known
<1>2. CASE Sync
  <2>1. /\ pc = "sync" /\ pc' = "status" /\ eintr' = FALSE
        /\ IF eintr THEN UNCHANGED toHost ELSE toHost # <<>> /\ toHost' = Tail(toHost)
        /\ UNCHANGED <<toDevice, sp, gw, media, disk, t, s, wbuf, waiting, broken,
                       exit_requested>>
    BY <1>2 DEF Sync, trackVars
  <2>2. Together /\ Known /\ (Receiving \/ Received) /\ waiting' = FALSE
    BY <2>1 DEF SessionInv, Behind, Together, SignalInv, FlagInv, Stopped
  <2>3. CASE eintr
    <3>1. SyncLate'
      <4>1. CASE Receiving
        BY <2>1, <2>3, <4>1 DEF Receiving, SyncLate
      <4>2. CASE Received
        <5>1. toHost # <<>> /\ toHost[1] = 0
          BY <4>2 DEF Received
        <5> QED
          BY <2>1, <2>3, <5>1 DEF SyncLate
      <4> QED
        BY <2>2, <4>1, <4>2
    <3> QED
      BY <2>1, <2>3, <3>1 DEF SessionInv, Behind, SignalInv
  <2>4. CASE ~eintr
    <3>1. Received
      BY <2>1, <2>2, <2>4 DEF Receiving
    <3>2. toHost' = <<>>
      BY <2>1, <2>4, <3>1 DEF Received, DataInv, DeviceInv, SimTypeOK
    <3>3. Idle'
      BY <2>1, <3>1, <3>2 DEF Idle, Received
    <3>4. Known'
      BY <2>1, <2>2, <3>1 DEF Known, Received, OnDisk
    <3> QED
      BY <2>1, <2>2, <3>3, <3>4, GoIdle
  <2> QED
    BY <2>3, <2>4
<1>3. CASE Retry
  <2>1. /\ Returns("status") /\ pc = "status" /\ pc' = "wflux" /\ waiting' = FALSE
        /\ UNCHANGED <<t, s, gw>> /\ Result = 5
    BY <1>3 DEF Retry, Returns, MayRetry, ACK
  <2>2. ~(Result < 0)
    BY <2>1
  <2>3. Idle' /\ Known
    BY <2>1, <2>2, Returned
  <2>4. Known'
    BY <2>1, <2>3 DEF Known
  <2> QED
    BY <2>1, <2>3, <2>4, GoIdle
<1>4. CASE TrackWritten
  <2>1. /\ Returns("status") /\ Okay /\ pc' \in {"leave", "sidepin", "seek"}
        /\ UNCHANGED <<broken, exit_requested>>
    BY <1>4 DEF TrackWritten, Written, TrackStart
  <2>2. ~(Result < 0)
    BY <2>1 DEF Okay, ACK
  <2>3. ~Behind /\ ~eintr
    BY <2>1, <2>2, Returned
  <2> QED
    BY <2>1, <2>3, ReturnToIdle
<1> QED
  BY <1>1, <1>2, <1>3, <1>4

\* Whatever the host does, it stays in agreement with the device or behind.
LEMMA HostSession ==
    ASSUME DataInv, FlagInv, SignalInv, SessionInv, Host
    PROVE  SessionInv'
BY SimpleReturns, SendSession, OpenSession, SpinUpSession, HeadsSession, WriteFluxSession,
   AcceptSession, StreamSession DEF Host

-----------------------------------------------------------------------------
(* The line stays safe.                                                    *)

\* A step that does not touch the line, the device or what was begun.
LEMMA LineStays ==
    ASSUME LineSafe, UNCHANGED <<toDevice, sp, gw, told>>
    PROVE  LineSafe'
<1>1. Here' = Here
  BY DEF Here
<1>2. \A c, d : OnLine(c, d) => OnLine(c, d)'
  BY ZenonT(60) DEF OnLine, Collecting, NoWriteFlux
<1> QED
  BY <1>1, <1>2 DEF LineSafe, WriteBegun, NoWriteFlux

\* Bytes that cannot start a write may be put behind any others.
LEMMA LineGrows ==
    ASSUME DataInv, LineSafe, NEW more \in Seq(Byte), NoWriteFlux(more, 1),
           toDevice' = toDevice \o more, UNCHANGED <<sp, gw, told>>
    PROVE  LineSafe'
<1>1. Here' = Here /\ toDevice \in Seq(Byte) /\ sp.cbuf \in Seq(Byte)
  BY SpFields DEF Here, DataInv, DeviceInv, SimTypeOK
<1>2. PICK b \in Nat : b = Len(toDevice)
  BY <1>1
<1>3. PICK e \in Nat : e = Len(more)
  BY <1>1
<1>4. /\ Len(toDevice') = b + e
      /\ \A i \in 1 .. b : toDevice'[i] = toDevice[i]
      /\ \A i \in 1 .. e : toDevice'[b + i] = more[i]
  BY <1>1, <1>2, <1>3
<1>5. ASSUME NEW k \in Nat \ {0}, NoWriteFlux(toDevice, k)
      PROVE  NoWriteFlux(toDevice, k)'
  <2> SUFFICES ASSUME NEW i \in k .. b + e PROVE toDevice'[i] # 8
    BY <1>4 DEF NoWriteFlux
  <2>1. CASE i <= b
    BY <1>2, <1>4, <1>5, <2>1 DEF NoWriteFlux
  <2>2. CASE i > b
    <3>1. i - b \in 1 .. e /\ b + (i - b) = i
      BY <2>2
    <3>2. more[i - b] # 8
      BY <1>3, <3>1 DEF NoWriteFlux
    <3> QED
      BY <1>4, <3>1, <3>2
  <2>3. i \in Int /\ (i <= b \/ i > b)
    OBVIOUS
  <2> QED
    BY <2>1, <2>2, <2>3, Zenon
<1>6. NoWriteFlux(toDevice, 1) => NoWriteFlux(toDevice, 1)'
  BY <1>5
<1>7. CASE /\ sp.state = "WRSTREAM" /\ sp.cbuf = <<>>
           /\ WriteBegun /\ NoWriteFlux(toDevice, 1)
  BY <1>1, <1>6, <1>7 DEF LineSafe, WriteBegun
<1>8. CASE sp.state = "CMD" /\ NoWriteFlux(sp.cbuf, 1) /\ NoWriteFlux(toDevice, 1)
  BY <1>6, <1>8 DEF LineSafe, NoWriteFlux
<1>9. ASSUME NEW c \in Seq(Byte), NEW d \in Seq(Byte), OnLine(c, d), IsFrame(c),
             c[1] = 8 => WriteBegun /\ d = <<>>,
             d # <<>> => IsFrame(d) /\ d[1] # 8
      PROVE  LineSafe'
  <2>1. PICK n \in Nat : n = Len(sp.cbuf)
    BY <1>1
  <2>2. PICK k \in Nat : k = Len(c)
    BY <1>9 DEF IsFrame
  <2>3. PICK l \in Nat : l = Len(d)
    BY <1>9
  <2>4. /\ n < k /\ b >= k - n + l /\ sp.state = "CMD"
        /\ \A i \in 1 .. n : sp.cbuf[i] = c[i]
        /\ \A i \in 1 .. k - n : toDevice[i] = c[n + i]
        /\ \A i \in 1 .. l : toDevice[k - n + i] = d[i]
        /\ NoWriteFlux(toDevice, k - n + l + 1)
    BY <1>2, <1>9, <2>1, <2>2, <2>3 DEF OnLine, Collecting
  <2>5. \A i \in 1 .. k - n : toDevice'[i] = c[n + i]
    <3> SUFFICES ASSUME NEW i \in 1 .. k - n PROVE toDevice'[i] = c[n + i]
      OBVIOUS
    <3>1. i \in 1 .. b
      BY <2>4
    <3> QED
      BY <1>4, <2>4, <3>1
  <2>6. \A i \in 1 .. l : toDevice'[k - n + i] = d[i]
    <3> SUFFICES ASSUME NEW i \in 1 .. l PROVE toDevice'[k - n + i] = d[i]
      OBVIOUS
    <3>1. k - n + i \in 1 .. b
      BY <2>4, SMTT(60)
    <3> QED
      BY <1>4, <2>4, <3>1
  <2>7. NoWriteFlux(toDevice, k - n + l + 1)'
    BY <1>5, <2>4
  <2>8. b + e >= k - n /\ b + e >= k - n + l
    BY <2>4, SMTT(60)
  <2>9. OnLine(c, d)'
    <3>1. sp'.state = "CMD" /\ Len(sp'.cbuf) = n /\ sp'.cbuf = sp.cbuf
      BY <2>1, <2>4
    <3> QED
      BY <1>4, <2>2, <2>3, <2>4, <2>5, <2>6, <2>7, <2>8, <3>1 DEF OnLine, Collecting
  <2> QED
    BY <1>1, <1>9, <2>9 DEF LineSafe, WriteBegun
<1> QED
  BY <1>7, <1>8, <1>9 DEF LineSafe

\* A command may be sent: alone on the line, or behind a late one.  The one
\* that starts a write is sent when the heads are where it is to write.
LEMMA SendLine ==
    ASSUME DataInv, FlagInv, SignalInv, SessionInv, LineSafe, Send
    PROVE  LineSafe'
<1>1. /\ pc \in CommandPcs /\ ~waiting
      /\ toDevice' = toDevice \o Command[pc]
      /\ UNCHANGED <<toHost, sp, gw, pc, t, s>>
      /\ told' = IF pc = "wflux" THEN [told EXCEPT ![Place(t, s)] = "begun"] ELSE told
  BY CommandDomain DEF Send, trackVars
<1>2. PICK c : c = Command[pc]
  OBVIOUS
<1>3. IsFrame(c) /\ c \in Seq(Byte)
  BY <1>1, <1>2, CommandFrame DEF IsFrame
<1>4. c[1] = 8 <=> pc = "wflux"
  BY <1>1, <1>2, CommandBytes, SMTT(60) DEF CommandPcs
<1>5. Here' = Here
  BY <1>1 DEF Here
<1>6. CASE toDevice = <<>> /\ sp.state = "CMD" /\ sp.cbuf = <<>>
           /\ (pc = "wflux" => Together /\ Known)
  <2>1. Collecting(c)' /\ Len(toDevice') = Len(c) - Len(sp'.cbuf)
    BY <1>1, <1>2, <1>6, SentAlone
  <2>2. c[1] = 8 => WriteBegun'
    <3> SUFFICES ASSUME pc = "wflux" PROVE WriteBegun'
      BY <1>4
    <3>1. Here = Place(t, s)
      BY <1>6 DEF Known, Here, Place
    <3>2. Place(t, s) \in DiskPlaces
      BY StreamFacts DEF DataInv, LoopInv, TrackPcs
    <3>3. told'[Place(t, s)] = "begun"
      BY <1>1, <3>2 DEF DataInv
    <3> QED
      BY <1>5, <3>1, <3>3 DEF WriteBegun
  <2>3. OnLine(c, <<>>)'
    <3>1. PICK k : k = Len(c) - Len(sp'.cbuf)
      OBVIOUS
    <3>2. PICK b : b = Len(toDevice')
      OBVIOUS
    <3>3. b = k /\ k \in Nat /\ Len(<<>>) = 0
      <4>1. k \in Int /\ b \in Nat
        BY <1>1, <1>3, <3>1, <3>2, SpFields DEF DataInv, DeviceInv, SimTypeOK
      <4> QED
        BY <2>1, <3>1, <3>2, <4>1
    <3>4. /\ b >= k + Len(<<>>)
          /\ \A i \in 1 .. Len(<<>>) : toDevice'[k + i] = <<>>[i]
          /\ \A i \in k + Len(<<>>) + 1 .. b : toDevice'[i] # 8
      BY <3>3
    <3> QED
      BY <2>1, <3>1, <3>2, <3>4 DEF OnLine, NoWriteFlux
  <2>4. <<>> \in Seq(Byte)
    OBVIOUS
  <2> QED
    BY <1>3, <2>2, <2>3, <2>4 DEF LineSafe
<1>7. CASE Together /\ Known
  BY <1>1, <1>6, <1>7 DEF Together, Idle
<1>8. CASE Behind
  <2>1. told' = told /\ pc # "wflux" /\ pc \notin {"head"}
    BY <1>1, <1>8 DEF Behind
  <2>2. CASE pc # "seek"
    <3>1. NoWriteFlux(c, 1)
      <4>1. Unit \in {0, 1, 2} /\ s \in {0, 1}
        BY GwSimAssumption DEF BUS, MaxUnits, DataInv
      <4>2. c \in {<<15, 4, 2, s>>, <<9, 2>>, <<6, 4, Unit, 0>>, <<13, 2>>, <<16, 2>>}
        BY <1>1, <1>2, <1>8, <2>2, CommandBytes, ZenonT(60) DEF Behind, CommandPcs
      <4> QED
        BY <4>1, <4>2 DEF NoWriteFlux
    <3> QED
      BY <1>1, <1>2, <1>3, <2>1, <3>1, LineGrows
  <2>3. CASE pc = "seek" /\ toHost # <<>>
    BY <1>1, <1>6, <1>8, <2>1, <2>3 DEF Behind, SpinLate
  <2>4. CASE pc = "seek" /\ toHost = <<>>
    <3>1. PICK d : d = Command["spin"]
      OBVIOUS
    <3>2. /\ Collecting(d) /\ Len(toDevice) = Len(d) - Len(sp.cbuf)
      BY <1>1, <1>8, <2>4, <3>1 DEF Behind, SpinLate
    <3>3. IsFrame(d) /\ d[1] = 6 /\ Len(d) = 4 /\ d \in Seq(Byte)
      BY <3>1, CommandType, CommandBytes, SMTT(60) DEF DataInv, CommandPcs, IsFrame
    <3>4. c[1] = 2 /\ Len(c) = 3
      BY <1>2, <2>4, CommandBytes
    <3>5. PICK n \in Nat : n = Len(sp.cbuf)
      BY SpFields DEF DataInv, DeviceInv, SimTypeOK
    <3>6. /\ n < 4 /\ Len(toDevice) = 4 - n /\ sp.state = "CMD" /\ toDevice \in Seq(Byte)
          /\ \A i \in 1 .. n : sp.cbuf[i] = d[i]
          /\ \A i \in 1 .. 4 - n : toDevice[i] = d[n + i]
      BY <3>2, <3>3, <3>5 DEF Collecting, DataInv, DeviceInv, SimTypeOK
    <3>7. /\ Len(toDevice') = (4 - n) + 3
          /\ \A i \in 1 .. 4 - n : toDevice'[i] = toDevice[i]
          /\ \A i \in 1 .. 3 : toDevice'[(4 - n) + i] = c[i]
      <4>1. /\ Len(toDevice \o c) = Len(toDevice) + Len(c)
            /\ \A i \in 1 .. Len(toDevice) : (toDevice \o c)[i] = toDevice[i]
            /\ \A i \in 1 .. Len(c) : (toDevice \o c)[Len(toDevice) + i] = c[i]
        BY <1>3, <3>6
      <4> QED
        BY <1>1, <1>2, <3>4, <3>6, <4>1
    <3>8. /\ \A i \in 1 .. 4 - n : toDevice'[i] = d[n + i]
          /\ \A i \in 4 - n + 3 + 1 .. Len(toDevice') : toDevice'[i] # 8
          /\ Len(toDevice') >= 4 - n /\ Len(toDevice') >= 4 - n + 3
      BY <3>6, <3>7
    <3>9. OnLine(d, c)'
      <4>1. sp'.state = "CMD" /\ Len(sp'.cbuf) = n /\ sp'.cbuf = sp.cbuf
        BY <1>1, <3>5, <3>6
      <4> QED
        BY <3>3, <3>4, <3>6, <3>7, <3>8, <4>1 DEF OnLine, Collecting, NoWriteFlux
    <3> QED
      BY <1>3, <3>3, <3>4, <3>9 DEF LineSafe
  <2> QED
    BY <2>2, <2>3, <2>4
<1>9. pc # "killed"
  BY <1>1 DEF CommandPcs
<1> QED
  BY <1>7, <1>8, <1>9 DEF SessionInv

\* Whatever the host does, no byte reaches the device that could start a
\* write where none was begun.
LEMMA HostLine ==
    ASSUME DataInv, FlagInv, SignalInv, SessionInv, LineSafe, Host
    PROVE  LineSafe'
<1>1. CASE Send
  BY <1>1, SendLine
<1>2. CASE Accept
  <2>1. /\ pc = "stream" /\ wbuf # <<>> /\ toDevice' = Append(toDevice, Head(wbuf))
        /\ UNCHANGED <<sp, gw, told>>
    BY <1>2 DEF Accept
  <2>2. Receiving
    BY <2>1 DEF SessionInv, Behind, Together, Received, CommandPcs
  <2>3. PICK stream : stream = Stream(Place(t, s))
    OBVIOUS
  <2>4. Len(stream) = 3 /\ stream[1] # 8 /\ stream[2] # 8 /\ stream[3] # 8
    <3>1. PICK p : p = Place(t, s)
      OBVIOUS
    <3>2. /\ p[1] \in 0 .. 87 /\ p[2] \in {0, 1} /\ Len(Stream(p)) = 3
          /\ Stream(p)[1] = 10 + p[1] /\ Stream(p)[2] = 100 + p[2] /\ Stream(p)[3] = 0
      BY <2>1, <3>1, StreamFacts DEF DataInv, LoopInv, TrackPcs
    <3> QED
      BY <2>3, <3>1, <3>2
  <2>5. wbuf \in Seq(Byte) /\ toDevice \in Seq(Byte) /\ sp.wbuf \in Seq(Byte)
    BY SpFields DEF DataInv, DeviceInv, SimTypeOK
  <2>6. PICK a \in Nat : a = Len(sp.wbuf)
    BY <2>5
  <2>7. PICK b \in Nat : b = Len(toDevice)
    BY <2>5
  <2>8. /\ a + b + Len(wbuf) = 3 /\ Len(wbuf) \in Nat \ {0} /\ Head(wbuf) = wbuf[1]
        /\ \A i \in 1 .. Len(wbuf) : wbuf[i] = stream[a + b + i]
    BY <2>1, <2>2, <2>3, <2>4, <2>5, <2>6, <2>7 DEF Receiving
  <2>9. Head(wbuf) # 8 /\ Head(wbuf) \in Byte
    <3>1. a + b + 1 \in 1 .. 3 /\ wbuf[1] = stream[a + b + 1]
      BY <2>8
    <3>2. \A i \in 1 .. 3 : stream[i] # 8
      BY <2>4
    <3> QED
      BY <2>5, <2>8, <3>1, <3>2, SMTT(60)
  <2>10. PICK h \in Byte : h = Head(wbuf)
    BY <2>9
  <2>11. /\ <<h>> \in Seq(Byte) /\ NoWriteFlux(<<h>>, 1)
         /\ toDevice' = toDevice \o <<h>>
    BY <2>1, <2>5, <2>9, <2>10, SMTT(60) DEF NoWriteFlux
  <2> QED
    BY <2>1, <2>11, LineGrows
<1>3. CASE TrackWritten
  <2>1. Returns("status") /\ ~(Result < 0)
    BY <1>3 DEF TrackWritten, Written, Okay, ACK
  <2>2. Idle'
    BY <2>1, Returned DEF CommandPcs, LoosePcs
  <2> QED
    BY <2>2 DEF Idle, LineSafe, NoWriteFlux
<1>4. CASE /\ ~Send /\ ~Accept /\ ~TrackWritten
  <2>1. UNCHANGED <<toDevice, sp, gw, told>>
    BY <1>4 DEF Host, Open, InitGw, SetDrive, ReadFlux, ReadStream, ReadStatus, RpmKnown,
       RpmUnknown, SetDensity, SpinUp, SideDensity, Seek, SelectHead, WriteFlux,
       WriteReturns, Sync, Retry, TrackFailed, Leave, UnsetDrive, Cleanup, Returns, simVars
  <2> QED
    BY <2>1, LineStays
<1> QED
  BY <1>1, <1>2, <1>3, <1>4

\* A signal leaves the line safe: gw_reset_async() puts a reset on it.
LEMMA SignalLine ==
    ASSUME DataInv, LineSafe, Signal
    PROVE  LineSafe'
<1>1. PICK sig \in Signals : RequestExit(sig) \/ ResetAndDie(sig) \/ Die(sig)
  BY DEF Signal
<1>2. UNCHANGED <<sp, gw, told>>
  BY <1>1 DEF RequestExit, ResetAndDie, Die, simVars
<1>3. toDevice' = toDevice \/ toDevice' = toDevice \o <<16, 2>>
  BY <1>1 DEF RequestExit, ResetAndDie, Die, simVars, CMD
<1>4. <<16, 2>> \in Seq(Byte) /\ NoWriteFlux(<<16, 2>>, 1)
  BY DEF Byte, NoWriteFlux
<1> QED
  BY <1>2, <1>3, <1>4, LineStays, LineGrows

\* A signal stops the program, or asks it to stop; a call that it breaks off
\* leaves everything as it is.
LEMMA SignalSession ==
    ASSUME DataInv, FlagInv, SignalInv, SessionInv, Signal
    PROVE  SessionInv'
<1>1. PICK sig \in Signals : RequestExit(sig) \/ ResetAndDie(sig) \/ Die(sig)
  BY DEF Signal
<1>2. CASE RequestExit(sig)
  <2>1. /\ UNCHANGED <<toDevice, toHost, sp, gw, media, disk, pc, waiting, t, s, wbuf>>
        /\ ~exit_requested /\ pc # "killed"
    BY <1>2 DEF RequestExit, Deliverable, Stopped, simVars, trackVars
  <2>2. Together /\ Known
    BY <2>1 DEF SessionInv, Behind
  <2>3. Command' = Command /\ Place(t, s)' = Place(t, s)
    BY <2>1 DEF Command
  <2>4. Together'
    BY <2>1, <2>2, <2>3
       DEF Together, Underway, Answered, Idle, Revolution, Receiving, Received, OnDisk,
           Collecting, AnswerTo
  <2> QED
    BY <2>1, <2>2, <2>4 DEF SessionInv, Known, OnDisk
<1>3. CASE ResetAndDie(sig) \/ Die(sig)
  BY <1>3 DEF ResetAndDie, Die, SessionInv
<1> QED
  BY <1>1, <1>2, <1>3

-----------------------------------------------------------------------------
(* What has been written, and where nothing is.                            *)

\* The point where the place of the track holds anything.
Writing == pc \in {"stream", "sync", "status"} \/ (pc = "wflux" /\ waiting)

\* No two tracks of the image go to one place.
LEMMA PlacesDiffer ==
    ASSUME NEW t1 \in 0 .. Tracks - 1, NEW s1 \in {0, 1},
           NEW t2 \in 0 .. Tracks - 1, NEW s2 \in {0, 1},
           Place(t1, s1) = Place(t2, s2)
    PROVE  t1 = t2 /\ s1 = s2
<1>1. t1 * Steps = t2 * Steps /\ (s1 + ReverseSides) % 2 = (s2 + ReverseSides) % 2
  BY DEF Place
<1>2. t1 = t2
  <2>1. CASE Steps = 1
    BY <1>1, <2>1, DiskWriteAssumption
  <2>2. CASE Steps = 2
    BY <1>1, <2>2, DiskWriteAssumption
  <2> QED
    BY <2>1, <2>2, DiskWriteAssumption
<1>3. s1 = s2
  BY <1>1, DiskWriteAssumption
<1> QED
  BY <1>2, <1>3

\* A step that does not come to the stream from elsewhere.
LEMMA ProgressStays ==
    ASSUME ProgressInv, UNCHANGED <<told, t, s>>, Writing' => Writing
    PROVE  ProgressInv'
<1>1. Place(t, s)' = Place(t, s)
  OBVIOUS
<1> QED
  BY <1>1 DEF ProgressInv, Writing

\* gw_do_command() with WRITE_FLUX begins the track, write_track() finishes
\* it and dmk2gw() goes on to the next one.
LEMMA HostProgress ==
    ASSUME DataInv, FlagInv, ProgressInv, Host
    PROVE  ProgressInv'
<1>1. /\ t \in Nat /\ s \in 0 .. Sides - 1 /\ s \in {0, 1} /\ Sides \in {1, 2} /\ Tracks \in Nat
      /\ Tracks # 0 => t \in 0 .. Tracks - 1
      /\ told \in [DiskPlaces -> {"untouched", "begun", "written"}]
  BY DiskWriteAssumption DEF DataInv, LoopInv
<1>2. \A side \in 0 .. Sides - 1 : side \in {0, 1}
  BY <1>1
<1>3. ASSUME NEW track \in 0 .. Tracks - 1, NEW side \in 0 .. Sides - 1
      PROVE  Place(track, side) \in DiskPlaces
  BY <1>2, PlaceInDrive
<1>4. ASSUME NEW track \in 0 .. Tracks - 1, NEW side \in 0 .. Sides - 1,
             track < t \/ (track = t /\ side < s)
      PROVE  Place(track, side) # Place(t, s)
  <2>1. side \in {0, 1} /\ (track # t \/ side # s) /\ t \in 0 .. Tracks - 1
    BY <1>1, <1>2, <1>4
  <2> QED
    BY <1>1, <2>1, PlacesDiffer
<1>5. CASE Send
  <2>1. /\ UNCHANGED <<pc, t, s>> /\ waiting' = TRUE
        /\ told' = IF pc = "wflux" THEN [told EXCEPT ![Place(t, s)] = "begun"] ELSE told
    BY <1>5 DEF Send, trackVars
  <2>2. CASE pc # "wflux"
    BY <2>1, <2>2, ProgressStays DEF Writing
  <2>3. CASE pc = "wflux"
    <3>1. Tracks # 0 /\ Place(t, s) \in DiskPlaces
      BY <1>1, <1>3, <2>3 DEF DataInv, LoopInv, TrackPcs
    <3>2. told'[Place(t, s)] = "begun" /\ \A p \in DiskPlaces : p # Place(t, s) => told'[p] = told[p]
      BY <1>1, <2>1, <2>3, <3>1
    <3>3. Place(t, s)' = Place(t, s)
      BY <2>1
    <3>4. \A track \in 0 .. Tracks - 1, side \in 0 .. Sides - 1 :
            track < t \/ (track = t /\ side < s) => told'[Place(track, side)] = "written"
      BY <1>3, <1>4, <3>2 DEF ProgressInv
    <3> QED
      BY <2>1, <3>1, <3>2, <3>3, <3>4 DEF ProgressInv
  <2> QED
    BY <2>2, <2>3
<1>6. CASE WriteFlux
  <2>1. /\ UNCHANGED <<told, t, s>> /\ waiting' = FALSE /\ pc = "wflux"
        /\ pc' \in {"stream", "leave", "cleanup"}
        /\ pc' = "stream" => Okay
        /\ eintr \/ waiting
    BY <1>6 DEF WriteFlux, Returns, Fatal
  <2>2. Okay => ~eintr
    BY DEF Okay, Result, ACK
  <2> QED
    BY <2>1, <2>2, ProgressStays DEF Writing
<1>7. CASE TrackWritten
  <2>1. /\ pc = "status" /\ told' = [told EXCEPT ![Place(t, s)] = "written"]
        /\ \/ pc' = "leave" /\ UNCHANGED <<t, s>>
           \/ /\ pc' \in {"seek", "sidepin"}
              /\ t' = IF s = Sides - 1 THEN t + 1 ELSE t
              /\ s' = (s + 1) % Sides
    BY <1>7 DEF TrackWritten, TrackStart, Returns
  <2>2. Place(t, s) \in DiskPlaces
    BY <1>1, <1>3, <2>1 DEF DataInv, LoopInv, TrackPcs
  <2>3. told'[Place(t, s)] = "written" /\ \A p \in DiskPlaces : p # Place(t, s) => told'[p] = told[p]
    BY <1>1, <2>1, <2>2
  <2>4. \A p \in DiskPlaces : told'[p] # "begun"
    BY <2>3 DEF ProgressInv
  <2>5. \A track \in 0 .. Tracks - 1, side \in 0 .. Sides - 1 :
          track < t \/ (track = t /\ side <= s) => told'[Place(track, side)] = "written"
    <3> SUFFICES ASSUME NEW track \in 0 .. Tracks - 1, NEW side \in 0 .. Sides - 1,
                        track < t \/ (track = t /\ side <= s)
                 PROVE  told'[Place(track, side)] = "written"
      OBVIOUS
    <3>1. CASE track = t /\ side = s
      BY <2>3, <3>1
    <3>2. CASE track < t \/ (track = t /\ side < s)
      BY <1>3, <2>3, <3>2 DEF ProgressInv
    <3> QED
      BY <1>1, <3>1, <3>2
  <2>6. \A track \in 0 .. Tracks - 1, side \in 0 .. Sides - 1 :
          track < t' \/ (track = t' /\ side < s') => track < t \/ (track = t /\ side <= s)
    <3>1. CASE Sides = 1
      BY <1>1, <2>1, <3>1
    <3>2. CASE Sides = 2
      BY <1>1, <2>1, <3>2
    <3> QED
      BY <1>1, <3>1, <3>2
  <2> QED
    BY <2>1, <2>4, <2>5, <2>6 DEF ProgressInv
<1>8. CASE ~Send /\ ~WriteFlux /\ ~TrackWritten
  <2>1. UNCHANGED <<told, t, s>> /\ (Writing' => Writing)
    BY <1>8 DEF Host, Open, InitGw, SetDrive, ReadFlux, ReadStream, ReadStatus, RpmKnown,
       RpmUnknown, SetDensity, SpinUp, SideDensity, Seek, SelectHead, Accept, Fatal,
       WriteReturns, Sync, Retry, TrackFailed, Leave, UnsetDrive, Cleanup, Returns,
       trackVars, StartLoop, TrackStart, Writing
  <2> QED
    BY <2>1, ProgressStays
<1> QED
  BY <1>5, <1>6, <1>7, <1>8

\* get_rpm() finds out that there is no diskette: the flux status of the read
\* is not good.
LEMMA HostMedia ==
    ASSUME DataInv, FlagInv, SignalInv, SessionInv, MediaInv, Host
    PROVE  MediaInv'
<1>1. media' = media
  BY DEF Host, Send, Open, InitGw, SetDrive, ReadFlux, ReadStream, ReadStatus, RpmKnown,
     RpmUnknown, SetDensity, SpinUp, SideDensity, Seek, SelectHead, WriteFlux, Accept,
     WriteReturns, Sync, Retry, TrackWritten, TrackFailed, Leave, UnsetDrive, Cleanup,
     Returns, simVars
<1> SUFFICES ASSUME media = "none" PROVE MediaInv'
  BY <1>1 DEF MediaInv
<1> DEFINE Past == TrackPcs \cup {"rpm_off", "densel", "spin", "leave"}
<1>2. pc \notin Past
  BY DEF MediaInv
<1>3. ASSUME ReadStatus PROVE ~Okay
  <2>1. Returns("rstatus") /\ pc = "rstatus" /\ "rstatus" \in CommandPcs \ LoosePcs
    BY <1>3 DEF ReadStatus, Returns, CommandPcs, LoosePcs
  <2>2. ~Behind /\ ~eintr
    BY <2>1 DEF Behind, SignalInv, TrackPcs, Stopped
  <2>3. Known /\ Answered /\ Result = toHost[2]
    BY <2>1, <2>2, Returned
  <2>4. PICK c : c = Command[pc]
    OBVIOUS
  <2>5. c[1] = 9
    BY <2>1, <2>4, CommandBytes
  <2>6. toHost[2] = gw.flux_status /\ gw.flux_status # 0
    BY <2>1, <2>3, <2>4, <2>5 DEF Answered, AnswerTo, Known
  <2> QED
    BY <2>3, <2>6 DEF Okay, ACK
<1> SUFFICES told' = told /\ pc' \notin Past
  BY DEF MediaInv
<1>4. CASE Send
  BY <1>2, <1>4 DEF Send, TrackPcs
<1>5. CASE Open \/ ReadFlux \/ ReadStream \/ RpmUnknown \/ Cleanup
  BY <1>2, <1>5 DEF Open, ReadFlux, ReadStream, RpmUnknown, Cleanup, Fatal, TrackPcs
<1>6. CASE ReadStatus
  BY <1>3, <1>6 DEF ReadStatus, TrackPcs
<1>7. CASE InitGw
  <2>1. told' = told /\ pc' \in {"info", "bus", "select", "fatal"}
    BY <1>7 DEF InitGw
  <2> QED
    BY <2>1 DEF TrackPcs
<1>8. CASE SetDrive
  <2>1. told' = told /\ pc' \in {"pin", "motor", "rpm_on", "rflux", "cleanup"}
    BY <1>8 DEF SetDrive, Fatal
  <2> QED
    BY <2>1 DEF TrackPcs
<1>9. CASE UnsetDrive
  BY <1>9 DEF UnsetDrive, TrackPcs
<1>10. ~RpmKnown /\ ~SetDensity /\ ~SpinUp /\ ~SideDensity /\ ~Seek /\ ~SelectHead
  BY <1>2
     DEF RpmKnown, SetDensity, SpinUp, SideDensity, Seek, SelectHead, Returns, TrackPcs
<1>11. /\ ~WriteFlux /\ ~Accept /\ ~WriteReturns /\ ~Sync /\ ~Retry /\ ~TrackWritten
       /\ ~TrackFailed /\ ~Leave
  BY <1>2
     DEF WriteFlux, Accept, WriteReturns, Sync, Retry, TrackWritten, TrackFailed, Leave,
         Returns, TrackPcs
<1> QED
  BY <1>4, <1>5, <1>6, <1>7, <1>8, <1>9, <1>10, <1>11 DEF Host

-----------------------------------------------------------------------------
(* The first run.                                                          *)

\* Nothing is lost when nothing happens.
LEMMA NothingHappens ==
    ASSUME SessionInv, LineSafe, ProgressInv, MediaInv, UNCHANGED vars
    PROVE  SessionInv' /\ LineSafe' /\ ProgressInv' /\ MediaInv'
<1>1. UNCHANGED <<toDevice, toHost, sp, gw, media, disk, pc, waiting, t, s, wbuf, told,
                  broken, exit_requested, eintr>>
  BY DEF vars, simVars, hostVars, trackVars, hostSigs
<1>2. Command' = Command /\ Place(t, s)' = Place(t, s)
  BY <1>1 DEF Command
<1>3. Together => Together'
  BY <1>1, <1>2
     DEF Together, Underway, Answered, Idle, Revolution, Receiving, Received, OnDisk,
         Collecting, AnswerTo
<1>4. Known => Known'
  BY <1>1, <1>2 DEF Known, OnDisk
<1>5. Behind => Behind'
  BY <1>1, <1>2 DEF Behind, SpinLate, SyncLate, Collecting
<1> QED
  BY <1>1, <1>3, <1>4, <1>5, LineStays, ProgressStays DEF SessionInv, MediaInv, Writing

\* The device is switched on, and the first program is started.
LEMMA InitFirstRun == Init => SignalInv /\ FirstRunInv
<1> SUFFICES ASSUME Init PROVE SignalInv /\ FirstRunInv
  OBVIOUS
<1>1. /\ toDevice = <<>> /\ toHost = <<>> /\ sp.state = "CMD" /\ sp.cbuf = <<>>
      /\ pc = "open" /\ waiting = FALSE /\ t = 0 /\ s = 0 /\ run = 1
      /\ writing_floppy = FALSE /\ exit_requested = FALSE /\ eintr = FALSE /\ broken = FALSE
      /\ told = [p \in DiskPlaces |-> "untouched"]
  BY DEF Init, SimInit
<1>2. SignalInv
  BY <1>1 DEF SignalInv, CommandPcs
<1>3. SessionInv
  BY <1>1 DEF SessionInv, Together, Known, Idle, CommandPcs
<1>4. LineSafe
  BY <1>1 DEF LineSafe, NoWriteFlux
<1>5. ProgressInv
  BY <1>1 DEF ProgressInv
<1>6. MediaInv
  BY <1>1 DEF MediaInv, TrackPcs
<1> QED
  BY <1>1, <1>2, <1>3, <1>4, <1>5, <1>6 DEF FirstRunInv

\* The same program goes on until another one is started.
LEMMA RunStays ==
    ASSUME [Next]_vars, ~NewRun
    PROVE  run' = run
<1>1. CASE Host
  BY <1>1 DEF Host, Send, Open, InitGw, SetDrive, ReadFlux, ReadStream, ReadStatus,
     RpmKnown, RpmUnknown, SetDensity, SpinUp, SideDensity, Seek, SelectHead, WriteFlux,
     Accept, WriteReturns, Sync, Retry, TrackWritten, TrackFailed, Leave, UnsetDrive,
     Cleanup, Returns
<1>2. CASE Signal
  BY <1>2 DEF Signal, RequestExit, ResetAndDie, Die
<1>3. CASE UNCHANGED <<hostVars, told>> \/ UNCHANGED vars
  BY <1>3 DEF hostVars, vars
<1> QED
  BY <1>1, <1>2, <1>3 DEF Next

\* What is known of the first run stays true until another program is started.
LEMMA FirstRunStep ==
    ASSUME DataInv, FlagInv, SignalInv, FirstRunInv, [Next]_vars
    PROVE  FirstRunInv'
<1>1. run \in Nat \ {0}
  BY DEF DataInv, FirstRunInv
<1>2. CASE NewRun
  BY <1>1, <1>2 DEF NewRun, FirstRunInv
<1>3. CASE run' = run /\ run # 1
  BY <1>1, <1>3 DEF FirstRunInv
<1>4. CASE run' = run /\ run = 1
  <2>1. SessionInv /\ LineSafe /\ ProgressInv /\ MediaInv
    BY <1>4 DEF FirstRunInv
  <2> SUFFICES SessionInv' /\ LineSafe' /\ ProgressInv' /\ MediaInv'
    BY <1>4 DEF FirstRunInv
  <2>2. CASE Host
    BY <2>1, <2>2, HostSession, HostLine, HostProgress, HostMedia
  <2>3. CASE Device /\ UNCHANGED <<hostVars, told>>
    <3>1. UNCHANGED <<told, t, s, pc, waiting>> /\ (Writing' => Writing)
      BY <2>3 DEF hostVars, trackVars, Writing
    <3>2. SessionInv' /\ LineSafe'
      BY <2>1, <2>3, DeviceSession, DeviceLine
    <3>3. media' = media
      <4>1. DeviceInv /\ sp.state \in {"CMD", "WRSTREAM"}
        BY SpFields DEF DataInv, DeviceInv, SimTypeOK
      <4> QED
        BY <2>3, <4>1, DiskStays, StreamEffect
    <3> QED
      BY <2>1, <3>1, <3>2, <3>3, ProgressStays DEF MediaInv
  <2>4. CASE Signal
    <3>1. SessionInv' /\ LineSafe'
      BY <2>1, <2>4, SignalSession, SignalLine
    <3>2. /\ UNCHANGED <<told, t, s, media, waiting>>
          /\ pc' = pc \/ pc' = "killed"
      BY <2>4 DEF Signal, RequestExit, ResetAndDie, Die, simVars, trackVars
    <3>3. Writing' => Writing
      BY <3>2 DEF Writing
    <3>4. ProgressInv' /\ MediaInv'
      BY <2>1, <3>2, <3>3, ProgressStays DEF MediaInv, TrackPcs
    <3> QED
      BY <3>1, <3>4
  <2>5. CASE UNCHANGED vars
    BY <2>1, <2>5, NothingHappens
  <2>6. CASE NewRun
    BY <1>1, <1>4, <2>6 DEF NewRun
  <2> QED
    BY <2>2, <2>3, <2>4, <2>5, <2>6 DEF Next
<1>5. CASE ~NewRun
  BY <1>3, <1>4, <1>5, RunStays
<1> QED
  BY <1>2, <1>5

\* Of every behaviour.
LEMMA InvariantHolds == Spec => []Invariant
<1>1. Init => Invariant
  BY InitTypes, InitFirstRun DEF Invariant
<1>2. Invariant /\ [Next]_vars => Invariant'
  BY DataStep, FlagStep, SignalStep, FirstRunStep DEF Invariant
<1> QED
  BY <1>1, <1>2, PTL DEF Spec

\* dmk2gw and the Greaseweazle agree on which answer belongs to which command,
\* through retries, refused commands, a missing diskette and a failed write, as
\* long as no handler() has broken a call of gw_do_command() off.
THEOREM StaysInStep == Spec => []InStep
<1>1. Invariant => InStep
  <2> SUFFICES ASSUME Invariant, pc \in DOMAIN Command, ~waiting, run = 1, ~broken
               PROVE  Idle
    BY DEF InStep, Idle
  <2>1. pc \in CommandPcs
    BY CommandDomain
  <2>2. Together
    BY <2>1 DEF Invariant, FirstRunInv, SessionInv, Behind, CommandPcs
  <2> QED
    BY <2>1, <2>2 DEF Together
<1> QED
  BY <1>1, InvariantHolds, PTL

\* get_rpm() keeps the first program from a write that would wait for ever
\* for the index of a diskette that is not there, whatever signals do.
THEOREM NeedsMedia == Spec => [](run = 1 => NoWriteWithoutMedia)
<1>1. Invariant => (run = 1 => NoWriteWithoutMedia)
  BY DEF Invariant, FirstRunInv, MediaInv, NoWriteWithoutMedia
<1> QED
  BY <1>1, InvariantHolds, PTL

-----------------------------------------------------------------------------
(* The first run does what TrackWriter allows.                             *)

Number(track, side) == track * Sides + side + 1

\* The order in which dmk2gw() visits the tracks, side by side.
LEMMA OrderOfTracks ==
    ASSUME NEW track \in 0 .. Tracks - 1, NEW side \in 0 .. Sides - 1
    PROVE  /\ Number(track, side) \in 1 .. Len(Order)
           /\ Order[Number(track, side)] = Place(track, side)
           /\ \A j \in 1 .. Number(track, side) - 1 :
                \E t1 \in 0 .. Tracks - 1, s1 \in 0 .. Sides - 1 :
                  /\ Order[j] = Place(t1, s1)
                  /\ t1 < track \/ (t1 = track /\ s1 < side)
<1>1. Sides \in {1, 2} /\ Tracks \in Nat
  BY DiskWriteAssumption
<1> DEFINE n == Number(track, side)
<1>2. /\ n \in 1 .. Tracks * Sides
      /\ (n - 1) \div Sides = track /\ (n - 1) % Sides = side
  <2>1. CASE Sides = 1
    BY <1>1, <2>1 DEF Number
  <2>2. CASE Sides = 2
    BY <1>1, <2>2 DEF Number
  <2> QED
    BY <1>1, <2>1, <2>2
<1>3. \A j \in 1 .. n - 1 :
        /\ j \in 1 .. Tracks * Sides
        /\ (j - 1) \div Sides \in 0 .. Tracks - 1 /\ (j - 1) % Sides \in 0 .. Sides - 1
        /\ \/ (j - 1) \div Sides < track
           \/ (j - 1) \div Sides = track /\ (j - 1) % Sides < side
  <2>1. CASE Sides = 1
    BY <1>1, <2>1 DEF Number
  <2>2. CASE Sides = 2
    BY <1>1, <2>2 DEF Number
  <2> QED
    BY <1>1, <2>1, <2>2
<1>4. /\ Tracks * Sides \in Nat
      /\ \A j \in 1 .. Tracks * Sides : Order[j] = Place((j - 1) \div Sides, (j - 1) % Sides)
      /\ Len(Order) = Tracks * Sides
  <2>1. Tracks * Sides \in Nat
    BY <1>1
  <2> QED
    BY <2>1 DEF Order
<1> HIDE DEF n
<1>5. n \in 1 .. Len(Order) /\ Order[n] = Place(track, side)
  BY <1>2, <1>4
<1>6. \A j \in 1 .. n - 1 :
        \E t1 \in 0 .. Tracks - 1, s1 \in 0 .. Sides - 1 :
          /\ Order[j] = Place(t1, s1)
          /\ t1 < track \/ (t1 = track /\ s1 < side)
  BY <1>3, <1>4
<1> QED
  BY <1>5, <1>6 DEF n

\* gw_write_stream() returns success only when the drive has recorded the
\* whole stream.
LEMMA WrittenIsOnDisk ==
    ASSUME DataInv, FlagInv, SignalInv, SessionInv, TrackWritten
    PROVE  OnDisk
<1>1. Returns("status") /\ pc = "status" /\ Okay /\ wbuf = <<>>
  BY DEF TrackWritten, Written, Returns
<1>2. ~(Result < 0)
  BY <1>1 DEF Okay, ACK
<1>3. Known /\ Answered /\ Result = toHost[2]
  BY <1>1, <1>2, Returned DEF CommandPcs, LoosePcs
<1>4. PICK c : c = Command[pc]
  OBVIOUS
<1>5. c[1] = 9
  BY <1>1, <1>4, CommandBytes
<1>6. gw.flux_status = 0
  BY <1>1, <1>3, <1>4, <1>5 DEF Answered, AnswerTo, Okay, ACK
<1> QED
  BY <1>1, <1>3, <1>6 DEF Known

\* The device changes the diskette only where a track was begun; the host
\* begins a track after those before it, and reports it as written when it is
\* on the diskette.
LEMMA WriterStep ==
    ASSUME Invariant, run = 1, [Next]_vars
    PROVE  [Writer!Next]_<<disk, told>>
<1>1. /\ DataInv /\ FlagInv /\ SignalInv /\ SessionInv /\ LineSafe /\ ProgressInv
      /\ DeviceInv
  BY DEF Invariant, FirstRunInv, DataInv
<1>2. /\ t \in Nat /\ s \in 0 .. Sides - 1 /\ (Tracks # 0 => t \in 0 .. Tracks - 1)
      /\ pc \in TrackPcs => Tracks # 0
  BY <1>1, DiskWriteAssumption DEF DataInv, LoopInv
<1>3. PICK p : p = Place(t, s)
  OBVIOUS
<1>4. ASSUME Tracks # 0
      PROVE  /\ Number(t, s) \in 1 .. Len(Order) /\ Order[Number(t, s)] = p
             /\ \A j \in 1 .. Number(t, s) - 1 : told[Order[j]] = "written"
  BY <1>1, <1>2, <1>3, <1>4, OrderOfTracks, SMTT(60) DEF ProgressInv
<1>5. PICK i : i = Number(t, s)
  OBVIOUS
<1>6. CASE Send /\ pc = "wflux"
  <2>1. told' = [told EXCEPT ![p] = "begun"] /\ disk' = disk /\ Tracks # 0
    BY <1>2, <1>3, <1>6 DEF Send, TrackPcs
  <2>2. i \in 1 .. Len(Order) /\ Writer!Begin(i)
    BY <1>4, <1>5, <2>1 DEF Writer!Begin
  <2> QED
    BY <2>2 DEF Writer!Next
<1>7. CASE TrackWritten
  <2>1. told' = [told EXCEPT ![p] = "written"] /\ disk' = disk /\ pc = "status" /\ Tracks # 0
    BY <1>2, <1>3, <1>7 DEF TrackWritten, Returns, TrackPcs
  <2>2. told[p] = "begun" /\ p \in DiskPlaces
    BY <1>1, <1>3, <2>1, StreamFacts DEF ProgressInv
  <2>3. disk[p] = Pulses(p)
    BY <1>1, <1>3, <1>7, WrittenIsOnDisk DEF OnDisk
  <2>4. i \in 1 .. Len(Order) /\ Writer!Finish(i)
    BY <1>4, <1>5, <2>1, <2>2, <2>3 DEF Writer!Finish
  <2> QED
    BY <2>4 DEF Writer!Next
<1>8. CASE Device /\ UNCHANGED <<hostVars, told>>
  <2>1. sp.state \in {"CMD", "WRSTREAM"} /\ Here \in DiskPlaces
    BY <1>1, SpFields, GwFields DEF DeviceInv, SimTypeOK, Here, DiskPlaces
  <2>2. CASE sp.state = "CMD"
    BY <1>1, <1>8, <2>2, DiskStays
  <2>3. CASE sp.state = "WRSTREAM"
    <3>1. told[Here] = "begun"
      BY <1>1, <2>3 DEF LineSafe, WriteBegun, OnLine, Collecting
    <3>2. Tracks # 0 /\ Here = p
      BY <1>1, <1>3, <2>1, <3>1 DEF ProgressInv
    <3>3. disk' \in {disk, [disk EXCEPT ![p] = disk'[p]]}
      BY <1>1, <1>8, <2>3, <3>2, StreamEffect
    <3>4. disk' = disk \/ (i \in 1 .. Len(Order) /\ Writer!Write(i))
      BY <1>4, <1>5, <1>8, <3>1, <3>2, <3>3 DEF Writer!Write
    <3> QED
      BY <1>8, <3>4 DEF Writer!Next
  <2> QED
    BY <2>1, <2>2, <2>3
<1>9. CASE Host /\ ~(Send /\ pc = "wflux") /\ ~TrackWritten
  BY <1>9 DEF Host, Send, Open, InitGw, SetDrive, ReadFlux, ReadStream, ReadStatus,
     RpmKnown, RpmUnknown, SetDensity, SpinUp, SideDensity, Seek, SelectHead, WriteFlux,
     Accept, WriteReturns, Sync, Retry, TrackFailed, Leave, UnsetDrive, Cleanup, Returns,
     simVars
<1>10. CASE Signal \/ NewRun \/ UNCHANGED vars
  BY <1>10 DEF Signal, RequestExit, ResetAndDie, Die, NewRun, vars, simVars
<1> QED
  BY <1>6, <1>7, <1>8, <1>9, <1>10 DEF Next

\* dmk2gw writes the tracks of the image one after the other, changes no place
\* but that of the track under way, and reports a track as written only when
\* the whole stream is on the diskette: as long as no second program is
\* started.
THEOREM WritesAsPromised ==
    ASSUME MaxRuns <= 1
    PROVE  Spec => WritesTracks
<1>1. Init => Writer!Init
  BY DEF Init, SimInit, Writer!Init
<1>2. Invariant /\ run = 1 /\ [Next]_vars => (run = 1)'
  <2> SUFFICES ASSUME Invariant, run = 1, [Next]_vars PROVE run' = 1
    OBVIOUS
  <2>1. ~NewRun
    BY DiskWriteAssumption DEF NewRun
  <2> QED
    BY <2>1, RunStays
<1>3. Init => run = 1
  BY DEF Init
<1>4. Invariant /\ run = 1 /\ [Next]_vars => [Writer!Next]_<<disk, told>>
  BY WriterStep
<1>5. Spec => [](run = 1)
  BY <1>2, <1>3, InvariantHolds, PTL DEF Spec
<1>6. Spec => Writer!Init /\ [][Writer!Next]_<<disk, told>>
  BY <1>1, <1>4, <1>5, InvariantHolds, PTL DEF Spec
<1> QED
  BY <1>6 DEF WritesTracks, Writer!Spec, Writer!twVars
==============================================================================
