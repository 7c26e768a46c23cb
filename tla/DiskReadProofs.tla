--------------------------- MODULE DiskReadProofs ---------------------------
(***************************************************************************)
(* Theorems about DiskRead, for every set of command lines, disks and logs *)
(* and every bound.                                                        *)
(***************************************************************************)
EXTENDS DiskRead, TLAPS

\* The step guess is taken back at most twice: from double to single stepping
\* while it stays a guess, then from single to double stepping for good.
StepsInv ==
    /\ restarts \in {0, 1, 2}
    /\ restarts = 1 => fdd.steps = 1 \/ ~guess.steps
    /\ restarts = 2 => ~guess.steps

\* A position sought belongs to the current track.
GeometryInv ==
    /\ OneGeometry
    /\ pc = "read" => headpos \div fdd.steps = h

InTrack == {"pass", "read", "examine", "judge", "menu", "resume", "again",
            "return"}
Examined == {"judge", "menu", "resume", "again", "return", "next"}
HasData  == Examined \cup {"examine"}

\* The side count is a guess only until side 1 of track 0 has been examined.
SidesInv ==
    /\ sides = fdd.sides
    /\ ~Abandoned => (dmk.sside <=> sides = 1)
    /\ ~Abandoned => \A x \in dmk.data : x.t <= h
    /\ ~Abandoned /\ sides = 1 => \A x \in dmk.data : x.s = 0 \/ x.t = 0
    /\ pc \in InTrack => s < sides
    /\ ~Abandoned /\ sides = 2 /\ guess.sides =>
         /\ h = 0
         /\ pc \in Examined => s = 0
         /\ s = 1 => retry = 0

Holds(t, side) == \E x \in dmk.data : x.t = t /\ x.s = side

\* Tracks and sides are read in order, none left out.
ScanInv ==
    /\ NoTrackSkipped
    /\ ~Abandoned /\ s = 1 => Holds(h, 0)
    /\ pc \in HasData => Holds(h, s)
    /\ pc = "pass" /\ retry > 0 => Holds(h, s)
    /\ pc = "read" /\ retry > 0 => Holds(h, s)

\* The menu is the only place that stops the motor of a run whose commands
\* all succeed, and every way back into the scan starts it again.
MotorInv ==
    /\ pc \in {"restart", "pass", "read", "examine", "judge", "again"} => motor
    /\ pc \in {"return", "next"} /\ ~exit_requested => motor

\* While the scan goes on, the header announces the tracks it is to read; an
\* end of the scan that nobody asked for leaves the header at what was read.
EndInv ==
    /\ pc \in InTrack \cup {"next"} => dmk.ntracks = tracks
    /\ pc \in {"left", "save", "unset", "done"} /\ ~exit_requested =>
         \A t \in 0 .. dmk.ntracks - 1 : Holds(t, 0)

-----------------------------------------------------------------------------
(* Types.                                                                  *)

\* Whatever merge_sectors() chooses, the statistics stay in range.
LEMMA MergeResultsType ==
    ASSUME NEW prev \in [good : 0 .. Sectors, err : {0, 1}],
           NEW new \in [good : 0 .. Sectors, err : {0, 1}],
           NEW r \in MergeResults(prev, new)
    PROVE  r \in [good : 0 .. Sectors, err : {0, 1}]
BY DEF MergeResults, Sectors

\* A pass without noise yields statistics in range, for every disk.
LEMMA CleanPassType ==
    ASSUME DataTypes, NEW pos \in Nat, NEW side \in {0, 1}
    PROVE  CleanPass(pos, side) \in
             [good : 0 .. Sectors, err : {0, 1}, cyl : Nat \cup {Blank},
              size : SectorSizes]
<1>1. disk \in DiskType
  BY DiskReadAssumption DEF DataTypes
<1>2. disk.last \in Nat /\ disk.pitch \in {1, 2} /\ disk.size[side] \in SectorSizes
  BY <1>1 DEF DiskType, GW_MAX_TRACKS
<1>3. Cylinder(pos) \in Nat
  BY <1>2 DEF Cylinder, Lesser
<1>4. QED
  BY <1>2, <1>3 DEF CleanPass, NoSectors, Sectors, SectorSizes, Blank

\* So does every pass, noisy or replayed.
LEMMA PassResultsType ==
    ASSUME DataTypes, NEW r \in PassResults
    PROVE  r \in [good : 0 .. Sectors, err : {0, 1}, cyl : Nat \cup {Blank},
                  size : SectorSizes]
<1>1. headpos \in Nat /\ s \in {0, 1}
  BY DEF DataTypes
<1>2. CASE r = CleanPass(headpos, s)
  BY <1>1, <1>2, CleanPassType
<1>3. CASE r \in NoisyPasses(headpos, s)
  <2>1. disk \in DiskType
    BY DiskReadAssumption DEF DataTypes
  <2>2. disk.last \in Nat /\ disk.pitch \in {1, 2}
    BY <2>1 DEF DiskType, GW_MAX_TRACKS
  <2>3. Cylinder(headpos) \in Nat
    BY <1>1, <2>2 DEF Cylinder, Lesser
  <2>4. QED
    BY <1>3, <2>3 DEF NoisyPasses, Sectors, SectorSizes, Blank
<1>4. CASE r = NoSectors(0)
  BY <1>4, SMTT(60) DEF NoSectors, Sectors, SectorSizes, Blank
<1>5. QED
  BY <1>2, <1>3, <1>4 DEF PassResults

\* Each step keeps the types of the variables that are not flags.
LEMMA DataStep == DataTypes /\ [Next]_vars => DataTypes'
<1> SUFFICES ASSUME DataTypes, [Next]_vars PROVE DataTypes'
  OBVIOUS
<1> USE DiskReadAssumption
    DEF DataTypes, Pcs, Running, Stopped, SectorSizes, Blank, GW_MAX_TRACKS,
        Sectors, DataType, vars, cmdVars, loopVars, passVars, sigVars
<1>1. CASE Restart
  BY <1>1 DEF Restart, FreshImage
<1>2. CASE EndOfReplay
  BY <1>2 DEF EndOfReplay, TracksComplete
<1>3. CASE NoMorePasses
  BY <1>3 DEF NoMorePasses
<1>4. CASE Seek
  BY <1>4 DEF Seek, HeadPos, alternate
<1>5. CASE SeekFails
  BY <1>5 DEF SeekFails, CleanupReset
<1>6. CASE ReadFlux
  <2>1. PICK r \in PassResults :
          /\ noise' = IF r = CleanPass(headpos, s) \/ noise = 0
                         THEN noise ELSE noise - 1
          /\ fdec' = [cyl |-> r.cyl, size |-> r.size]
          /\ dts' \in IF retry > 0 /\ opt.join
                         THEN MergeResults(dts, [good |-> r.good, err |-> r.err])
                         ELSE {[good |-> r.good, err |-> r.err]}
    BY <1>6, ZenonT(60) DEF ReadFlux
  <2>2. r \in [good : 0 .. Sectors, err : {0, 1}, cyl : Nat \cup {Blank},
               size : SectorSizes]
    BY <2>1, PassResultsType
  <2>3. fdec' \in [cyl : Nat \cup {Blank}, size : SectorSizes] /\ noise' \in Nat
    BY <2>1, <2>2
  <2>4. [good |-> r.good, err |-> r.err] \in [good : 0 .. Sectors, err : {0, 1}]
    BY <2>2
  <2>5. dts' \in [good : 0 .. Sectors, err : {0, 1}]
    BY <2>1, <2>4, MergeResultsType
  <2>6. [t |-> h, s |-> s, pos |-> headpos, good |-> dts'.good, err |-> dts'.err]
          \in DataType
    BY <2>5
  <2>7. Store(dmk.data, h, s, headpos, dts') \in SUBSET DataType
    BY <2>6 DEF Store
  <2>8. dmk' \in [ntracks : Nat, sside : BOOLEAN, data : SUBSET DataType]
    BY <2>7, <1>6 DEF ReadFlux
  <2>9. QED
    BY <2>3, <2>5, <2>8, <1>6 DEF ReadFlux
<1>7. CASE ReadFails
  BY <1>7 DEF ReadFails
<1>8. CASE OneSideOnly
  <2>1. fdd' = [fdd EXCEPT !.sides = 1] /\ dmk' = [dmk EXCEPT !.sside = TRUE]
    BY <1>8 DEF OneSideOnly
  <2>2. fdd' \in [sides : {1, 2}, steps : {1, 2}, tracks : 0 .. GW_MAX_TRACKS]
    BY <2>1
  <2>3. dmk' \in [ntracks : Nat, sside : BOOLEAN, data : SUBSET DataType]
    BY <2>1, ZenonT(60)
  <2>4. QED
    BY <2>2, <2>3, <1>8 DEF OneSideOnly
<1>9. CASE ChangeSteps
  <2>1. fdd' \in [sides : {1, 2}, steps : {1, 2}, tracks : 0 .. GW_MAX_TRACKS]
    <3>1. GW_MAX_TRACKS \div (3 - fdd.steps) \in 0 .. GW_MAX_TRACKS
      OBVIOUS
    <3>2. 3 - fdd.steps \in {1, 2}
      OBVIOUS
    <3>3. PICK n \in 0 .. GW_MAX_TRACKS :
            fdd' = [fdd EXCEPT !.steps = 3 - fdd.steps, !.tracks = n]
      <4>1. CASE guess.tracks
        BY <3>1, <4>1, <1>9, ZenonT(60) DEF ChangeSteps, StillGuessing
      <4>2. CASE ~guess.tracks
        BY <4>2, <1>9, ZenonT(60) DEF ChangeSteps, StillGuessing
      <4>3. QED
        BY <4>1, <4>2
    <3>4. PICK m \in {1, 2} : m = 3 - fdd.steps
      BY <3>2
    <3>5. fdd' = [fdd EXCEPT !.steps = m, !.tracks = n]
      BY <3>3, <3>4
    <3>6. fdd \in [sides : {1, 2}, steps : {1, 2}, tracks : 0 .. GW_MAX_TRACKS]
      OBVIOUS
    <3> HIDE DEF DataTypes
    <3>7. QED
      BY <3>5, <3>6, ZenonT(60)
  <2>2. t0s0ss' \in SectorSizes \cup {Blank}
    BY <1>9 DEF ChangeSteps, StillGuessing
  <2>3. QED
    BY <2>1, <2>2, <1>9 DEF ChangeSteps, StillGuessing
<1>10. CASE Examine
  BY <1>10 DEF Examine
<1>11. CASE Judge
  <2>1. pc' \in {"menu", "again"}
    BY <1>11, ZenonT(60) DEF Judge
  <2>2. QED
    BY <2>1, <1>11 DEF Judge
<1>12. CASE MenuQuit
  BY <1>12 DEF MenuQuit
<1>13. CASE MenuContinue
  <2>1. retries' = retries \/ retries' \in 0 .. MaxRetry
    <3>1. CASE UNCHANGED <<failing, retries>>
      BY <3>1
    <3>2. CASE UNCHANGED retries
      BY <3>2
    <3>3. CASE \E rnum \in 0 .. MaxRetry :
                 /\ retries' = rnum
                 /\ failing' = IF retry >= rnum THEN FALSE ELSE failing
      <4>1. PICK rnum \in 0 .. MaxRetry : retries' = rnum
        BY <3>3, ZenonT(60)
      <4>2. QED
        BY <4>1
    <3>4. QED
      BY <1>13, <3>1, <3>2, <3>3, ZenonT(60) DEF MenuContinue
  <2>2. retries' \in Nat
    BY <2>1
  <2>3. QED
    BY <2>2, <1>13 DEF MenuContinue
<1>14. CASE Resume
  BY <1>14 DEF Resume, SetMotor
<1>15. CASE Again
  BY <1>15 DEF Again
<1>16. CASE ReturnTrack
  BY <1>16 DEF ReturnTrack
<1>17. CASE NextTrack
  BY <1>17 DEF NextTrack, ScanOver, LastSide
<1>18. CASE LeaveLoop
  BY <1>18 DEF LeaveLoop
<1>19. CASE SaveImage
  BY <1>19 DEF SaveImage
<1>20. CASE SaveFails
  BY <1>20 DEF SaveFails, CleanupReset
<1>21. CASE StopDrive
  BY <1>21 DEF StopDrive, SetMotor
<1>22. CASE Signal
  BY <1>22 DEF Signal, RequestMenu, RequestExit, ResetAndDie, Die, Delivered
<1>23. CASE UNCHANGED vars
  BY <1>23
<1>24. QED
  BY <1>1, <1>2, <1>3, <1>4, <1>5, <1>6, <1>7, <1>8, <1>9, <1>10, <1>11, <1>12, <1>13, <1>14, <1>15, <1>16, <1>17, <1>18, <1>19, <1>20, <1>21, <1>22, <1>23 DEF Next, Reader

\* A reset leaves the motor on or off.
LEMMA ResetMotor ==
  ASSUME FlagTypes, NEW stuck, Reset(stuck)
  PROVE  motor' \in BOOLEAN
<1>1. CASE stuck
  BY Zenon, <1>1 DEF Reset, FlagTypes
<1>2. CASE ~stuck
  BY Zenon, <1>2 DEF Reset
<1>3. QED
  BY <1>1, <1>2

\* Each step keeps the flags Boolean.
LEMMA FlagStep == FlagTypes /\ [Next]_vars => FlagTypes'
<1> SUFFICES ASSUME FlagTypes, [Next]_vars PROVE FlagTypes'
  OBVIOUS
<1> USE Zenon DEF FlagTypes, vars, cmdVars, loopVars, passVars, sigVars
<1>1. CASE Restart
  BY <1>1, ZenonT(60) DEF Restart, FreshImage
<1>2. CASE EndOfReplay
  BY <1>2, ZenonT(60) DEF EndOfReplay, TracksComplete
<1>3. CASE NoMorePasses
  BY <1>3, ZenonT(60) DEF NoMorePasses
<1>4. CASE Seek
  BY <1>4, ZenonT(60) DEF Seek, HeadPos, alternate
<1>5. CASE SeekFails
  <2>1. motor' \in BOOLEAN
    BY <1>5, ResetMotor DEF SeekFails, CleanupReset
  <2>2. QED
    BY <2>1, <1>5, ZenonT(60) DEF SeekFails
<1>6. CASE ReadFlux
  BY <1>6 DEF ReadFlux, Consume, Store
<1>7. CASE ReadFails
  <2>1. unread' \in BOOLEAN
    BY <1>7, DiskReadAssumption DEF ReadFails
  <2>2. QED
    BY <2>1, <1>7, ZenonT(60) DEF ReadFails
<1>8. CASE OneSideOnly
  <2>1. guess' \in [sides : BOOLEAN, steps : BOOLEAN, tracks : BOOLEAN]
    BY <1>8 DEF OneSideOnly
  <2>2. QED
    BY <2>1, <1>8 DEF OneSideOnly
<1>9. CASE ChangeSteps
  BY <1>9 DEF ChangeSteps, StillGuessing, NeedDoubleStep, NeedSingleStep,
                     CompatChecked
<1>10. CASE Examine
  BY <1>10, ZenonT(60) DEF Examine
<1>11. CASE Judge
  <2>1. motor' \in BOOLEAN
    BY <1>11 DEF Judge, SetMotor
  <2>2. failing' \in BOOLEAN
    BY <1>11 DEF Judge, Failing
  <2>3. QED
    BY <2>1, <2>2, <1>11 DEF Judge
<1>12. CASE MenuQuit
  BY <1>12 DEF MenuQuit
<1>13. CASE MenuContinue
  BY <1>13, ZenonT(60) DEF MenuContinue
<1>14. CASE Resume
  BY <1>14 DEF Resume, SetMotor
<1>15. CASE Again
  BY <1>15, ZenonT(60) DEF Again
<1>16. CASE ReturnTrack
  BY <1>16, ZenonT(60) DEF ReturnTrack
<1>17. CASE NextTrack
  BY <1>17, ZenonT(60) DEF NextTrack, ScanOver, LastSide
<1>18. CASE LeaveLoop
  BY <1>18 DEF LeaveLoop
<1>19. CASE SaveImage
  BY <1>19, ZenonT(60) DEF SaveImage
<1>20. CASE SaveFails
  <2>1. motor' \in BOOLEAN
    BY <1>20, ResetMotor DEF SaveFails, CleanupReset
  <2>2. QED
    BY <2>1, <1>20, ZenonT(60) DEF SaveFails
<1>21. CASE StopDrive
  BY <1>21, ZenonT(60) DEF StopDrive, SetMotor
<1>22. CASE Signal
  <2> PICK sig \in Signals :
        RequestMenu(sig) \/ RequestExit(sig) \/ ResetAndDie(sig) \/ Die(sig)
    BY <1>22 DEF Signal
  <2>1. CASE RequestMenu(sig)
    BY <2>1 DEF RequestMenu, Delivered
  <2>2. CASE RequestExit(sig)
    BY <2>2 DEF RequestExit, Delivered
  <2>3. CASE ResetAndDie(sig)
    <3>1. motor' \in BOOLEAN
      BY <2>3, ResetMotor DEF ResetAndDie
    <3>2. QED
      BY <3>1, <2>3 DEF ResetAndDie, Delivered
  <2>4. CASE Die(sig)
    BY <2>4, ZenonT(60) DEF Die, Delivered
  <2>5. QED
    BY <2>1, <2>2, <2>3, <2>4
<1>23. CASE UNCHANGED vars
  BY <1>23, ZenonT(60)
<1>24. QED
  BY <1>1, <1>2, <1>3, <1>4, <1>5, <1>6, <1>7, <1>8, <1>9, <1>10, <1>11, <1>12, <1>13, <1>14, <1>15, <1>16, <1>17, <1>18, <1>19, <1>20, <1>21, <1>22, <1>23 DEF Next, Reader

\* Every initial state is well typed.
LEMMA InitType == Init => TypeOK
<1> SUFFICES ASSUME Init PROVE TypeOK
  OBVIOUS
<1> USE DiskReadAssumption
<1>1. opt \in OptionType
  BY DEF Init
<1>2. PICK n \in DetectedSides :
        fdd = [sides |-> n, steps |-> InitialSteps, tracks |-> InitialTracks]
  BY Zenon DEF Init
<1>3. n \in {1, 2}
  BY <1>1, <1>2 DEF DetectedSides, OptionType
<1>4. InitialSteps \in {1, 2}
  BY <1>1 DEF InitialSteps, OptionType
<1>5. InitialTracks \in 0 .. GW_MAX_TRACKS
  BY <1>1, <1>4 DEF InitialTracks, OptionType, GW_MAX_TRACKS
<1>6. fdd \in [sides : {1, 2}, steps : {1, 2}, tracks : 0 .. GW_MAX_TRACKS]
  BY <1>2, <1>3, <1>4, <1>5
<1>7. opt.retries \in Nat
  BY <1>1 DEF OptionType
<1>8. DataTypes
  BY <1>6, <1>7 DEF Init, DataTypes, Pcs, Running, SectorSizes, Blank, Sectors,
                    DataType
<1>9. FlagTypes
  BY Zenon DEF Init, FlagTypes
<1>10. QED
  BY <1>8, <1>9 DEF TypeOK

\* Every variable of the read loop keeps its type, on every disk and log and
\* with any command line.
THEOREM TypeCorrect == Spec => []TypeOK
<1>1. TypeOK /\ [Next]_vars => TypeOK'
  BY DataStep, FlagStep DEF TypeOK
<1>2. QED
  BY <1>1, InitType, PTL DEF Spec

-----------------------------------------------------------------------------
(* The step guess.                                                         *)

\* Each step keeps what is known of the step guess and the restarts.
LEMMA StepsStep == TypeOK /\ StepsInv /\ [Next]_vars => StepsInv'
<1> SUFFICES ASSUME DataTypes, FlagTypes, StepsInv, [Next]_vars PROVE StepsInv'
  BY DEF TypeOK
<1> USE DEF StepsInv, DataTypes, vars, cmdVars, loopVars, passVars, sigVars
<1>1. CASE Restart
  BY <1>1 DEF Restart, FreshImage
<1>2. CASE EndOfReplay
  BY <1>2 DEF EndOfReplay, TracksComplete
<1>3. CASE NoMorePasses
  BY <1>3 DEF NoMorePasses
<1>4. CASE Seek
  BY <1>4 DEF Seek
<1>5. CASE SeekFails
  BY <1>5 DEF SeekFails, CleanupReset
<1>6. CASE ReadFlux
  BY <1>6 DEF ReadFlux, Consume, Store
<1>7. CASE ReadFails
  BY <1>7 DEF ReadFails
<1>8. CASE OneSideOnly
  BY <1>8 DEF OneSideOnly, Incompatible, CompatChecked, NoSecondSide
<1>9. CASE ChangeSteps
  <2>1. guess.steps /\ fdd'.steps = 3 - fdd.steps /\ restarts' = restarts + 1
    BY <1>9 DEF ChangeSteps, NeedDoubleStep, NeedSingleStep
  <2>2. CASE fdd.steps = 1
    <3>1. NeedDoubleStep
      BY <2>2, <1>9 DEF ChangeSteps, NeedSingleStep
    <3>2. ~guess'.steps
      BY <3>1, <1>9, Zenon DEF ChangeSteps, StillGuessing, FlagTypes
    <3>3. QED
      BY <2>1, <3>2
  <2>3. CASE fdd.steps = 2
    <3>1. restarts = 0
      BY <2>1, <2>3
    <3>2. fdd'.steps = 1 /\ restarts' = 1
      BY <2>1, <2>3, <3>1
    <3>3. QED
      BY <3>2
  <2>4. QED
    BY <2>2, <2>3
<1>10. CASE Examine
  <2>1. fdd' = fdd /\ restarts' = restarts
    BY <1>10 DEF Examine
  <2>2. guess'.steps => guess.steps
    BY <1>10, Zenon DEF Examine, FlagTypes
  <2>3. QED
    BY <2>1, <2>2
<1>11. CASE Judge
  BY <1>11 DEF Judge, SetMotor
<1>12. CASE MenuQuit
  BY <1>12 DEF MenuQuit
<1>13. CASE MenuContinue
  BY <1>13 DEF MenuContinue
<1>14. CASE Resume
  BY <1>14 DEF Resume, SetMotor
<1>15. CASE Again
  BY <1>15 DEF Again
<1>16. CASE ReturnTrack
  BY <1>16 DEF ReturnTrack
<1>17. CASE NextTrack
  BY <1>17 DEF NextTrack, ScanOver, LastSide
<1>18. CASE LeaveLoop
  BY <1>18 DEF LeaveLoop
<1>19. CASE SaveImage
  BY <1>19 DEF SaveImage
<1>20. CASE SaveFails
  BY <1>20 DEF SaveFails, CleanupReset
<1>21. CASE StopDrive
  BY <1>21 DEF StopDrive, SetMotor
<1>22. CASE Signal
  BY <1>22 DEF Signal, RequestMenu, RequestExit, ResetAndDie, Die, Delivered
<1>23. CASE UNCHANGED vars
  BY <1>23
<1>24. QED
  BY <1>1, <1>2, <1>3, <1>4, <1>5, <1>6, <1>7, <1>8, <1>9, <1>10, <1>11, <1>12, <1>13, <1>14, <1>15, <1>16, <1>17, <1>18, <1>19, <1>20, <1>21, <1>22, <1>23 DEF Next, Reader

\* Whatever the disk, the noise and the user do, gw2dmk() starts over at most
\* twice.
THEOREM RestartsBounded == Spec => []RestartBound
<1>1. Init => StepsInv
  BY DEF Init, StepsInv
<1>2. StepsInv => RestartBound
  BY DEF StepsInv, RestartBound
<1>3. QED
  BY <1>1, <1>2, StepsStep, TypeCorrect, PTL DEF Spec

-----------------------------------------------------------------------------
(* The geometry of the image.                                              *)

\* read_track() seeks within the positions of its own track.
LEMMA HeadPosGeometry ==
    ASSUME DataTypes
    PROVE  HeadPos \div fdd.steps = h
<1>1. alternate \in {0, 1}
  BY DEF alternate
<1>2. CASE fdd.steps = 1
  BY <1>2 DEF HeadPos, DataTypes
<1>3. CASE fdd.steps = 2
  <2>1. HeadPos = 2 * h + alternate
    BY <1>1, <1>3 DEF HeadPos, DataTypes
  <2>2. QED
    BY <1>1, <1>3, <2>1 DEF DataTypes
<1>4. QED
  BY <1>2, <1>3 DEF DataTypes

\* Each step keeps the image to one step multiplier.
LEMMA GeometryStep == DataTypes /\ GeometryInv /\ [Next]_vars => GeometryInv'
<1> SUFFICES ASSUME DataTypes, GeometryInv, [Next]_vars PROVE GeometryInv'
  OBVIOUS
<1> USE DEF GeometryInv, OneGeometry, Abandoned, vars, cmdVars, loopVars, passVars, sigVars
<1>1. CASE Restart
  BY <1>1 DEF Restart, FreshImage
<1>2. CASE EndOfReplay
  BY <1>2 DEF EndOfReplay, TracksComplete
<1>3. CASE NoMorePasses
  BY <1>3 DEF NoMorePasses
<1>4. CASE Seek
  <2>1. headpos' \div fdd'.steps = h'
    BY <1>4, HeadPosGeometry DEF Seek
  <2>2. QED
    BY <2>1, <1>4 DEF Seek
<1>5. CASE SeekFails
  BY <1>5 DEF SeekFails, CleanupReset
<1>6. CASE ReadFlux
  BY <1>6 DEF ReadFlux, Consume, Store
<1>7. CASE ReadFails
  BY <1>7 DEF ReadFails
<1>8. CASE OneSideOnly
  BY <1>8 DEF OneSideOnly, Incompatible, CompatChecked, NoSecondSide
<1>9. CASE ChangeSteps
  BY <1>9 DEF ChangeSteps, StillGuessing, NeedDoubleStep, NeedSingleStep,
                     CompatChecked
<1>10. CASE Examine
  BY <1>10 DEF Examine
<1>11. CASE Judge
  BY <1>11 DEF Judge, SetMotor
<1>12. CASE MenuQuit
  BY <1>12 DEF MenuQuit
<1>13. CASE MenuContinue
  BY <1>13 DEF MenuContinue
<1>14. CASE Resume
  BY <1>14 DEF Resume, SetMotor
<1>15. CASE Again
  BY <1>15 DEF Again
<1>16. CASE ReturnTrack
  BY <1>16 DEF ReturnTrack
<1>17. CASE NextTrack
  BY <1>17 DEF NextTrack, ScanOver, LastSide
<1>18. CASE LeaveLoop
  BY <1>18 DEF LeaveLoop
<1>19. CASE SaveImage
  BY <1>19 DEF SaveImage
<1>20. CASE SaveFails
  BY <1>20 DEF SaveFails, CleanupReset
<1>21. CASE StopDrive
  BY <1>21 DEF StopDrive, SetMotor
<1>22. CASE Signal
  BY <1>22 DEF Signal, RequestMenu, RequestExit, ResetAndDie, Die, Delivered
<1>23. CASE UNCHANGED vars
  BY <1>23
<1>24. QED
  BY <1>1, <1>2, <1>3, <1>4, <1>5, <1>6, <1>7, <1>8, <1>9, <1>10, <1>11, <1>12, <1>13, <1>14, <1>15, <1>16, <1>17, <1>18, <1>19, <1>20, <1>21, <1>22, <1>23 DEF Next, Reader

\* The image never mixes tracks read with different step multipliers.
THEOREM ImageHasOneGeometry == Spec => []OneGeometry
<1>1. Init => GeometryInv
  BY DEF Init, GeometryInv, OneGeometry, Abandoned
<1>2. GeometryInv => OneGeometry
  BY DEF GeometryInv
<1>3. TypeOK => DataTypes
  BY DEF TypeOK
<1>4. QED
  BY <1>1, <1>2, <1>3, GeometryStep, TypeCorrect, PTL DEF Spec

-----------------------------------------------------------------------------
(* Sides.                                                                  *)

\* Each step keeps header, loop and stored tracks on one side count.
LEMMA SidesStep == TypeOK /\ SidesInv /\ [Next]_vars => SidesInv'
<1> SUFFICES ASSUME DataTypes, FlagTypes, SidesInv, [Next]_vars PROVE SidesInv'
  BY DEF TypeOK
<1> USE DEF SidesInv, DataTypes, Abandoned, InTrack, Examined, vars, cmdVars, loopVars, passVars, sigVars
<1>1. CASE Restart
  <2>1. dmk'.data = {} /\ (dmk'.sside <=> fdd.sides = 1)
    BY <1>1, Zenon DEF Restart, FreshImage
  <2>2. sides' = fdd.sides /\ fdd' = fdd /\ h' = 0 /\ s' = 0 /\ retry' = 0
        /\ pc' \in {"pass", "left"}
    BY <1>1 DEF Restart, FreshImage
  <2>3. QED
    BY <2>1, <2>2
<1>2. CASE EndOfReplay
  BY <1>2 DEF EndOfReplay, TracksComplete
<1>3. CASE NoMorePasses
  BY <1>3 DEF NoMorePasses
<1>4. CASE Seek
  BY <1>4 DEF Seek, HeadPos, alternate
<1>5. CASE SeekFails
  BY <1>5 DEF SeekFails, CleanupReset
<1>6. CASE ReadFlux
  BY <1>6 DEF ReadFlux, Consume, Store
<1>7. CASE ReadFails
  BY <1>7 DEF ReadFails
<1>8. CASE OneSideOnly
  <2>1. dmk'.data = dmk.data /\ dmk'.sside
    BY <1>8, Zenon DEF OneSideOnly
  <2>2. fdd'.sides = 1 /\ sides' = 1 /\ h' = h /\ pc' = "next" /\ pc = "examine"
    BY <1>8 DEF OneSideOnly
  <2>3. h = 0
    <3>1. CASE Incompatible
      BY <3>1 DEF Incompatible, CompatChecked
    <3>2. CASE NoSecondSide
      BY <2>2, <3>2 DEF NoSecondSide
    <3>3. QED
      BY <1>8, <3>1, <3>2 DEF OneSideOnly
  <2>4. \A x \in dmk.data : x.t = 0
    BY <2>2, <2>3 DEF DataType
  <2>5. QED
    BY <2>1, <2>2, <2>4
<1>9. CASE ChangeSteps
  BY <1>9 DEF ChangeSteps, StillGuessing, NeedDoubleStep, NeedSingleStep,
                     CompatChecked
<1>10. CASE Examine
  BY <1>10 DEF Examine
<1>11. CASE Judge
  BY <1>11 DEF Judge, SetMotor
<1>12. CASE MenuQuit
  BY <1>12 DEF MenuQuit
<1>13. CASE MenuContinue
  BY <1>13 DEF MenuContinue
<1>14. CASE Resume
  BY <1>14 DEF Resume, SetMotor
<1>15. CASE Again
  BY <1>15 DEF Again
<1>16. CASE ReturnTrack
  BY <1>16 DEF ReturnTrack
<1>17. CASE NextTrack
  <2>1. /\ dmk' = dmk /\ sides' = sides /\ fdd' = fdd /\ guess' = guess
        /\ retry' = 0 /\ pc = "next"
    BY <1>17 DEF NextTrack, ScanOver, LastSide
  <2>2. CASE pc' = "left" /\ h' = h /\ s' = s
    BY <2>1, <2>2
  <2>3. CASE pc' = "pass" /\ s + 1 < sides /\ h' = h /\ s' = s + 1
    BY <2>1, <2>3
  <2>4. CASE pc' = "pass" /\ ~(s + 1 < sides) /\ h' = h + 1 /\ s' = 0
    <3>1. ~(sides = 2 /\ guess.sides)
      BY <2>1, <2>4
    <3>2. \A x \in dmk.data : x.t <= h + 1
      BY <2>1 DEF DataType
    <3>3. QED
      BY <2>1, <2>4, <3>1, <3>2
  <2>5. QED
    BY <1>17, <2>2, <2>3, <2>4 DEF NextTrack, ScanOver, LastSide
<1>18. CASE LeaveLoop
  BY <1>18 DEF LeaveLoop
<1>19. CASE SaveImage
  BY <1>19 DEF SaveImage
<1>20. CASE SaveFails
  BY <1>20 DEF SaveFails, CleanupReset
<1>21. CASE StopDrive
  BY <1>21 DEF StopDrive, SetMotor
<1>22. CASE Signal
  BY <1>22 DEF Signal, RequestMenu, RequestExit, ResetAndDie, Die, Delivered
<1>23. CASE UNCHANGED vars
  BY <1>23
<1>24. QED
  BY <1>1, <1>2, <1>3, <1>4, <1>5, <1>6, <1>7, <1>8, <1>9, <1>10, <1>11, <1>12, <1>13, <1>14, <1>15, <1>16, <1>17, <1>18, <1>19, <1>20, <1>21, <1>22, <1>23 DEF Next, Reader

\* The header's single-sided option always agrees with the scan.
THEOREM HeaderSidesAgree == Spec => []SidesAgree
<1>1. Init => SidesInv
  BY DEF Init, SidesInv, Abandoned, InTrack
<1>2. TypeOK /\ SidesInv => SidesAgree
  BY DEF SidesInv, SidesAgree
<1>3. QED
  BY <1>1, <1>2, SidesStep, TypeCorrect, PTL DEF Spec

-----------------------------------------------------------------------------
(* The order of the scan.                                                  *)

\* Each step keeps the image complete up to the current track.
LEMMA ScanStep == TypeOK /\ SidesInv /\ ScanInv /\ [Next]_vars => ScanInv'
<1> SUFFICES ASSUME DataTypes, FlagTypes, SidesInv, ScanInv, [Next]_vars
             PROVE  ScanInv'
  BY DEF TypeOK
<1> USE DEF ScanInv, NoTrackSkipped, Holds, Abandoned, HasData, Examined, vars, cmdVars, loopVars, passVars, sigVars
<1>1. CASE Restart
  BY <1>1 DEF Restart, FreshImage
<1>2. CASE EndOfReplay
  BY <1>2 DEF EndOfReplay, TracksComplete
<1>3. CASE NoMorePasses
  BY <1>3 DEF NoMorePasses
<1>4. CASE Seek
  BY <1>4 DEF Seek, HeadPos, alternate
<1>5. CASE SeekFails
  BY <1>5 DEF SeekFails, CleanupReset
<1>6. CASE ReadFlux
  <2> DEFINE new == [t |-> h, s |-> s, pos |-> headpos,
                     good |-> dts'.good, err |-> dts'.err]
  <2>1. /\ dmk'.data = {x \in dmk.data : x.t # h \/ x.s # s} \cup {new}
        /\ h' = h /\ s' = s /\ sides' = sides /\ pc' = "examine" /\ pc = "read"
    BY <1>6 DEF ReadFlux, Store, DataTypes
  <2>2. new \in dmk'.data /\ new.t = h /\ new.s = s
    BY <2>1
  <2>3. Holds(h, s)'
    BY <2>1, <2>2
  <2>4. ASSUME NEW t, NEW side, Holds(t, side)
        PROVE  Holds(t, side)'
    <3>1. PICK x \in dmk.data : x.t = t /\ x.s = side
      BY <2>4
    <3>2. CASE x.t = h /\ x.s = s
      BY <2>3, <3>1, <3>2, <2>1
    <3>3. CASE x.t # h \/ x.s # s
      BY <2>1, <3>1, <3>3
    <3>4. QED
      BY <3>2, <3>3
  <2>5. QED
    BY <2>1, <2>3, <2>4
<1>7. CASE ReadFails
  BY <1>7 DEF ReadFails
<1>8. CASE OneSideOnly
  <2>1. dmk'.data = dmk.data
    BY <1>8, Zenon DEF OneSideOnly, DataTypes
  <2>2. sides' = 1 /\ h' = h /\ s' = s /\ pc' = "next" /\ pc = "examine"
    BY <1>8 DEF OneSideOnly
  <2>3. 0 .. sides' - 1 \subseteq 0 .. sides - 1
    BY <2>2 DEF DataTypes
  <2>4. QED
    BY <2>1, <2>2, <2>3
<1>9. CASE ChangeSteps
  BY <1>9 DEF ChangeSteps, StillGuessing, NeedDoubleStep, NeedSingleStep,
                     CompatChecked
<1>10. CASE Examine
  BY <1>10 DEF Examine
<1>11. CASE Judge
  BY <1>11 DEF Judge, SetMotor
<1>12. CASE MenuQuit
  BY <1>12 DEF MenuQuit
<1>13. CASE MenuContinue
  BY <1>13 DEF MenuContinue
<1>14. CASE Resume
  BY <1>14 DEF Resume, SetMotor
<1>15. CASE Again
  BY <1>15 DEF Again
<1>16. CASE ReturnTrack
  BY <1>16 DEF ReturnTrack
<1>17. CASE NextTrack
  <2>1. /\ dmk' = dmk /\ sides' = sides /\ retry' = 0
        /\ pc = "next" /\ Holds(h, s)
    BY <1>17 DEF NextTrack, ScanOver, LastSide
  <2>2. CASE pc' = "left" /\ h' = h /\ s' = s
    BY <2>1, <2>2
  <2>3. CASE pc' = "pass" /\ s + 1 < sides /\ h' = h /\ s' = s + 1
    BY <2>1, <2>3 DEF DataTypes
  <2>4. CASE pc' = "pass" /\ ~(s + 1 < sides) /\ h' = h + 1 /\ s' = 0
    <3>1. ASSUME NEW t \in 0 .. h, NEW side \in 0 .. sides - 1
          PROVE  Holds(t, side)
      <4>1. CASE t \in 0 .. h - 1
        BY <2>1, <4>1
      <4>2. CASE t = h /\ side = s
        BY <2>1, <4>2
      <4>3. CASE t = h /\ side = 0 /\ s = 1
        BY <2>1, <4>3
      <4>4. side = s \/ (side = 0 /\ s = 1)
        BY <2>4 DEF DataTypes
      <4>5. QED
        BY <4>1, <4>2, <4>3, <4>4 DEF DataTypes
    <3>2. QED
      BY <2>1, <2>4, <3>1 DEF DataTypes
  <2>5. QED
    BY <1>17, <2>2, <2>3, <2>4 DEF NextTrack, ScanOver, LastSide, DataTypes
<1>18. CASE LeaveLoop
  BY <1>18 DEF LeaveLoop
<1>19. CASE SaveImage
  BY <1>19 DEF SaveImage
<1>20. CASE SaveFails
  BY <1>20 DEF SaveFails, CleanupReset
<1>21. CASE StopDrive
  BY <1>21 DEF StopDrive, SetMotor
<1>22. CASE Signal
  BY <1>22 DEF Signal, RequestMenu, RequestExit, ResetAndDie, Die, Delivered
<1>23. CASE UNCHANGED vars
  BY <1>23
<1>24. QED
  BY <1>1, <1>2, <1>3, <1>4, <1>5, <1>6, <1>7, <1>8, <1>9, <1>10, <1>11, <1>12, <1>13, <1>14, <1>15, <1>16, <1>17, <1>18, <1>19, <1>20, <1>21, <1>22, <1>23 DEF Next, Reader

\* No way through the loop leaves out a side of a track.
THEOREM ScanComplete == Spec => []NoTrackSkipped
<1>1. Init => SidesInv /\ ScanInv
  BY DEF Init, SidesInv, ScanInv, NoTrackSkipped, Abandoned, InTrack, HasData,
         Examined
<1>2. ScanInv => NoTrackSkipped
  BY DEF ScanInv
<1>3. QED
  BY <1>1, <1>2, SidesStep, ScanStep, TypeCorrect, PTL DEF Spec

-----------------------------------------------------------------------------
(* Ending.                                                                 *)

\* Once exit is requested no track or side is begun but the first one of a
\* restart already decided.
THEOREM ExitEndsScan == Spec => ExitStopsScan
<1>1. ASSUME TypeOK, Next, exit_requested, StartsTrack
      PROVE  pc = "restart"
  <2> USE <1>1 DEF StartsTrack
  <2>1. CASE Reader
    <3>1. ~Again
      BY DEF Again, TypeOK, DataTypes
    <3>2. ~NextTrack
      BY DEF NextTrack, ScanOver
    <3>3. QED
      BY <2>1, <3>1, <3>2
      DEF Reader, Restart, EndOfReplay, NoMorePasses, Seek, SeekFails,
          ReadFlux, ReadFails, OneSideOnly, ChangeSteps, Examine, Judge,
          MenuQuit, MenuContinue, Resume, ReturnTrack, LeaveLoop, SaveImage,
          SaveFails, StopDrive
  <2>2. CASE Signal
    BY <2>2 DEF Signal, RequestMenu, RequestExit, ResetAndDie, Die
  <2>3. QED
    BY <2>1, <2>2 DEF Next
<1>2. TypeOK /\ [Next]_vars => [exit_requested /\ StartsTrack => pc = "restart"]_vars
  BY <1>1
<1>3. QED
  BY <1>2, TypeCorrect, PTL DEF Spec, ExitStopsScan

-----------------------------------------------------------------------------
(* The motor and the end of the image, when every command succeeds.        *)

\* Each step keeps the motor on wherever the loop counts on it.
LEMMA MotorStep ==
    ~Faults /\ TypeOK /\ MotorInv /\ [Next]_vars => MotorInv'
<1> SUFFICES ASSUME ~Faults, TypeOK, MotorInv, [Next]_vars PROVE MotorInv'
  OBVIOUS
<1> USE Zenon DEF MotorInv, SetMotor, vars, cmdVars, loopVars, passVars, sigVars
<1>1. CASE Restart
  BY <1>1 DEF Restart
<1>2. CASE EndOfReplay
  BY <1>2 DEF EndOfReplay
<1>3. CASE NoMorePasses
  BY <1>3 DEF NoMorePasses
<1>4. CASE Seek
  BY <1>4 DEF Seek
<1>5. CASE SeekFails
  BY <1>5 DEF SeekFails
<1>6. CASE ReadFlux
  BY <1>6 DEF ReadFlux
<1>7. CASE ReadFails
  BY <1>7 DEF ReadFails
<1>8. CASE OneSideOnly
  BY <1>8 DEF OneSideOnly
<1>9. CASE ChangeSteps
  BY <1>9 DEF ChangeSteps
<1>10. CASE Examine
  BY <1>10 DEF Examine
<1>11. CASE Judge
  BY <1>11 DEF Judge
<1>12. CASE MenuQuit
  BY <1>12 DEF MenuQuit
<1>13. CASE MenuContinue
  BY <1>13 DEF MenuContinue
<1>14. CASE Resume
  BY <1>14 DEF Resume
<1>15. CASE Again
  BY <1>15 DEF Again
<1>16. CASE ReturnTrack
  BY <1>16 DEF ReturnTrack
<1>17. CASE NextTrack
  BY <1>17, SMT DEF NextTrack, ScanOver
<1>18. CASE LeaveLoop
  BY <1>18 DEF LeaveLoop
<1>19. CASE SaveImage
  BY <1>19 DEF SaveImage
<1>20. CASE SaveFails
  BY <1>20 DEF SaveFails
<1>21. CASE StopDrive
  BY <1>21 DEF StopDrive
<1>22. CASE Signal
  <2> PICK sig \in Signals :
        RequestMenu(sig) \/ RequestExit(sig) \/ ResetAndDie(sig) \/ Die(sig)
    BY <1>22 DEF Signal
  <2>1. CASE RequestMenu(sig)
    BY <2>1 DEF RequestMenu
  <2>2. CASE RequestExit(sig)
    <3>1. pc' = pc /\ motor' = motor /\ exit_requested'
      BY <2>2 DEF RequestExit
    <3>2. QED
      BY <3>1
  <2>3. CASE ResetAndDie(sig)
    BY <2>3 DEF ResetAndDie
  <2>4. CASE Die(sig)
    BY <2>4 DEF Die
  <2>5. QED
    BY <2>1, <2>2, <2>3, <2>4
<1>23. CASE UNCHANGED vars
  BY <1>23
<1>24. QED
  BY <1>1, <1>2, <1>3, <1>4, <1>5, <1>6, <1>7, <1>8, <1>9, <1>10, <1>11, <1>12, <1>13, <1>14, <1>15, <1>16, <1>17, <1>18, <1>19, <1>20, <1>21, <1>22, <1>23 DEF Next, Reader

\* Each step keeps the header at the tracks to read, or at the tracks read.
LEMMA EndStep ==
    ~Faults /\ TypeOK /\ SidesInv /\ ScanInv /\ MotorInv /\ EndInv /\ [Next]_vars
      => EndInv'
<1> SUFFICES ASSUME ~Faults, DataTypes, SidesInv, ScanInv, MotorInv, EndInv,
                    [Next]_vars
             PROVE  EndInv'
  BY DEF TypeOK
<1> USE DEF EndInv, Holds, InTrack, vars, cmdVars, loopVars, passVars, sigVars
<1>0. pc \in InTrack \cup {"next"} => \A t \in 0 .. h - 1 : Holds(t, 0)
  BY DEF ScanInv, NoTrackSkipped, Abandoned, DataTypes
<1>1. CASE Restart
  BY <1>1 DEF Restart, FreshImage, DataTypes
<1>2. CASE EndOfReplay
  <2>1. dmk'.ntracks = TracksComplete /\ dmk'.data = dmk.data /\ pc' = "left"
    BY <1>2 DEF EndOfReplay, DataTypes
  <2>2. \A t \in 0 .. TracksComplete - 1 : Holds(t, 0)
    BY <1>2, <1>0 DEF EndOfReplay, TracksComplete, ScanInv, Abandoned, DataTypes
  <2>3. QED
    BY <2>1, <2>2
<1>3. CASE NoMorePasses
  BY <1>3 DEF NoMorePasses
<1>4. CASE Seek
  BY <1>4 DEF Seek
<1>5. CASE SeekFails
  BY <1>5 DEF SeekFails
<1>6. CASE ReadFlux
  <2>1. dmk'.ntracks = dmk.ntracks /\ tracks' = tracks /\ pc' = "examine"
        /\ pc = "read"
    BY <1>6 DEF ReadFlux, DataTypes
  <2>2. QED
    BY <2>1
<1>7. CASE ReadFails
  BY <1>7 DEF ReadFails, MotorInv
<1>8. CASE OneSideOnly
  <2>1. dmk'.ntracks = dmk.ntracks /\ tracks' = tracks /\ pc' = "next"
        /\ pc = "examine"
    BY <1>8, Zenon DEF OneSideOnly, DataTypes
  <2>2. QED
    BY <2>1
<1>9. CASE ChangeSteps
  BY <1>9 DEF ChangeSteps
<1>10. CASE Examine
  <2>1. CASE PastLastTrack
    <3>1. dmk'.ntracks = h /\ dmk'.data = dmk.data /\ pc' = "left" /\ pc = "examine"
      BY <1>10, <2>1 DEF Examine, DataTypes
    <3>2. QED
      BY <3>1, <1>0
  <2>2. CASE ~PastLastTrack
    BY <1>10, <2>2 DEF Examine
  <2>3. QED
    BY <2>1, <2>2
<1>11. CASE Judge
  BY <1>11 DEF Judge
<1>12. CASE MenuQuit
  BY <1>12 DEF MenuQuit
<1>13. CASE MenuContinue
  BY <1>13 DEF MenuContinue
<1>14. CASE Resume
  BY <1>14 DEF Resume
<1>15. CASE Again
  BY <1>15 DEF Again
<1>16. CASE ReturnTrack
  BY <1>16 DEF ReturnTrack
<1>17. CASE NextTrack
  <2>1. dmk' = dmk /\ tracks' = tracks /\ exit_requested' = exit_requested
        /\ pc = "next"
    BY <1>17 DEF NextTrack
  <2>2. CASE ~ScanOver
    BY <1>17, <2>1, <2>2 DEF NextTrack
  <2>3. CASE ScanOver /\ exit_requested
    BY <1>17, <2>1, <2>3 DEF NextTrack
  <2>4. CASE ScanOver /\ ~exit_requested
    <3>1. pc' = "left" /\ h + 1 >= tracks
      BY <1>17, <2>4 DEF NextTrack, ScanOver
    <3>2. Holds(h, 0)
      BY <2>1 DEF ScanInv, Abandoned, HasData, Examined, DataTypes
    <3>3. \A t \in 0 .. h : Holds(t, 0)
      BY <2>1, <3>2, <1>0 DEF DataTypes
    <3>4. dmk.ntracks - 1 \in Int /\ dmk.ntracks - 1 <= h
      BY <2>1, <3>1 DEF DataTypes
    <3>5. QED
      BY <2>1, <3>1, <3>3, <3>4 DEF DataTypes
  <2>5. QED
    BY <2>2, <2>3, <2>4
<1>18. CASE LeaveLoop
  BY <1>18 DEF LeaveLoop
<1>19. CASE SaveImage
  BY <1>19 DEF SaveImage
<1>20. CASE SaveFails
  BY <1>20 DEF SaveFails
<1>21. CASE StopDrive
  BY <1>21 DEF StopDrive
<1>22. CASE Signal
  BY <1>22 DEF Signal, RequestMenu, RequestExit, ResetAndDie, Die, Delivered, Stopped
<1>23. CASE UNCHANGED vars
  BY <1>23
<1>24. QED
  BY <1>1, <1>2, <1>3, <1>4, <1>5, <1>6, <1>7, <1>8, <1>9, <1>10, <1>11, <1>12, <1>13, <1>14, <1>15, <1>16, <1>17, <1>18, <1>19, <1>20, <1>21, <1>22, <1>23 DEF Next, Reader

\* The invariant of a run whose commands all succeed holds throughout.
LEMMA EndInvariant ==
    ASSUME ~Faults
    PROVE  Spec => [](TypeOK /\ SidesInv /\ ScanInv /\ MotorInv /\ EndInv)
<1>1. Init => SidesInv /\ ScanInv
  BY DEF Init, SidesInv, ScanInv, NoTrackSkipped, Abandoned, InTrack, HasData,
         Examined
<1>2. Init => MotorInv /\ EndInv
  BY DEF Init, MotorInv, EndInv, InTrack
<1>3. TypeOK /\ MotorInv /\ [Next]_vars => MotorInv'
  BY MotorStep
<1>4. TypeOK /\ SidesInv /\ ScanInv /\ MotorInv /\ EndInv /\ [Next]_vars => EndInv'
  BY EndStep
<1>5. QED
  BY <1>1, <1>2, <1>3, <1>4, SidesStep, ScanStep, TypeCorrect, PTL DEF Spec

\* However the menu, the signals and the retries follow each other, the motor
\* turns whenever a capture starts.
THEOREM ReadsOnTurningDisk ==
    ASSUME ~Faults
    PROVE  Spec => []MotorRunsForReads
<1>1. MotorInv => MotorRunsForReads
  BY DEF MotorInv, MotorRunsForReads
<1>2. QED
  BY <1>1, EndInvariant, PTL

\* Every track the header of a saved image announces was read, on every disk,
\* with any noise and any replay log, unless the user or a signal cut the run
\* short.
THEOREM AnnouncedTracksRead ==
    ASSUME ~Faults
    PROVE  Spec => []ImageEndsWithData
<1>1. EndInv => ImageEndsWithData
  BY DEF EndInv, ImageEndsWithData, Holds
<1>2. QED
  BY <1>1, EndInvariant, PTL

-----------------------------------------------------------------------------
(* The geometry is found out.                                              *)

\* Nothing about the geometry is given on the command line, and the disk is
\* read, not replayed.
AllGuessed ==
    /\ opt.usr_sides = -1 /\ opt.usr_steps = -1 /\ opt.usr_tracks = -1
    /\ opt.alternate = 0
    /\ ~opt.replay

\* A readable disk that ends where read_track() looks for the end (after
\* track 35, or 40 and more), all of it within reach of the heads and of the
\* track numbers of its step multiplier.
UsualDisk ==
    /\ disk.bad = {}
    /\ disk.cyls = 35 \/ disk.cyls >= 40
    /\ disk.pitch = 2 => disk.cyls <= 44
    /\ disk.pitch * (disk.cyls - 1) <= disk.last

Looking  == {"pass", "read", "examine"}
Scanning == InTrack \cup {"next"}
Saving   == {"left", "save", "unset", "done"}

\* The sectors of this side of this track are all in the image.
Whole(t, side) == \E x \in dmk.data : x.t = t /\ x.s = side /\ x.good = Sectors

\* What restarts must leave as it is.
CalmInv ==
    /\ noise = 0
    /\ guess.tracks
    /\ fdd.tracks = GW_MAX_TRACKS \div fdd.steps
    /\ pc = "restart" /\ fdd.steps # disk.pitch => guess.steps

\* A wrong multiplier is noticed on track 1, and the guess is closed before
\* the end of the disk could be taken for a wrong multiplier.
StepGuessInv ==
    pc \in Scanning =>
        /\ tracks = fdd.tracks
        /\ guess.steps => h < 3 \/ (h = 3 /\ pc \in Looking)
        /\ fdd.steps # disk.pitch =>
             guess.steps /\ (h = 0 \/ (h = 1 /\ s = 0 /\ pc \in Looking))

\* A second side that is not there, or not compatible, is noticed on track 0.
SideGuessInv ==
    /\ ExpectedHeads = 2 => sides = 2
    /\ disk.heads = 1 /\ sides = 2 => guess.sides
    /\ pc \in Scanning /\ sides = 2 /\ ExpectedHeads = 1 =>
         h = 0 /\ (pc \in Examined => s = 0)
    /\ pc \in Scanning /\ sides = 2 /\ opt.compat /\ h = 0
         /\ (s = 1 \/ pc \in Examined) => t0s0ss = disk.size[0]

\* The scan stays on the disk, but for one look at the track after the last,
\* and prev_cyl is the cylinder before the one looked at.
PlaceInv ==
    pc \in Scanning =>
        /\ h <= disk.cyls
        /\ s = 1 \/ pc \in Examined => h < disk.cyls
        /\ s = 0 /\ h > 0 /\ pc # "next" => prev_cyl = h - 1
        /\ s = 1 \/ pc = "next" => prev_cyl = h

\* What is examined, and kept, is what the disk holds there.
PassInv ==
    /\ pc \in HasData \cup {"read"} => headpos = h * fdd.steps
    /\ pc \in HasData =>
         /\ dts.good = CleanPass(h * fdd.steps, s).good
         /\ fdec.cyl = CleanPass(h * fdd.steps, s).cyl
         /\ fdec.size = CleanPass(h * fdd.steps, s).size
         /\ \E x \in dmk.data : x.t = h /\ x.s = s /\ x.good = dts.good

\* The tracks behind are whole, and at the end all are.
WholeInv ==
    /\ pc \in Scanning =>
         /\ \A t \in 0 .. h - 1, side \in 0 .. ExpectedHeads - 1 : Whole(t, side)
         /\ s = 1 => Whole(h, 0)
    /\ pc \in Saving /\ ~exit_requested =>
         /\ h > 0 /\ fdd.steps = disk.pitch /\ dmk.ntracks = disk.cyls
         /\ ExpectedHeads = 1 => sides = 1
         /\ \A t \in 0 .. disk.cyls - 1, side \in 0 .. ExpectedHeads - 1 :
              Whole(t, side)

RecoverInv ==
    CalmInv /\ StepGuessInv /\ SideGuessInv /\ PlaceInv /\ PassInv /\ WholeInv

\* With the right multiplier, and on track 0 with either, a pass over a track
\* of the disk reads it.
LEMMA OnTrack ==
    ASSUME DataTypes, UsualDisk, disk \in DiskType,
           fdd.steps = disk.pitch \/ h = 0, h < disk.cyls
    PROVE  /\ s < disk.heads =>
                /\ CleanPass(h * fdd.steps, s).good = Sectors
                /\ CleanPass(h * fdd.steps, s).cyl = h
                /\ CleanPass(h * fdd.steps, s).size = disk.size[s]
           /\ ~(s < disk.heads) => CleanPass(h * fdd.steps, s).good = 0
<1> USE DEF DataTypes, DiskType, UsualDisk
<1> DEFINE pos == h * fdd.steps
<1>1. pos = h * disk.pitch
  BY DEF DataTypes
<1>2. pos \in Nat /\ pos <= disk.last
  <2>1. CASE disk.pitch = 1
    BY <1>1, <2>1
  <2>2. CASE disk.pitch = 2
    BY <1>1, <2>2
  <2>3. QED
    BY <2>1, <2>2
<1>3. Lesser(pos, disk.last) = pos
  BY <1>2 DEF Lesser
<1>4. pos % disk.pitch = 0 /\ pos \div disk.pitch = h
  <2>1. CASE disk.pitch = 1
    BY <1>1, <2>1
  <2>2. CASE disk.pitch = 2
    BY <1>1, <2>2
  <2>3. QED
    BY <2>1, <2>2
<1>5. Formatted(pos, s) <=> s < disk.heads
  BY <1>3, <1>4 DEF Formatted
<1>6. Cylinder(pos) = h
  BY <1>3, <1>4 DEF Cylinder
<1>7. CASE s < disk.heads
  <2>1. CleanPass(pos, s) =
          [good |-> Sectors, err |-> 0, cyl |-> h, size |-> disk.size[s]]
    BY <1>5, <1>6, <1>7 DEF CleanPass
  <2>2. QED
    BY <1>7, <2>1
<1>8. CASE ~(s < disk.heads)
  BY <1>5, <1>8 DEF CleanPass, NoSectors
<1>9. QED
  BY <1>7, <1>8

\* With the wrong multiplier track 1 is blank, or has the number 2.
LEMMA WrongTrack ==
    ASSUME DataTypes, UsualDisk, disk \in DiskType,
           fdd.steps # disk.pitch, h = 1, s = 0
    PROVE  /\ fdd.steps = 1 => CleanPass(h * fdd.steps, s).good = 0
           /\ fdd.steps = 2 => /\ CleanPass(h * fdd.steps, s).good = Sectors
                               /\ CleanPass(h * fdd.steps, s).cyl = 2
<1> USE DEF DataTypes, DiskType, UsualDisk
<1>1. CASE fdd.steps = 1
  <2>1. disk.pitch = 2 /\ h * fdd.steps = 1 /\ Lesser(1, disk.last) = 1
    BY <1>1 DEF Lesser
  <2>2. ~Formatted(1, 0)
    BY <2>1 DEF Formatted
  <2>3. QED
    BY <1>1, <2>1, <2>2 DEF CleanPass, NoSectors
<1>2. CASE fdd.steps = 2
  <2>1. disk.pitch = 1 /\ h * fdd.steps = 2 /\ Lesser(2, disk.last) = 2
    BY <1>2 DEF Lesser
  <2>2. Formatted(2, 0) /\ Cylinder(2) = 2
    BY <2>1 DEF Formatted, Cylinder
  <2>3. QED
    BY <1>2, <2>1, <2>2 DEF CleanPass
<1>3. QED
  BY <1>1, <1>2

\* The track after the last is blank, or the heads have stopped at the last.
LEMMA PastTheEnd ==
    ASSUME DataTypes, UsualDisk, disk \in DiskType,
           fdd.steps = disk.pitch, h = disk.cyls
    PROVE  \/ CleanPass(h * fdd.steps, s).good = 0
           \/ CleanPass(h * fdd.steps, s).cyl = h - 1
<1> USE DEF DataTypes, DiskType, UsualDisk
<1> DEFINE pos == h * fdd.steps
<1>1. SUFFICES ASSUME Formatted(pos, s) PROVE CleanPass(pos, s).cyl = h - 1
  BY DEF CleanPass, NoSectors
<1>2. CleanPass(pos, s).cyl = Cylinder(pos)
  BY <1>1 DEF CleanPass
<1>3. Cylinder(pos) = h - 1
  <2>1. CASE disk.pitch = 1
    BY <1>1, <2>1 DEF Formatted, Cylinder, Lesser
  <2>2. CASE disk.pitch = 2
    BY <1>1, <2>2 DEF Formatted, Cylinder, Lesser
  <2>3. QED
    BY <2>1, <2>2
<1>4. QED
  BY <1>2, <1>3

Accepted == {"judge", "menu", "resume", "again", "return"}

\* A step that only moves on within the retry loop, towards another pass or
\* through the saving of the image keeps what has been found out.
LEMMA QuietStep ==
    ASSUME FlagTypes, RecoverInv,
           UNCHANGED <<opt, disk, fdd, guess, loopVars, headpos, dts, fdec, noise>>,
           exit_requested => exit_requested',
           \/ pc' = pc
           \/ pc' \in {"fatal", "killed"}
           \/ pc \in Accepted /\ pc' \in Accepted
           \/ pc = "again" /\ pc' = "pass"
           \/ pc \in Saving /\ pc' \in Saving
    PROVE  RecoverInv'
<1> USE DEF loopVars
<1>1. ExpectedHeads' = ExpectedHeads
  BY Zenon DEF ExpectedHeads
<1>2. ASSUME NEW pos, NEW side
      PROVE  CleanPass(pos, side)' = CleanPass(pos, side)
  BY Zenon DEF CleanPass, Formatted, Cylinder, Lesser, NoSectors
<1>3. \A t, side : Whole(t, side) <=> Whole(t, side)'
  BY Zenon DEF Whole
<1>4. /\ pc' \in Scanning => pc \in Scanning
      /\ pc' \in Looking => pc \in Looking \/ pc = "again"
      /\ pc' \in Examined => pc \in Examined
      /\ pc' \in HasData => pc \in HasData
      /\ pc' \in HasData \cup {"read"} => pc \in HasData \cup {"read"}
      /\ pc' \in Saving => pc \in Saving
      /\ pc' = "restart" => pc = "restart"
      /\ pc' \in Scanning => (pc' = "next" <=> pc = "next")
      /\ pc' \in Scanning /\ pc \in Looking => pc' \in Looking
      /\ pc = "again" => pc \notin Looking
  BY DEF Scanning, Looking, Examined, HasData, Saving, Accepted, InTrack
<1>5. CalmInv'
  BY <1>4, Zenon DEF RecoverInv, CalmInv
<1>6. StepGuessInv'
  BY <1>4, Zenon DEF RecoverInv, StepGuessInv
<1>7. SideGuessInv'
  BY <1>1, <1>4, Zenon DEF RecoverInv, SideGuessInv
<1>8. PlaceInv'
  BY <1>4, Zenon DEF RecoverInv, PlaceInv
<1>9. PassInv'
  <2>1. h' * fdd'.steps = h * fdd.steps /\ s' = s
    OBVIOUS
  <2>2. CleanPass(h * fdd.steps, s)' = CleanPass(h * fdd.steps, s)
    BY <1>2, <2>1, Zenon
  <2>3. pc' \in HasData =>
          \E x \in dmk'.data : x.t = h' /\ x.s = s' /\ x.good = dts'.good
    BY <1>4, Zenon DEF RecoverInv, PassInv
  <2>4. QED
    BY <1>4, <2>1, <2>2, <2>3, Zenon DEF RecoverInv, PassInv
<1>10. WholeInv'
  BY <1>1, <1>3, <1>4, Zenon DEF RecoverInv, WholeInv
<1>11. QED
  BY <1>5, <1>6, <1>7, <1>8, <1>9, <1>10 DEF RecoverInv

\* Starting over keeps what has been found out.
LEMMA RestartStep ==
    ASSUME DataTypes, SidesInv, RecoverInv, Restart
    PROVE  RecoverInv'
<1>1. /\ pc = "restart" /\ pc' = "pass" /\ h' = 0 /\ s' = 0
      /\ sides' = sides /\ tracks' = fdd.tracks
      /\ fdd' = fdd /\ guess' = guess /\ opt' = opt /\ disk' = disk
      /\ noise' = noise
  BY DEF Restart, RecoverInv, CalmInv, SidesInv, DataTypes, cmdVars,
         GW_MAX_TRACKS
<1>2. ExpectedHeads' = ExpectedHeads
  BY <1>1, Zenon DEF ExpectedHeads
<1>3. CalmInv'
  BY <1>1 DEF RecoverInv, CalmInv
<1>4. StepGuessInv'
  BY <1>1 DEF RecoverInv, StepGuessInv, CalmInv
<1>5. SideGuessInv'
  BY <1>1, <1>2 DEF RecoverInv, SideGuessInv, Scanning, Examined
<1>6. PlaceInv'
  <2>1. disk.cyls \in Nat
    BY DiskReadAssumption DEF DataTypes, DiskType
  <2>2. QED
    BY <1>1, <2>1 DEF PlaceInv, Examined
<1>7. PassInv'
  BY <1>1 DEF PassInv, HasData, Examined
<1>8. WholeInv'
  BY <1>1 DEF WholeInv, Saving
<1>9. QED
  BY <1>3, <1>4, <1>5, <1>6, <1>7, <1>8 DEF RecoverInv

\* Seeking goes to the position of the track.
LEMMA SeekStep ==
    ASSUME DataTypes, AllGuessed, RecoverInv, Seek
    PROVE  RecoverInv'
<1> USE DEF cmdVars, loopVars, sigVars
<1>1. /\ pc = "pass" /\ pc' = "read" /\ h' = h /\ s' = s /\ sides' = sides
      /\ tracks' = tracks /\ fdd' = fdd /\ guess' = guess /\ opt' = opt
      /\ disk' = disk /\ noise' = noise /\ t0s0ss' = t0s0ss
      /\ prev_cyl' = prev_cyl /\ dmk' = dmk
  BY Zenon DEF Seek
<1>2. ExpectedHeads' = ExpectedHeads
  BY <1>1, Zenon DEF ExpectedHeads
<1>3. headpos' = h * fdd.steps
  <2>1. alternate = 0
    BY DEF alternate, AllGuessed
  <2>2. HeadPos = h * fdd.steps
    BY <2>1 DEF HeadPos, DataTypes
  <2>3. QED
    BY <2>2 DEF Seek
<1>4. CalmInv'
  BY <1>1 DEF RecoverInv, CalmInv
<1>5. StepGuessInv'
  BY <1>1 DEF RecoverInv, StepGuessInv, Scanning, InTrack, Looking
<1>6. SideGuessInv'
  BY <1>1, <1>2 DEF RecoverInv, SideGuessInv, Scanning, InTrack, Examined
<1>7. PlaceInv'
  BY <1>1 DEF RecoverInv, PlaceInv, Scanning, InTrack, Examined
<1>8. PassInv'
  BY <1>1, <1>3 DEF PassInv, HasData, Examined
<1>9. WholeInv'
  BY <1>1, <1>2 DEF RecoverInv, WholeInv, Whole, Saving, Scanning, InTrack
<1>10. QED
  BY <1>4, <1>5, <1>6, <1>7, <1>8, <1>9 DEF RecoverInv

\* A pass puts what the disk holds into the image.
LEMMA ReadStep ==
    ASSUME DataTypes, UsualDisk, AllGuessed, RecoverInv, ReadFlux
    PROVE  RecoverInv'
<1> USE DEF cmdVars, loopVars, sigVars
<1> DEFINE p == CleanPass(h * fdd.steps, s)
           new == [good |-> p.good, err |-> p.err]
<1>1. /\ pc = "read" /\ pc' = "examine" /\ h' = h /\ s' = s /\ sides' = sides
      /\ tracks' = tracks /\ fdd' = fdd /\ guess' = guess /\ opt' = opt
      /\ disk' = disk /\ t0s0ss' = t0s0ss /\ prev_cyl' = prev_cyl
      /\ headpos' = headpos
  BY Zenon DEF ReadFlux
<1>2. ExpectedHeads' = ExpectedHeads
  BY <1>1, Zenon DEF ExpectedHeads
<1>3. headpos = h * fdd.steps /\ noise = 0
  BY <1>1 DEF RecoverInv, PassInv, CalmInv
<1>4. PassResults = {p}
  BY <1>3 DEF PassResults, AllGuessed
<1>5. p.err = 0
  BY DEF CleanPass, NoSectors, UsualDisk
<1>6. /\ noise' = 0
      /\ fdec' = [cyl |-> p.cyl, size |-> p.size]
      /\ dts' = new
  <2>1. PICK r \in PassResults :
          /\ noise' = IF r = CleanPass(headpos, s) \/ noise = 0
                        THEN noise ELSE noise - 1
          /\ fdec' = [cyl |-> r.cyl, size |-> r.size]
          /\ dts' \in IF retry > 0 /\ opt.join
                        THEN MergeResults(dts, [good |-> r.good, err |-> r.err])
                        ELSE {[good |-> r.good, err |-> r.err]}
    BY Zenon DEF ReadFlux
  <2>2. r = p
    BY <1>4
  <2>3. MergeResults(dts, new) = {new}
    BY <1>5 DEF MergeResults
  <2>4. QED
    BY <1>3, <2>1, <2>2, <2>3
<1> DEFINE track == [t |-> h, s |-> s, pos |-> headpos,
                     good |-> dts'.good, err |-> dts'.err]
<1>7. dmk'.data = {x \in dmk.data : x.t # h \/ x.s # s} \cup {track}
  BY DEF ReadFlux, Store, DataTypes
<1>8. ASSUME NEW t, NEW side, Whole(t, side), t # h \/ side # s
      PROVE  Whole(t, side)'
  BY <1>7, <1>8 DEF Whole
<1>9. CalmInv'
  BY <1>1, <1>6 DEF RecoverInv, CalmInv
<1>10. StepGuessInv'
  BY <1>1 DEF RecoverInv, StepGuessInv, Scanning, InTrack, Looking
<1>11. SideGuessInv'
  BY <1>1, <1>2 DEF RecoverInv, SideGuessInv, Scanning, InTrack, Examined
<1>12. PlaceInv'
  BY <1>1 DEF RecoverInv, PlaceInv, Scanning, InTrack, Examined
<1>13. PassInv'
  <2>1. CleanPass(h * fdd.steps, s)' = p
    BY <1>1, Zenon DEF CleanPass, Formatted, Cylinder, Lesser, NoSectors
  <2>2. dts'.good = p.good /\ fdec'.cyl = p.cyl /\ fdec'.size = p.size
    BY <1>6
  <2>3. track \in dmk'.data /\ track.t = h /\ track.s = s /\ track.good = dts'.good
    BY <1>7
  <2>4. headpos' = h' * fdd'.steps
    BY <1>1, <1>3
  <2>5. QED
    BY <1>1, <2>1, <2>2, <2>3, <2>4, Zenon DEF PassInv
<1>14. WholeInv'
  <2>1. ASSUME NEW t \in 0 .. h - 1, NEW side \in 0 .. ExpectedHeads - 1
        PROVE  Whole(t, side)'
    <3>1. t # h
      BY DEF DataTypes
    <3>2. Whole(t, side)
      BY <1>1 DEF RecoverInv, WholeInv, Scanning, InTrack
    <3>3. QED
      BY <1>8, <3>1, <3>2
  <2>2. s = 1 => Whole(h, 0)'
    BY <1>1, <1>8 DEF RecoverInv, WholeInv, Scanning, InTrack
  <2>3. h' = h /\ s' = s /\ pc' \notin Saving
    BY <1>1 DEF Saving
  <2>4. QED
    BY <1>2, <2>1, <2>2, <2>3 DEF WholeInv, Whole
<1>15. QED
  BY <1>9, <1>10, <1>11, <1>12, <1>13, <1>14 DEF RecoverInv

\* On the disk, what is examined with the right multiplier, or on track 0, is
\* a whole side or, if there is no such side, nothing.
LEMMA Seen ==
    ASSUME DataTypes, UsualDisk, RecoverInv, pc \in HasData,
           fdd.steps = disk.pitch \/ h = 0, h < disk.cyls
    PROVE  /\ s < disk.heads =>
                /\ dts.good = Sectors /\ fdec.cyl = h
                /\ fdec.size = disk.size[s]
                /\ Whole(h, s)
           /\ dts.good > 0 => s < disk.heads
<1>1. disk \in DiskType
  BY DiskReadAssumption DEF DataTypes
<1>2. /\ dts.good = CleanPass(h * fdd.steps, s).good
      /\ fdec.cyl = CleanPass(h * fdd.steps, s).cyl
      /\ fdec.size = CleanPass(h * fdd.steps, s).size
      /\ \E x \in dmk.data : x.t = h /\ x.s = s /\ x.good = dts.good
  BY DEF RecoverInv, PassInv
<1>3. QED
  BY <1>1, <1>2, OnTrack DEF Whole

\* A side that is read after track 0 is there.
LEMMA SideThere ==
    ASSUME DataTypes, SidesInv, UsualDisk, RecoverInv, pc \in InTrack, h > 0
    PROVE  s < disk.heads
<1>1. disk.heads \in {1, 2}
  BY DiskReadAssumption DEF DataTypes, DiskType
<1>2. s < sides
  BY DEF SidesInv
<1>3. sides = 2 => ExpectedHeads = 2
  BY DEF RecoverInv, SideGuessInv, Scanning, ExpectedHeads, DataTypes
<1>4. ExpectedHeads = 2 => disk.heads = 2
  BY DEF ExpectedHeads
<1>5. QED
  BY <1>1, <1>2, <1>3, <1>4 DEF DataTypes

\* Only where the image is to have one side is the second one given up.
LEMMA OneSideStep ==
    ASSUME DataTypes, FlagTypes, SidesInv, AllGuessed, UsualDisk, RecoverInv,
           OneSideOnly
    PROVE  RecoverInv'
<1> USE DEF cmdVars, loopVars, sigVars, passVars
<1>0. disk \in DiskType
  BY DiskReadAssumption DEF DataTypes
<1>1. /\ pc = "examine" /\ pc' = "next" /\ h' = h /\ s' = s /\ sides' = 1
      /\ tracks' = tracks /\ fdd' = [fdd EXCEPT !.sides = 1]
      /\ opt' = opt /\ disk' = disk /\ t0s0ss' = t0s0ss
      /\ prev_cyl' = prev_cyl /\ headpos' = headpos /\ noise' = noise
      /\ dts' = dts /\ fdec' = fdec /\ dmk' = [dmk EXCEPT !.sside = TRUE]
      /\ guess' = [guess EXCEPT !.sides = IF Incompatible THEN @ ELSE FALSE]
  BY Zenon DEF OneSideOnly
<1>2. /\ fdd'.steps = fdd.steps /\ fdd'.tracks = fdd.tracks
      /\ dmk'.data = dmk.data
  BY <1>1 DEF DataTypes
<1>3. guess'.steps = guess.steps /\ guess'.tracks = guess.tracks
  BY <1>1, Zenon DEF FlagTypes
<1>4. ExpectedHeads' = ExpectedHeads
  BY <1>1, Zenon DEF ExpectedHeads
<1>5. pc \in Scanning /\ pc \in Looking /\ pc \in InTrack /\ pc \in HasData
  BY <1>1 DEF Scanning, InTrack, Looking, HasData
<1>6. h = 0 /\ s = 1
  <2>1. CASE Incompatible
    BY <2>1 DEF Incompatible, CompatChecked
  <2>2. CASE NoSecondSide
    BY <1>1, <1>5, <2>2 DEF NoSecondSide, SidesInv, Abandoned, DataTypes
  <2>3. QED
    BY <2>1, <2>2 DEF OneSideOnly
<1>7. h < disk.cyls
  BY <1>5, <1>6 DEF RecoverInv, PlaceInv
<1>8. ExpectedHeads = 1
  <2>1. CASE Incompatible
    <3>1. 1 < disk.heads
      BY <1>5, <1>6, <1>7, <2>1, Seen DEF Incompatible, CompatChecked
    <3>2. fdec.size = disk.size[1]
      BY <3>1, <1>5, <1>6, <1>7, Seen
    <3>3. t0s0ss = disk.size[0]
      BY <1>5, <1>6, <2>1
      DEF RecoverInv, SideGuessInv, Incompatible, CompatChecked, SidesInv
    <3>4. QED
      BY <2>1, <3>2, <3>3 DEF ExpectedHeads, Incompatible, CompatChecked
  <2>2. CASE NoSecondSide
    <3>1. ~(1 < disk.heads)
      BY <1>5, <1>6, <1>7, <2>2, Seen DEF NoSecondSide, Sectors
    <3>2. QED
      BY <3>1 DEF ExpectedHeads
  <2>3. QED
    BY <2>1, <2>2 DEF OneSideOnly
<1>9. CalmInv'
  <2>1. guess'.tracks
    BY <1>3 DEF RecoverInv, CalmInv
  <2>2. QED
    BY <1>1, <1>2, <2>1 DEF RecoverInv, CalmInv
<1>10. StepGuessInv'
  BY <1>1, <1>2, <1>3, <1>5, <1>6
  DEF RecoverInv, StepGuessInv, Scanning, InTrack, Looking
<1>11. SideGuessInv'
  BY <1>1, <1>4, <1>8 DEF SideGuessInv
<1>12. PlaceInv'
  BY <1>1, <1>5, <1>6, <1>7 DEF RecoverInv, PlaceInv
<1>13. PassInv'
  <2>1. CleanPass(h * fdd.steps, s)' = CleanPass(h * fdd.steps, s)
    BY <1>1, <1>2, Zenon DEF CleanPass, Formatted, Cylinder, Lesser, NoSectors
  <2>2. h' * fdd'.steps = h * fdd.steps
    BY <1>1, <1>2
  <2>3. QED
    BY <1>1, <1>2, <1>5, <2>1, <2>2, Zenon DEF RecoverInv, PassInv
<1>14. WholeInv'
  <2>1. pc' \notin Saving
    BY <1>1 DEF Saving
  <2>2. \A t, side : Whole(t, side)' <=> Whole(t, side)
    BY <1>2 DEF Whole
  <2>3. QED
    BY <1>1, <1>4, <1>5, <2>1, <2>2, Zenon DEF RecoverInv, WholeInv
<1>15. QED
  BY <1>9, <1>10, <1>11, <1>12, <1>13, <1>14 DEF RecoverInv

\* The multiplier is changed only from the wrong to the right one.
LEMMA ChangeStep ==
    ASSUME DataTypes, FlagTypes, SidesInv, UsualDisk, RecoverInv, ChangeSteps
    PROVE  RecoverInv'
<1> USE DEF cmdVars, loopVars, sigVars, passVars
<1>0. disk \in DiskType
  BY DiskReadAssumption DEF DataTypes
<1>1. /\ pc = "examine" /\ pc' = "restart" /\ sides' = sides /\ opt' = opt
      /\ disk' = disk /\ noise' = noise
      /\ fdd' = [fdd EXCEPT !.steps = 3 - @,
                            !.tracks = IF guess.tracks
                                         THEN GW_MAX_TRACKS \div (3 - fdd.steps)
                                         ELSE @]
      /\ guess' = [guess EXCEPT !.sides = @ /\ s # 1, !.steps = StillGuessing]
  BY Zenon DEF ChangeSteps
<1>2. pc \in Scanning /\ pc \in InTrack /\ pc \in HasData
  BY <1>1 DEF Scanning, InTrack, HasData
<1>3. guess.steps /\ h > 0 /\ h <= 3
  <2>1. guess.steps /\ h > 0
    BY DEF ChangeSteps, NeedDoubleStep, NeedSingleStep, DataTypes
  <2>2. QED
    BY <1>2, <2>1 DEF RecoverInv, StepGuessInv, DataTypes
<1>4. fdd.steps # disk.pitch
  <2>1. SUFFICES ASSUME fdd.steps = disk.pitch PROVE FALSE
    OBVIOUS
  <2>2. h < disk.cyls
    BY <1>0, <1>3 DEF UsualDisk, DiskType, DataTypes
  <2>3. dts.good = Sectors /\ fdec.cyl = h
    BY <1>2, <1>3, <2>1, <2>2, Seen, SideThere
  <2>4. QED
    BY <1>3, <2>3 DEF ChangeSteps, NeedDoubleStep, NeedSingleStep, Sectors,
                     DataTypes
<1>5. s = 0 /\ s # 1
  BY <1>2, <1>3, <1>4 DEF RecoverInv, StepGuessInv
<1>6. fdd'.steps = 3 - fdd.steps /\ fdd'.steps = disk.pitch
      /\ fdd'.tracks = GW_MAX_TRACKS \div fdd'.steps
  <2>1. guess.tracks
    BY DEF RecoverInv, CalmInv
  <2>2. fdd'.steps = 3 - fdd.steps
        /\ fdd'.tracks = GW_MAX_TRACKS \div (3 - fdd.steps)
    BY <1>1, <2>1 DEF DataTypes
  <2>3. QED
    BY <1>0, <1>4, <2>2 DEF DataTypes, DiskType
<1>7. guess'.tracks = guess.tracks /\ (guess'.sides <=> guess.sides)
  <2>1. guess'.tracks = guess.tracks
    BY <1>1, Zenon DEF FlagTypes
  <2>2. guess'.sides = (guess.sides /\ s # 1)
    BY <1>1, Zenon DEF FlagTypes
  <2>3. QED
    BY <1>5, <2>1, <2>2, Zenon
<1>8. ExpectedHeads' = ExpectedHeads
  BY <1>1, Zenon DEF ExpectedHeads
<1>9. CalmInv'
  BY <1>1, <1>6, <1>7 DEF RecoverInv, CalmInv
<1>10. StepGuessInv'
  BY <1>1 DEF StepGuessInv, Scanning, InTrack
<1>11. SideGuessInv'
  <2>1. pc' \notin Scanning
    BY <1>1 DEF Scanning, InTrack
  <2>2. QED
    BY <1>1, <1>7, <1>8, <2>1, Zenon DEF RecoverInv, SideGuessInv
<1>12. PlaceInv'
  BY <1>1 DEF PlaceInv, Scanning, InTrack
<1>13. PassInv'
  BY <1>1 DEF PassInv, HasData, Examined
<1>14. WholeInv'
  BY <1>1 DEF WholeInv, Scanning, InTrack, Saving
<1>15. QED
  BY <1>9, <1>10, <1>11, <1>12, <1>13, <1>14 DEF RecoverInv

\* A track after the last one ends the scan where the disk ends, and no track
\* of the disk does.
LEMMA EndFound ==
    ASSUME DataTypes, FlagTypes, SidesInv, UsualDisk, RecoverInv,
           pc = "examine", fdd.steps = disk.pitch \/ h = 0
    PROVE  PastLastTrack <=> h = disk.cyls
<1>0. disk \in DiskType
  BY DiskReadAssumption DEF DataTypes
<1>1. pc \in Scanning /\ pc \in InTrack /\ pc \in HasData
  BY DEF Scanning, InTrack, HasData
<1>2. h <= disk.cyls /\ (s = 1 => h < disk.cyls) /\ (s = 0 /\ h > 0 => prev_cyl = h - 1)
  BY <1>1 DEF RecoverInv, PlaceInv
<1>3. ASSUME PastLastTrack, h # disk.cyls PROVE FALSE
  <2>1. h > 0 /\ h < disk.cyls
    BY <1>0, <1>2, <1>3 DEF PastLastTrack, DataTypes, DiskType
  <2>2. dts.good = Sectors /\ fdec.cyl = h
    BY <1>1, <2>1, Seen, SideThere
  <2>3. QED
    BY <1>2, <1>3, <2>1, <2>2 DEF PastLastTrack, DataTypes, Sectors
<1>4. ASSUME h = disk.cyls PROVE PastLastTrack
  <2>1. h = 35 \/ h >= 40
    BY <1>4 DEF UsualDisk
  <2>2. s = 0 /\ prev_cyl = h - 1
    BY <1>2, <1>4, <2>1 DEF DataTypes
  <2>3. fdd.steps = disk.pitch
    BY <2>1
  <2>4. dts.good = 0 \/ fdec.cyl = prev_cyl
    BY <1>0, <1>1, <1>4, <2>2, <2>3, PastTheEnd DEF RecoverInv, PassInv
  <2>5. guess.tracks
    BY DEF RecoverInv, CalmInv
  <2>6. QED
    BY <2>1, <2>2, <2>4, <2>5 DEF PastLastTrack
<1>5. QED
  BY <1>3, <1>4

\* A track that passes the checks is on the disk, and the guesses that are
\* still open there are right.
LEMMA ExamineStep ==
    ASSUME DataTypes, FlagTypes, SidesInv, UsualDisk, RecoverInv, Examine
    PROVE  RecoverInv'
<1> USE DEF cmdVars, loopVars, sigVars, passVars
<1>0. disk \in DiskType
  BY DiskReadAssumption DEF DataTypes
<1>1. /\ pc = "examine" /\ h' = h /\ s' = s /\ sides' = sides
      /\ tracks' = tracks /\ fdd' = fdd /\ opt' = opt /\ disk' = disk
      /\ prev_cyl' = prev_cyl /\ headpos' = headpos /\ noise' = noise
      /\ dts' = dts /\ fdec' = fdec
      /\ guess' = [guess EXCEPT !.sides = @ /\ s # 1, !.steps = @ /\ h # 3]
      /\ t0s0ss' = IF CompatChecked /\ s = 0 THEN fdec.size ELSE t0s0ss
      /\ dmk' = IF PastLastTrack THEN [dmk EXCEPT !.ntracks = h] ELSE dmk
      /\ pc' = IF PastLastTrack THEN "left" ELSE "judge"
  BY Zenon DEF Examine
<1>2. pc \in Scanning /\ pc \in InTrack /\ pc \in HasData /\ pc \in Looking
  BY <1>1 DEF Scanning, InTrack, HasData, Looking
<1>3. /\ guess'.tracks = guess.tracks
      /\ guess'.sides <=> guess.sides /\ s # 1
      /\ guess'.steps <=> guess.steps /\ h # 3
  BY <1>1, Zenon DEF FlagTypes
<1>4. dmk'.data = dmk.data
  BY <1>1 DEF DataTypes
<1>5. ExpectedHeads' = ExpectedHeads
  BY <1>1, Zenon DEF ExpectedHeads
<1>6. \A t, side : Whole(t, side)' <=> Whole(t, side)
  BY <1>4 DEF Whole
<1>7. fdd.steps = disk.pitch \/ h = 0
  <2>1. SUFFICES ASSUME fdd.steps # disk.pitch, h # 0 PROVE FALSE
    OBVIOUS
  <2>2. guess.steps /\ h = 1 /\ s = 0
    BY <1>2, <2>1 DEF RecoverInv, StepGuessInv
  <2>3. /\ fdd.steps = 1 => dts.good = 0
        /\ fdd.steps = 2 => dts.good = Sectors /\ fdec.cyl = 2
    BY <1>0, <1>2, <2>1, <2>2, WrongTrack DEF RecoverInv, PassInv
  <2>4. QED
    BY <2>2, <2>3
    DEF Examine, NeedDoubleStep, NeedSingleStep, DataTypes, Sectors
<1>8. PastLastTrack <=> h = disk.cyls
  BY <1>1, <1>7, EndFound
<1>9. disk.cyls > 0 /\ h <= disk.cyls
  BY <1>0, <1>2 DEF DiskType, RecoverInv, PlaceInv
<1>10. CalmInv'
  BY <1>1, <1>3 DEF RecoverInv, CalmInv
<1>11. CASE PastLastTrack
  <2>1. pc' = "left" /\ dmk'.ntracks = disk.cyls /\ h = disk.cyls
    BY <1>1, <1>8, <1>11 DEF DataTypes
  <2>2. /\ pc' \notin Scanning /\ pc' \notin HasData
        /\ pc' \notin HasData \cup {"read"}
    BY <2>1 DEF Scanning, InTrack, HasData, Examined
  <2>3. s = 0 /\ s # 1 /\ h > 0
    BY <1>2, <1>9, <2>1 DEF RecoverInv, PlaceInv, DataTypes
  <2>4. StepGuessInv' /\ PlaceInv' /\ PassInv'
    BY <2>2 DEF StepGuessInv, PlaceInv, PassInv
  <2>5. SideGuessInv'
    BY <1>1, <1>3, <1>5, <2>2, <2>3, Zenon DEF RecoverInv, SideGuessInv
  <2>6. ExpectedHeads = 1 => sides = 1
    BY <1>2, <2>3 DEF RecoverInv, SideGuessInv, DataTypes
  <2>7. \A t \in 0 .. disk.cyls - 1, side \in 0 .. ExpectedHeads - 1 :
          Whole(t, side)'
    BY <1>2, <1>6, <2>1 DEF RecoverInv, WholeInv
  <2>8. h' > 0 /\ fdd'.steps = disk'.pitch /\ dmk'.ntracks = disk'.cyls
    BY <1>1, <1>7, <2>1, <2>3
  <2>9. WholeInv'
    BY <1>1, <1>5, <2>2, <2>6, <2>7, <2>8, Zenon DEF WholeInv
  <2>10. QED
    BY <1>10, <2>4, <2>5, <2>9 DEF RecoverInv
<1>12. CASE ~PastLastTrack
  <2>0. h < disk.cyls
    BY <1>0, <1>8, <1>9, <1>12 DEF DataTypes, DiskType
  <2>1. pc' = "judge" /\ h < disk.cyls
    BY <1>1, <1>12, <2>0, Zenon
  <2>2. /\ pc' \in Scanning /\ pc' \in HasData /\ pc' \in Examined
        /\ pc' \notin Saving /\ pc' # "next" /\ pc' # "restart"
    BY <2>1 DEF Scanning, InTrack, HasData, Examined, Saving
  <2>3. s = 1 => disk.heads = 2
    <3>1. CASE h > 0
      BY <1>0, <1>2, <3>1, SideThere DEF DiskType
    <3>2. CASE h = 0 /\ s = 1
      <4>1. sides = 2
        BY <1>2, <3>2 DEF SidesInv, DataTypes
      <4>2. CASE disk.heads = 1
        <5>1. dts.good = 0
          BY <1>2, <2>1, <3>2, <4>2, Seen DEF DataTypes
        <5>2. guess.sides
          BY <4>1, <4>2 DEF RecoverInv, SideGuessInv
        <5>3. QED
          BY <3>2, <5>1, <5>2 DEF Examine, NoSecondSide
      <4>3. QED
        BY <1>0, <4>2 DEF DiskType
    <3>3. QED
      BY <3>1, <3>2 DEF DataTypes
  <2>4. dts.good > 0
    BY <1>0, <1>2, <1>7, <2>1, <2>3, Seen DEF DataTypes, DiskType, Sectors
  <2>5. s < disk.heads
    BY <1>2, <1>7, <2>1, <2>4, Seen
  <2>6. fdec.size = disk.size[s]
    BY <1>2, <1>7, <2>1, <2>5, Seen
  <2>7. sides = 2 /\ opt.compat /\ h = 0 => t0s0ss' = disk.size[0]
    <3>1. ASSUME sides = 2, opt.compat, h = 0 PROVE CompatChecked
      BY <2>4, <3>1 DEF CompatChecked, SidesInv
    <3>2. CASE s = 0
      BY <1>1, <2>6, <3>1, <3>2
    <3>3. CASE s = 1
      BY <1>1, <1>2, <3>3 DEF RecoverInv, SideGuessInv
    <3>4. QED
      BY <3>2, <3>3 DEF DataTypes
  <2>8. sides = 2 /\ ExpectedHeads = 1 => h = 0 /\ s = 0
    <3>1. SUFFICES ASSUME sides = 2, ExpectedHeads = 1, s = 1 PROVE FALSE
      BY <1>2 DEF RecoverInv, SideGuessInv, DataTypes
    <3>2. h = 0
      BY <1>2, <3>1 DEF RecoverInv, SideGuessInv
    <3>3. opt.compat /\ disk.size[0] # 512 /\ disk.size[1] = 512
      BY <2>3, <3>1 DEF ExpectedHeads
    <3>4. t0s0ss = disk.size[0]
      BY <1>2, <3>1, <3>2, <3>3 DEF RecoverInv, SideGuessInv
    <3>5. Incompatible
      BY <2>4, <2>6, <3>1, <3>2, <3>3, <3>4
      DEF Incompatible, CompatChecked, SidesInv
    <3>6. QED
      BY <3>5 DEF Examine
  <2>9. StepGuessInv'
    <3>1. tracks' = fdd'.tracks
      BY <1>1, <1>2 DEF RecoverInv, StepGuessInv
    <3>2. guess'.steps => h' < 3
      BY <1>1, <1>2, <1>3 DEF RecoverInv, StepGuessInv
    <3>3. fdd'.steps # disk'.pitch => guess'.steps /\ h' = 0
      BY <1>1, <1>2, <1>3, <1>7 DEF RecoverInv, StepGuessInv
    <3>4. QED
      BY <3>1, <3>2, <3>3 DEF StepGuessInv
  <2>10. SideGuessInv'
    <3>1. disk.heads = 1 /\ sides = 2 => guess'.sides
      BY <1>3, <2>3 DEF RecoverInv, SideGuessInv
    <3>2. QED
      BY <1>1, <1>5, <2>2, <2>7, <2>8, <3>1, Zenon DEF RecoverInv, SideGuessInv
  <2>11. PlaceInv'
    BY <1>1, <1>2, <2>1, <2>2 DEF RecoverInv, PlaceInv
  <2>12. PassInv'
    <3>1. CleanPass(h * fdd.steps, s)' = CleanPass(h * fdd.steps, s)
      BY <1>1, Zenon DEF CleanPass, Formatted, Cylinder, Lesser, NoSectors
    <3>2. h' * fdd'.steps = h * fdd.steps
      BY <1>1
    <3>3. QED
      BY <1>1, <1>2, <1>4, <3>1, <3>2, Zenon DEF RecoverInv, PassInv
  <2>13. WholeInv'
    BY <1>1, <1>2, <1>5, <1>6, <2>2, Zenon DEF RecoverInv, WholeInv
  <2>14. QED
    BY <1>10, <2>9, <2>10, <2>11, <2>12, <2>13 DEF RecoverInv
<1>13. QED
  BY <1>11, <1>12

\* An accepted track becomes the previous one.
LEMMA ReturnStep ==
    ASSUME DataTypes, SidesInv, UsualDisk, RecoverInv, ReturnTrack
    PROVE  RecoverInv'
<1> USE DEF cmdVars, passVars, sigVars
<1>0. disk \in DiskType
  BY DiskReadAssumption DEF DataTypes
<1>1. /\ pc = "return" /\ pc' = "next" /\ h' = h /\ s' = s /\ sides' = sides
      /\ tracks' = tracks /\ fdd' = fdd /\ guess' = guess /\ opt' = opt
      /\ disk' = disk /\ t0s0ss' = t0s0ss /\ prev_cyl' = fdec.cyl
      /\ headpos' = headpos /\ noise' = noise /\ dts' = dts /\ fdec' = fdec
      /\ dmk' = dmk
  BY Zenon DEF ReturnTrack
<1>2. /\ pc \in Scanning /\ pc \in InTrack /\ pc \in HasData /\ pc \in Examined
      /\ pc \notin Looking /\ pc' \in Scanning /\ pc' \in Examined
      /\ pc' \in HasData /\ pc' \notin Saving /\ pc' # "restart"
  BY <1>1 DEF Scanning, InTrack, HasData, Examined, Looking, Saving
<1>3. ExpectedHeads' = ExpectedHeads
  BY <1>1, Zenon DEF ExpectedHeads
<1>4. fdd.steps = disk.pitch \/ h = 0
  BY <1>2 DEF RecoverInv, StepGuessInv
<1>5. h < disk.cyls
  BY <1>2 DEF RecoverInv, PlaceInv
<1>6. s < disk.heads
  <2>1. CASE h > 0
    BY <1>2, <2>1, SideThere
  <2>2. CASE h = 0
    <3>1. s < sides
      BY <1>2 DEF SidesInv
    <3>2. s = 1 => ExpectedHeads = 2
      BY <1>2, <3>1 DEF RecoverInv, SideGuessInv, DataTypes, ExpectedHeads
    <3>3. QED
      BY <1>0, <3>2 DEF ExpectedHeads, DataTypes, DiskType
  <2>3. QED
    BY <2>1, <2>2 DEF DataTypes
<1>7. fdec.cyl = h
  BY <1>2, <1>4, <1>5, <1>6, Seen
<1>8. CalmInv'
  BY <1>1 DEF RecoverInv, CalmInv
<1>9. StepGuessInv'
  BY <1>1, <1>2 DEF RecoverInv, StepGuessInv
<1>10. SideGuessInv'
  BY <1>1, <1>2, <1>3, Zenon DEF RecoverInv, SideGuessInv
<1>11. PlaceInv'
  BY <1>1, <1>2, <1>5, <1>7 DEF RecoverInv, PlaceInv
<1>12. PassInv'
  <2>1. CleanPass(h * fdd.steps, s)' = CleanPass(h * fdd.steps, s)
    BY <1>1, Zenon DEF CleanPass, Formatted, Cylinder, Lesser, NoSectors
  <2>2. h' * fdd'.steps = h * fdd.steps
    BY <1>1
  <2>3. QED
    BY <1>1, <1>2, <2>1, <2>2, Zenon DEF RecoverInv, PassInv
<1>13. WholeInv'
  <2>1. \A t, side : Whole(t, side)' <=> Whole(t, side)
    BY <1>1, Zenon DEF Whole
  <2>2. QED
    BY <1>1, <1>2, <1>3, <2>1, Zenon DEF RecoverInv, WholeInv
<1>14. QED
  BY <1>8, <1>9, <1>10, <1>11, <1>12, <1>13 DEF RecoverInv

\* The scan goes on to the other side, to the next track, or ends with the
\* last track of a disk that takes all the tracks there can be.
LEMMA NextStep ==
    ASSUME DataTypes, FlagTypes, SidesInv, EndInv, UsualDisk, RecoverInv,
           NextTrack
    PROVE  RecoverInv'
<1> USE DEF cmdVars
<1>0. disk \in DiskType
  BY DiskReadAssumption DEF DataTypes
<1>1. /\ pc = "next" /\ sides' = sides /\ tracks' = tracks /\ fdd' = fdd
      /\ guess' = guess /\ opt' = opt /\ disk' = disk /\ t0s0ss' = t0s0ss
      /\ prev_cyl' = prev_cyl /\ noise' = noise /\ dmk' = dmk
      /\ exit_requested' = exit_requested
  BY Zenon DEF NextTrack, sigVars
<1>2. pc \in Scanning /\ pc \in HasData /\ pc \in Examined /\ pc \notin Looking
  BY <1>1 DEF Scanning, HasData, Examined, Looking
<1>3. ExpectedHeads' = ExpectedHeads
  BY <1>1, Zenon DEF ExpectedHeads
<1>4. \A t, side : Whole(t, side)' <=> Whole(t, side)
  BY <1>1, Zenon DEF Whole
<1>5. fdd.steps = disk.pitch \/ h = 0
  BY <1>2 DEF RecoverInv, StepGuessInv
<1>6. h < disk.cyls /\ prev_cyl = h /\ disk.cyls \in Nat
  BY <1>0, <1>1, <1>2 DEF RecoverInv, PlaceInv, DiskType
<1>7. tracks = GW_MAX_TRACKS \div fdd.steps /\ dmk.ntracks = tracks
  BY <1>1, <1>2 DEF RecoverInv, StepGuessInv, CalmInv, EndInv
<1>8. s < disk.heads => Whole(h, s)
  BY <1>2, <1>5, <1>6, Seen
<1>9. LastSide => \A side \in 0 .. ExpectedHeads - 1 : Whole(h, side)
  <2>1. SUFFICES ASSUME LastSide, NEW side \in 0 .. ExpectedHeads - 1
                 PROVE  Whole(h, side)
    OBVIOUS
  <2>2. CASE s = 1 /\ side = 0
    BY <1>2, <2>2 DEF RecoverInv, WholeInv
  <2>3. CASE side = s
    <3>1. s < disk.heads
      BY <1>0, <2>3 DEF ExpectedHeads, DiskType, DataTypes
    <3>2. QED
      BY <1>8, <2>3, <3>1
  <2>4. CASE s = 0 /\ side = 1
    BY <2>1, <2>4 DEF RecoverInv, SideGuessInv, LastSide, ExpectedHeads
  <2>5. QED
    BY <2>2, <2>3, <2>4 DEF ExpectedHeads, DataTypes
<1>10. CalmInv'
  <2>1. pc' # "restart"
    BY DEF NextTrack
  <2>2. QED
    BY <1>1, <2>1 DEF RecoverInv, CalmInv
<1>11. CASE ScanOver
  <2>1. pc' = "left" /\ h' = h /\ s' = s
    BY <1>11 DEF NextTrack
  <2>2. pc' \notin Scanning /\ pc' \notin HasData /\ pc' \notin HasData \cup {"read"}
    BY <2>1 DEF Scanning, InTrack, HasData, Examined
  <2>3. StepGuessInv' /\ PlaceInv' /\ PassInv'
    BY <2>2 DEF StepGuessInv, PlaceInv, PassInv
  <2>4. SideGuessInv'
    BY <1>1, <1>3, <2>2, Zenon DEF RecoverInv, SideGuessInv
  <2>5. ASSUME ~exit_requested
        PROVE  /\ h > 0 /\ fdd.steps = disk.pitch /\ dmk.ntracks = disk.cyls
               /\ ExpectedHeads = 1 => sides = 1
               /\ h + 1 = disk.cyls
    <3>1. h + 1 >= tracks
      BY <1>11, <2>5 DEF ScanOver
    <3>2. h > 0 /\ fdd.steps = disk.pitch
      BY <1>5, <1>7, <3>1 DEF DataTypes, GW_MAX_TRACKS
    <3>3. disk.cyls <= tracks
      BY <1>0, <1>7, <3>2 DEF DiskType, UsualDisk, GW_MAX_TRACKS
    <3>4. ExpectedHeads = 1 => sides = 1
      BY <1>2, <3>2 DEF RecoverInv, SideGuessInv, DataTypes
    <3>5. QED
      BY <1>6, <1>7, <3>1, <3>2, <3>3, <3>4 DEF DataTypes
  <2>6. ASSUME ~exit_requested, NEW t \in 0 .. disk.cyls - 1,
               NEW side \in 0 .. ExpectedHeads - 1
        PROVE  Whole(t, side)
    <3>1. LastSide /\ h + 1 = disk.cyls
      BY <1>11, <2>5, <2>6 DEF ScanOver
    <3>2. CASE t = h
      BY <1>9, <3>1, <3>2
    <3>3. CASE t \in 0 .. h - 1
      BY <1>2, <3>3 DEF RecoverInv, WholeInv
    <3>4. QED
      BY <3>1, <3>2, <3>3 DEF DataTypes
  <2>7. WholeInv'
    BY <1>1, <1>3, <1>4, <2>1, <2>2, <2>5, <2>6, Zenon DEF WholeInv
  <2>8. QED
    BY <1>10, <2>3, <2>4, <2>7 DEF RecoverInv
<1>12. CASE ~ScanOver
  <2>1. /\ pc' = "pass"
        /\ h' = IF LastSide THEN h + 1 ELSE h
        /\ s' = IF LastSide THEN 0 ELSE s + 1
    BY <1>12 DEF NextTrack
  <2>2. /\ pc' \in Scanning /\ pc' \in Looking /\ pc' \notin Examined
        /\ pc' \notin HasData /\ pc' \notin HasData \cup {"read"}
        /\ pc' \notin Saving
    BY <2>1 DEF Scanning, InTrack, Looking, HasData, Examined, Saving
  <2>3. PassInv'
    BY <2>2 DEF PassInv
  <2>4. CASE LastSide
    <3>1. h' = h + 1 /\ s' = 0
      BY <2>1, <2>4
    <3>2. StepGuessInv'
      BY <1>1, <1>2, <2>2, <3>1 DEF RecoverInv, StepGuessInv, DataTypes
    <3>3. ~(sides = 2 /\ ExpectedHeads = 1)
      BY <1>2, <2>4 DEF RecoverInv, SideGuessInv, LastSide
    <3>4. s' # 1 /\ pc' \notin Examined
      BY <2>2, <3>1
    <3>5. SideGuessInv'
      BY <1>1, <1>3, <3>3, <3>4, Zenon DEF RecoverInv, SideGuessInv
    <3>6. PlaceInv'
      BY <1>1, <1>6, <2>1, <2>2, <3>1 DEF PlaceInv, DataTypes
    <3>7. \A t \in 0 .. h' - 1, side \in 0 .. ExpectedHeads - 1 : Whole(t, side)
      BY <1>2, <1>9, <2>4, <3>1 DEF RecoverInv, WholeInv, DataTypes
    <3>8. WholeInv'
      BY <1>3, <1>4, <2>2, <3>4, <3>7, Zenon DEF WholeInv
    <3>9. QED
      BY <1>10, <2>3, <3>2, <3>5, <3>6, <3>8 DEF RecoverInv
  <2>5. CASE ~LastSide
    <3>1. h' = h /\ s' = 1 /\ s = 0 /\ sides = 2
      BY <2>1, <2>5 DEF LastSide, DataTypes
    <3>2. StepGuessInv'
      BY <1>1, <1>2, <2>2, <3>1 DEF RecoverInv, StepGuessInv
    <3>3. SideGuessInv'
      BY <1>1, <1>2, <1>3, <2>2, <3>1, Zenon DEF RecoverInv, SideGuessInv
    <3>4. PlaceInv'
      BY <1>1, <1>6, <2>1, <2>2, <3>1 DEF PlaceInv, DataTypes
    <3>5. Whole(h, 0)
      BY <1>0, <1>8, <3>1 DEF DiskType
    <3>6. WholeInv'
      BY <1>2, <1>3, <1>4, <2>2, <3>1, <3>5, Zenon DEF RecoverInv, WholeInv
    <3>7. QED
      BY <1>10, <2>3, <3>2, <3>3, <3>4, <3>6 DEF RecoverInv
  <2>6. QED
    BY <2>4, <2>5
<1>13. QED
  BY <1>11, <1>12

\* Each step of a run without faults and noise keeps what has been found out
\* about a usual disk.
LEMMA RecoverStep ==
    ASSUME ~Faults, DataTypes, FlagTypes, SidesInv, MotorInv, EndInv,
           AllGuessed, UsualDisk, RecoverInv, [Next]_vars
    PROVE  RecoverInv'
<1> USE DEF vars, cmdVars, loopVars, passVars, sigVars
<1>1. CASE Restart
  BY <1>1, RestartStep
<1>2. CASE Seek
  BY <1>2, SeekStep
<1>3. CASE ReadFlux
  BY <1>3, ReadStep
<1>4. CASE OneSideOnly
  BY <1>4, OneSideStep
<1>5. CASE ChangeSteps
  BY <1>5, ChangeStep
<1>6. CASE Examine
  BY <1>6, ExamineStep
<1>7. CASE ReturnTrack
  BY <1>7, ReturnStep
<1>8. CASE NextTrack
  BY <1>8, NextStep
<1>9. CASE EndOfReplay \/ NoMorePasses
  BY <1>9 DEF EndOfReplay, NoMorePasses, ReplayHasNone, AllGuessed
<1>10. CASE ReadFails
  BY <1>10, Zenon DEF ReadFails, MotorInv
<1>11. CASE SaveFails
  BY <1>11, Zenon DEF SaveFails
<1>12. CASE SeekFails
  <2>1. pc' = "fatal" /\ UNCHANGED <<opt, disk, fdd, guess, loopVars, headpos,
                                     dts, fdec, noise, exit_requested>>
    BY <1>12, Zenon DEF SeekFails
  <2>2. QED
    BY <2>1, QuietStep
<1>13. CASE Judge \/ MenuContinue \/ Resume \/ Again
  <2>1. /\ pc \in Accepted
        /\ pc' \in Accepted \/ (pc = "again" /\ pc' = "pass")
    BY <1>13 DEF Judge, MenuContinue, Resume, Again, Accepted
  <2>2. UNCHANGED <<opt, disk, fdd, guess, loopVars, headpos, dts, fdec, noise,
                    exit_requested>>
    BY <1>13, Zenon DEF Judge, MenuContinue, Resume, Again
  <2>3. QED
    BY <2>1, <2>2, QuietStep
<1>14. CASE MenuQuit
  <2>1. pc \in Accepted /\ pc' \in Accepted
    BY <1>14 DEF MenuQuit, Accepted
  <2>2. exit_requested' /\ UNCHANGED <<opt, disk, fdd, guess, loopVars, headpos,
                                       dts, fdec, noise>>
    BY <1>14, Zenon DEF MenuQuit
  <2>3. QED
    BY <2>1, <2>2, QuietStep
<1>15. CASE LeaveLoop \/ SaveImage \/ StopDrive
  <2>1. pc \in Saving /\ pc' \in Saving
    BY <1>15 DEF LeaveLoop, SaveImage, StopDrive, Saving
  <2>2. UNCHANGED <<opt, disk, fdd, guess, loopVars, headpos, dts, fdec, noise,
                    exit_requested>>
    BY <1>15, Zenon DEF LeaveLoop, SaveImage, StopDrive
  <2>3. QED
    BY <2>1, <2>2, QuietStep
<1>16. CASE Signal
  <2> PICK sig \in Signals :
        RequestMenu(sig) \/ RequestExit(sig) \/ ResetAndDie(sig) \/ Die(sig)
    BY <1>16 DEF Signal
  <2>1. UNCHANGED <<opt, disk, fdd, guess, loopVars, headpos, dts, fdec, noise>>
    BY Zenon DEF RequestMenu, RequestExit, ResetAndDie, Die, Delivered
  <2>2. pc' = pc \/ pc' = "killed"
    BY Zenon DEF RequestMenu, RequestExit, ResetAndDie, Die
  <2>3. exit_requested => exit_requested'
    BY Zenon DEF RequestMenu, RequestExit, ResetAndDie, Die
  <2>4. QED
    BY <2>1, <2>2, <2>3, QuietStep
<1>17. CASE UNCHANGED vars
  <2>1. pc' = pc /\ UNCHANGED <<opt, disk, fdd, guess, loopVars, headpos, dts,
                                fdec, noise, exit_requested>>
    BY <1>17, Zenon
  <2>2. QED
    BY <2>1, QuietStep
<1>18. QED
  BY <1>1, <1>2, <1>3, <1>4, <1>5, <1>6, <1>7, <1>8, <1>9, <1>10, <1>11, <1>12,
     <1>13, <1>14, <1>15, <1>16, <1>17
  DEF Next, Reader

\* A run starts with every guess open.
LEMMA RecoverInit ==
    ASSUME MaxNoise = 0, Init, AllGuessed, UsualDisk
    PROVE  RecoverInv
<1>0. disk \in DiskType
  BY DiskReadAssumption DEF Init
<1>1. PICK n \in DetectedSides :
        fdd = [sides |-> n, steps |-> InitialSteps, tracks |-> InitialTracks]
  BY DEF Init
<1>2. /\ pc = "restart" /\ noise = 0 /\ h = 0 /\ s = 0 /\ sides = n
      /\ fdd.steps = InitialSteps /\ fdd.tracks = InitialTracks
  BY <1>1 DEF Init
<1>3. guess.sides /\ guess.steps /\ guess.tracks
  BY Zenon DEF Init, AllGuessed
<1>4. CalmInv
  BY <1>2, <1>3 DEF CalmInv, InitialTracks, AllGuessed
<1>5. pc \notin Scanning /\ pc \notin Saving /\ pc \notin HasData
      /\ pc \notin HasData \cup {"read"}
  BY <1>2 DEF Scanning, InTrack, Saving, HasData, Examined
<1>6. SideGuessInv
  <2>1. disk.heads = 2 => Formatted(0, 1)
    BY <1>0 DEF Formatted, Lesser, DiskType
  <2>2. ExpectedHeads = 2 => n = 2
    BY <2>1 DEF ExpectedHeads, DetectedSides, AllGuessed
  <2>3. QED
    BY <1>2, <1>3, <1>5, <2>2, Zenon DEF SideGuessInv
<1>7. QED
  BY <1>4, <1>5, <1>6 DEF RecoverInv, StepGuessInv, PlaceInv, PassInv, WholeInv

\* Whatever was guessed first, and whatever the user does short of leaving, a
\* run that comes to its end has found out sides, stepping and the number of
\* tracks of a usual disk in any drive, and holds every sector of it.
THEOREM UsualDiskRecovered ==
    ASSUME ~Faults, MaxNoise = 0
    PROVE  Spec => [](AllGuessed /\ UsualDisk /\ ~exit_requested
                        => GeometryRecovered)
<1> DEFINE Found == AllGuessed /\ UsualDisk => RecoverInv
<1>1. Init => Found
  BY RecoverInit
<1>2. TypeOK /\ SidesInv /\ MotorInv /\ EndInv /\ Found /\ [Next]_vars => Found'
  <2>1. SUFFICES ASSUME TypeOK, SidesInv, MotorInv, EndInv, Found, [Next]_vars,
                        AllGuessed', UsualDisk'
                 PROVE  RecoverInv'
    OBVIOUS
  <2>2. opt' = opt /\ disk' = disk
    <3>1. CASE Reader
      BY <3>1, Zenon
      DEF Reader, Restart, EndOfReplay, NoMorePasses, Seek, SeekFails, ReadFlux,
          ReadFails, OneSideOnly, ChangeSteps, Examine, Judge, MenuQuit,
          MenuContinue, Resume, Again, ReturnTrack, NextTrack, LeaveLoop,
          SaveImage, SaveFails, StopDrive, cmdVars
    <3>2. CASE Signal
      BY <3>2, Zenon DEF Signal, RequestMenu, RequestExit, ResetAndDie, Die,
                         Delivered, cmdVars
    <3>3. CASE UNCHANGED vars
      BY <3>3, Zenon DEF vars, cmdVars
    <3>4. QED
      BY <2>1, <3>1, <3>2, <3>3 DEF Next
  <2>3. AllGuessed /\ UsualDisk
    BY <2>1, <2>2 DEF AllGuessed, UsualDisk
  <2>4. QED
    BY <2>1, <2>3, RecoverStep DEF TypeOK
<1>3. Found /\ SidesInv /\ TypeOK =>
        (AllGuessed /\ UsualDisk /\ ~exit_requested => GeometryRecovered)
  <2>1. SUFFICES ASSUME RecoverInv, SidesInv, TypeOK, ~exit_requested, pc = "done"
                 PROVE  /\ dmk.ntracks = disk.cyls
                        /\ fdd.steps = disk.pitch
                        /\ dmk.sside <=> ExpectedHeads = 1
                        /\ \A t \in 0 .. disk.cyls - 1,
                              side \in 0 .. ExpectedHeads - 1 : Whole(t, side)
    BY DEF GeometryRecovered, Recovered, Whole
  <2>2. pc \in Saving
    BY <2>1 DEF Saving
  <2>3. dmk.sside <=> sides = 1
    BY <2>1 DEF SidesInv, Abandoned
  <2>4. ExpectedHeads \in {1, 2}
    BY DEF ExpectedHeads
  <2>5. QED
    BY <2>1, <2>2, <2>3, <2>4 DEF RecoverInv, WholeInv, SideGuessInv
<1>4. QED
  BY <1>1, <1>2, <1>3, EndInvariant, PTL DEF Spec

=============================================================================
