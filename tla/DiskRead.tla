------------------------------ MODULE DiskRead ------------------------------
(***************************************************************************)
(* The read loop of gw2dmk: gw2dmk() and read_track() of src/gw2dmk.c,     *)
(* with the interactive menu, the signal handler and the end of main()    *)
(* that saves the image and stops the drive.                               *)
(*                                                                         *)
(* One pass over a track (seek, flux capture, decode, merge with earlier   *)
(* passes) yields what the loop looks at: how many sectors were good, if   *)
(* errors remain, the cylinder number and the sector size decoded from     *)
(* the sector IDs.  Which result a pass yields is decided by the disk      *)
(* that lies in the drive and by noise.                                    *)
(***************************************************************************)
EXTENDS Integers, FiniteSets

CONSTANTS
    Settings,   \* command lines: a set of option records (see OptionType)
    Disks,      \* disks that may be in the drive (see DiskType)
    Logs,       \* replay logs: functions <<position, side>> -> streams recorded
    Signals,    \* signals that may arrive, a subset of {"INT", "TERM"}
    Faults,     \* may device and file operations fail?
    MaxNoise,   \* bound on the number of noisy passes
    MaxRetry    \* bound on the retry limits that are set

GW_MAX_TRACKS == 88
Sectors       == 2      \* good sectors of a track read without a fault
SectorSizes   == {256, 512}
Blank         == -1     \* cyl_seen of a pass that decoded no sector

OptionType ==
    [ usr_sides   : {-1, 1, 2},       \* -s, or -1 when detected
      usr_steps   : {-1, 1, 2},       \* -m, or -1 when guessed
      usr_tracks  : -1 .. GW_MAX_TRACKS,
      kind        : 1 .. 4,
      compat      : BOOLEAN,          \* --[no]compat
      join        : BOOLEAN,          \* --[no]join
      alternate   : 0 .. 3,           \* -a
      retries     : 0 .. MaxRetry,    \* -x
      min_retries : 0 .. MaxRetry,    \* -X
      min_sectors : 0 .. Sectors,     \* -S
      menu_intr   : BOOLEAN,          \* -M i
      menu_err    : BOOLEAN,          \* -M e
      replay      : BOOLEAN ]         \* -R

\* A disk of cyls cylinders and `heads' formatted surfaces, recorded with a
\* spacing of `pitch' head positions, in a drive whose heads stop at `last';
\* size[s] is the sector size of side s, and at the positions in `bad' no
\* sector can be read.
DiskType ==
    [ cyls  : 1 .. GW_MAX_TRACKS,
      heads : {1, 2},
      pitch : {1, 2},
      last  : 0 .. GW_MAX_TRACKS - 1,
      size  : [ {0, 1} -> SectorSizes ],
      bad   : SUBSET (0 .. GW_MAX_TRACKS - 1) ]

ASSUME DiskReadAssumption ==
    /\ MaxNoise \in Nat
    /\ MaxRetry \in Nat
    /\ Faults \in BOOLEAN
    /\ Settings \subseteq OptionType
    /\ Disks \subseteq DiskType
    /\ Signals \subseteq {"INT", "TERM"}

VARIABLES
    pc,              \* the point of gw2dmk()/read_track()/main() reached
    opt, disk, log,  \* command line, disk in the drive, unread replay streams
    fdd, guess,      \* cmd_set->fdd and cmd_set->guess_*
    retries,         \* cmd_set->retries[][]: the menu sets them all alike
    sides, tracks,   \* gw2dmk()'s locals
    h, s,            \* its loop counters
    t0s0ss, prev_cyl,
    dmk,             \* header.ntracks, the SSIDE option, and track[][]
    retry, headpos, dts, fdec, failing,   \* read_track()'s locals
    unread,          \* a broken-off read has left stream bytes in the device
    motor,           \* drive motor, as the Greaseweazle drives it
    reading_floppy, menu_requested, exit_requested,
    defaulted,       \* SA_RESETHAND has restored SIGTERM's default action
    noise,           \* noisy passes left
    restarts         \* history: how often gw2dmk() took `goto restart'

cmdVars  == <<opt, disk, log, fdd, guess, retries>>
loopVars == <<sides, tracks, h, s, t0s0ss, prev_cyl, dmk>>
passVars == <<retry, headpos, dts, fdec, failing, unread>>
sigVars  == <<reading_floppy, menu_requested, exit_requested, defaulted>>
vars     == <<pc, cmdVars, loopVars, passVars, sigVars, motor, noise, restarts>>

Running  == {"restart", "pass", "read", "examine", "judge", "menu", "resume",
             "again", "return", "next", "left", "save", "unset"}
Stopped  == {"done", "fatal", "killed"}

Lesser(a, b) == IF a < b THEN a ELSE b

-----------------------------------------------------------------------------
(* The disk in the drive.                                                  *)

\* The heads stop at the drive's last position.
Formatted(pos, side) ==
    LET p == Lesser(pos, disk.last) IN
    /\ side < disk.heads
    /\ p % disk.pitch = 0
    /\ p \div disk.pitch < disk.cyls

Cylinder(pos) == Lesser(pos, disk.last) \div disk.pitch

NoSectors(err) == [good |-> 0, err |-> err, cyl |-> Blank, size |-> 256]

CleanPass(pos, side) ==
    IF ~Formatted(pos, side) THEN NoSectors(0)
    ELSE IF Lesser(pos, disk.last) \in disk.bad THEN NoSectors(1)
    ELSE [good |-> Sectors, err |-> 0,
          cyl |-> Cylinder(pos), size |-> disk.size[side]]

\* Noise hides sectors or breaks CRCs; the size of the last sector ID seen is
\* then a byte of a possibly damaged ID.
NoisyPasses(pos, side) ==
    { r \in [good : 0 .. Sectors - 1, err : {0, 1},
             cyl : {Cylinder(pos), Blank}, size : SectorSizes] :
        /\ r.good > 0 <=> r.cyl # Blank
        /\ r.good > 0 => /\ Formatted(pos, side)
                         /\ Lesser(pos, disk.last) \notin disk.bad
        /\ r.size # disk.size[side] => r.err = 1 }

\* merge_sectors(): what the merged track and its statistics may be.
MergeResults(prev, new) ==
    IF new.err = 0
      THEN {new}
      ELSE { r \in {new, prev, [good |-> new.good, err |-> 0]} :
               r.err <= Lesser(prev.err, new.err) }

-----------------------------------------------------------------------------
(* Start of main(): detection and the guesses that are still open.         *)

DetectedSides ==
    IF opt.usr_sides # -1 THEN {opt.usr_sides}
    ELSE IF Formatted(0, 1) THEN {2} ELSE {1, 2}

InitialSteps ==
    IF opt.usr_steps # -1 THEN opt.usr_steps
    ELSE IF opt.kind = 1 THEN 2 ELSE 1

InitialTracks ==
    IF opt.usr_tracks # -1 THEN opt.usr_tracks
    ELSE GW_MAX_TRACKS \div InitialSteps

Init ==
    /\ pc = "restart"
    /\ opt \in Settings
    /\ disk \in Disks
    /\ log \in IF opt.replay THEN Logs ELSE {<<>>}
    /\ \E n \in DetectedSides :
         fdd = [sides |-> n, steps |-> InitialSteps, tracks |-> InitialTracks]
    /\ guess = [sides  |-> opt.usr_sides = -1,
                steps  |-> opt.usr_steps = -1,
                tracks |-> opt.usr_tracks = -1]
    /\ retries = opt.retries
    /\ sides = fdd.sides /\ tracks = fdd.tracks
    /\ h = 0 /\ s = 0
    /\ t0s0ss = Blank /\ prev_cyl = Blank
    /\ dmk = [ntracks |-> 0, sside |-> FALSE, data |-> {}]
    /\ retry = 0 /\ headpos = 0
    /\ dts = [good |-> 0, err |-> 0]
    /\ fdec = [cyl |-> Blank, size |-> 256]
    /\ failing = FALSE /\ unread = FALSE
    /\ motor = TRUE
    /\ reading_floppy = FALSE
    /\ menu_requested = FALSE /\ exit_requested = FALSE
    /\ defaulted = FALSE
    /\ noise = MaxNoise
    /\ restarts = 0

-----------------------------------------------------------------------------
(* gw2dmk(): label restart up to the loop.                                 *)

\* dmk_file_init() and the header options.
FreshImage_KeepsTracks ==
    [ntracks |-> fdd.tracks, sside |-> fdd.sides = 1, data |-> dmk.data]
FreshImage_ForgetsSide == [ntracks |-> fdd.tracks, sside |-> FALSE, data |-> {}]
FreshImage ==
    [ntracks |-> fdd.tracks, sside |-> fdd.sides = 1, data |-> {}]

Restart ==
    /\ pc = "restart"
    /\ dmk' = FreshImage
    /\ sides' = fdd.sides
    /\ tracks' = fdd.tracks
    /\ t0s0ss' = Blank /\ prev_cyl' = Blank
    /\ h' = 0 /\ s' = 0
    /\ reading_floppy' = TRUE
    /\ retry' = 0
    /\ dts' = [good |-> 0, err |-> 0]
    /\ pc' = IF fdd.tracks = 0 THEN "left" ELSE "pass"
    /\ UNCHANGED <<cmdVars, headpos, fdec, failing, unread, motor,
                   menu_requested, exit_requested, defaulted, noise, restarts>>

-----------------------------------------------------------------------------
(* read_track(): one pass, label retry up to the decoded, merged track.    *)

\* `alternate' is a bool in struct cmd_settings: 2 and 3 are stored as 1.
alternate == IF opt.alternate = 0 THEN 0 ELSE 1

HeadPos_IgnoresSteps == h
HeadPos_OneBased     == (h - 1) * fdd.steps
HeadPos ==
    LET even == h * fdd.steps + (IF fdd.steps = 2 THEN alternate % 2 ELSE 0)
    IN  IF fdd.steps = 2 /\ retry > 0 /\ alternate \div 2 = 1
          THEN (IF even % 2 = 0 THEN even + 1 ELSE even - 1)
          ELSE even

\* gw_replay_flux_avail()
Available(pos, side) ==
    IF <<pos, side>> \notin DOMAIN log THEN "NEVER"
    ELSE IF log[<<pos, side>>] > 0 THEN "AVAIL" ELSE "EXHAUSTED"

ReplayHasNone ==
    /\ opt.replay
    /\ \/ Available(HeadPos, s) = "EXHAUSTED"
       \/ Available(HeadPos, s) = "NEVER" /\ ~(retry = 0 /\ guess.steps)

\* Tracks of the image when nothing was recorded for this side of this one.
TracksComplete_CountsMissing == h + 1
TracksComplete == IF s = 1 THEN h + 1 ELSE h

\* [end of replay data] before the first pass: the image ends here.
EndOfReplay ==
    /\ pc = "pass"
    /\ ReplayHasNone
    /\ retry = 0
    /\ dmk' = [dmk EXCEPT !.ntracks = TracksComplete]
    /\ pc' = "left"
    /\ UNCHANGED <<cmdVars, sides, tracks, h, s, t0s0ss, prev_cyl, passVars,
                   sigVars, motor, noise, restarts>>

\* [end of replay data] after some passes: keep what they gave.
NoMorePasses ==
    /\ pc = "pass"
    /\ ReplayHasNone
    /\ retry > 0
    /\ pc' = "return"
    /\ UNCHANGED <<cmdVars, loopVars, passVars, sigVars, motor, noise, restarts>>

Seek ==
    /\ pc = "pass"
    /\ ~ReplayHasNone
    /\ headpos' = HeadPos
    /\ HeadPos < GW_MAX_TRACKS
    /\ pc' = "read"
    /\ UNCHANGED <<cmdVars, loopVars, retry, dts, fdec, failing, unread,
                   sigVars, motor, noise, restarts>>

\* The device gets to a reset, unless it is still sending a stream that
\* nobody reads any more.
Reset(stuck) == motor' \in IF stuck THEN {FALSE, motor} ELSE {FALSE}

\* cleanup(), run by exit(): three gw_reset().
CleanupReset == Reset(unread)

\* gw_seek() or gw_head() refused or interrupted: msg_fatal(), and the reset
\* sent by cleanup() stops the drive.
SeekFails ==
    /\ pc = "pass"
    /\ ~ReplayHasNone
    /\ HeadPos >= GW_MAX_TRACKS \/ Faults
    /\ CleanupReset
    /\ pc' = "fatal"
    /\ UNCHANGED <<cmdVars, loopVars, passVars, sigVars, noise, restarts>>

\* The stream recorded next at this position, once replaying.
Consume ==
    log' = IF opt.replay /\ Available(headpos, s) = "AVAIL"
             THEN [log EXCEPT ![<<headpos, s>>] = @ - 1] ELSE log

PassResults ==
    IF opt.replay /\ Available(headpos, s) = "NEVER"
      THEN {NoSectors(0)}
      ELSE {CleanPass(headpos, s)}
           \cup (IF noise > 0 THEN NoisyPasses(headpos, s) ELSE {})

Store(data, t, side, pos, st) ==
    { x \in data : x.t # t \/ x.s # side }
      \cup {[t |-> t, s |-> side, pos |-> pos, good |-> st.good, err |-> st.err]}

ReadFlux ==
    /\ pc = "read"
    /\ motor
    /\ \E r \in PassResults :
         LET new == [good |-> r.good, err |-> r.err] IN
         /\ noise' = IF r = CleanPass(headpos, s) \/ noise = 0
                       THEN noise ELSE noise - 1
         /\ fdec' = [cyl |-> r.cyl, size |-> r.size]
         /\ dts' \in IF retry > 0 /\ opt.join
                       THEN MergeResults(dts, new) ELSE {new}
    /\ dmk' = [dmk EXCEPT !.data = Store(@, h, s, headpos, dts')]
    /\ Consume
    /\ pc' = "examine"
    /\ UNCHANGED <<opt, disk, fdd, guess, retries, sides, tracks, h, s, t0s0ss,
                   prev_cyl, retry, headpos, failing, unread, sigVars, motor,
                   restarts>>

\* gw_read_stream() or gw_decode_stream() fails: read_track() returns 2 or 3,
\* gw2dmk() leaves its loop.
ReadFails ==
    /\ pc = "read"
    /\ Faults \/ ~motor
    /\ unread' \in {FALSE, Faults}
    /\ pc' = "left"
    /\ UNCHANGED <<cmdVars, loopVars, retry, headpos, dts, fdec, failing, sigVars,
                   motor, noise, restarts>>

-----------------------------------------------------------------------------
(* read_track(): the checks on the geometry guesses.                       *)

CompatChecked == opt.compat /\ fdd.sides = 2 /\ h = 0 /\ dts.good > 0
Incompatible  == CompatChecked /\ s = 1 /\ t0s0ss # 512 /\ fdec.size = 512
NoSecondSide  == guess.sides /\ s = 1 /\ dts.good = 0

NeedDoubleStep == guess.steps /\ fdd.steps = 1 /\ h % 2 = 1 /\ dts.good = 0
NeedSingleStep == guess.steps /\ fdd.steps = 2 /\ dts.good > 0 /\ h > 0
                  /\ fdec.cyl = h * 2

\* guess_steps while the other multiplier is tried.
StillGuessing_Forever == h # 3
StillGuessing         == ~NeedDoubleStep /\ h # 3

PastLastTrack_Misses40 ==
    /\ guess.tracks
    /\ h = 35 \/ h > 40
    /\ \/ dts.good = 0
       \/ s = 0 /\ fdec.cyl = prev_cyl
       \/ s = 0 /\ h >= 80 /\ fdec.cyl = h \div 2
PastLastTrack ==
    /\ guess.tracks
    /\ h = 35 \/ h >= 40
    /\ \/ dts.good = 0
       \/ s = 0 /\ fdec.cyl = prev_cyl
       \/ s = 0 /\ h >= 80 /\ fdec.cyl = h \div 2

\* One side only: read_track() returns -1 and gw2dmk() takes over the new
\* side count.
OneSideOnly ==
    /\ pc = "examine"
    /\ Incompatible \/ NoSecondSide
    /\ guess' = [guess EXCEPT !.sides = IF Incompatible THEN @ ELSE FALSE]
    /\ fdd' = [fdd EXCEPT !.sides = 1]
    /\ sides' = 1
    /\ dmk' = [dmk EXCEPT !.sside = TRUE]
    /\ pc' = "next"
    /\ UNCHANGED <<opt, disk, log, retries, tracks, h, s, t0s0ss, prev_cyl,
                   passVars, sigVars, motor, noise, restarts>>

\* Other step multiplier: read_track() returns -2, gw2dmk() starts over.
ChangeSteps ==
    /\ pc = "examine"
    /\ ~Incompatible /\ ~NoSecondSide
    /\ NeedDoubleStep \/ NeedSingleStep
    /\ guess' = [guess EXCEPT !.sides = @ /\ s # 1,
                              !.steps = StillGuessing]
    /\ fdd' = [fdd EXCEPT !.steps = 3 - @,
                          !.tracks = IF guess.tracks
                                       THEN GW_MAX_TRACKS \div (3 - fdd.steps)
                                       ELSE @]
    /\ t0s0ss' = IF CompatChecked /\ s = 0 THEN fdec.size ELSE t0s0ss
    /\ restarts' = restarts + 1
    /\ pc' = "restart"
    /\ UNCHANGED <<opt, disk, log, retries, sides, tracks, h, s, prev_cyl, dmk,
                   passVars, sigVars, motor, noise>>

Examine ==
    /\ pc = "examine"
    /\ ~Incompatible /\ ~NoSecondSide /\ ~NeedDoubleStep /\ ~NeedSingleStep
    /\ guess' = [guess EXCEPT !.sides = @ /\ s # 1, !.steps = @ /\ h # 3]
    /\ t0s0ss' = IF CompatChecked /\ s = 0 THEN fdec.size ELSE t0s0ss
    /\ dmk' = IF PastLastTrack THEN [dmk EXCEPT !.ntracks = h] ELSE dmk
    /\ pc' = IF PastLastTrack THEN "left" ELSE "judge"
    /\ UNCHANGED <<opt, disk, log, fdd, retries, sides, tracks, h, s, prev_cyl,
                   passVars, sigVars, motor, noise, restarts>>

-----------------------------------------------------------------------------
(* read_track(): retry decision and menu.                                  *)

\* gw_motor(), whose result is ignored: the motor may fail to change.
SetMotor(on) == motor' \in IF Faults THEN {on, motor} ELSE {on}

Failing ==
    /\ dts.err > 0 \/ retry < opt.min_retries \/ dts.good < opt.min_sectors
    /\ retry < retries \/ (opt.replay /\ retry < opt.min_retries)

MenuDue ==
    ~opt.replay /\ (menu_requested \/ (opt.menu_err /\ retry >= retries))

Judge ==
    /\ pc = "judge"
    /\ failing' = Failing
    /\ IF MenuDue THEN SetMotor(FALSE) /\ pc' = "menu"
                  ELSE motor' = motor /\ pc' = "again"
    /\ UNCHANGED <<cmdVars, loopVars, retry, headpos, dts, fdec, unread, sigVars,
                   noise, restarts>>

\* menu(): quit, also on end of file or ^C at the prompt; the motor stays off.
MenuQuit ==
    /\ pc = "menu"
    /\ exit_requested' = TRUE
    /\ pc' = "return"
    /\ UNCHANGED <<cmdVars, loopVars, passVars, reading_floppy, menu_requested,
                   defaulted, motor, noise, restarts>>

\* menu(): continue, give up on this track, or set new retry limits.
MenuContinue ==
    /\ pc = "menu"
    /\ \/ UNCHANGED <<failing, retries>>
       \/ failing' = FALSE /\ UNCHANGED retries
       \/ \E rnum \in 0 .. MaxRetry :
            /\ retries' = rnum
            /\ failing' = IF retry >= rnum THEN FALSE ELSE failing
    /\ pc' = "resume"
    /\ UNCHANGED <<opt, disk, log, fdd, guess, loopVars, retry, headpos, dts,
                   fdec, unread, sigVars, motor, noise, restarts>>

Resume_WithoutMotor ==
    /\ pc = "resume"
    /\ menu_requested' = FALSE
    /\ pc' = "again"
    /\ UNCHANGED <<cmdVars, loopVars, passVars, reading_floppy, exit_requested,
                   defaulted, motor, noise, restarts>>
Resume ==
    /\ pc = "resume"
    /\ SetMotor(TRUE)
    /\ menu_requested' = FALSE
    /\ pc' = "again"
    /\ UNCHANGED <<cmdVars, loopVars, passVars, reading_floppy, exit_requested,
                   defaulted, noise, restarts>>

Again_Uncounted ==
    /\ pc = "again"
    /\ pc' = IF failing THEN "pass" ELSE "return"
    /\ UNCHANGED <<cmdVars, loopVars, passVars, sigVars, motor, noise, restarts>>
Again ==
    /\ pc = "again"
    /\ retry' = IF failing THEN retry + 1 ELSE retry
    /\ pc' = IF failing THEN "pass" ELSE "return"
    /\ UNCHANGED <<cmdVars, loopVars, headpos, dts, fdec, failing, unread, sigVars,
                   motor, noise, restarts>>

\* Label leave: the track is accepted, read_track() returns 0.
ReturnTrack ==
    /\ pc = "return"
    /\ prev_cyl' = fdec.cyl
    /\ pc' = "next"
    /\ UNCHANGED <<cmdVars, sides, tracks, h, s, t0s0ss, dmk, passVars, sigVars,
                   motor, noise, restarts>>

-----------------------------------------------------------------------------
(* gw2dmk(): end of an iteration, and main() after the loop.               *)

LastSide_OffByOne == s + 2 >= sides
LastSide          == s + 1 >= sides

ScanOver_IgnoresExit == LastSide /\ h + 1 >= tracks
ScanOver             == exit_requested \/ (LastSide /\ h + 1 >= tracks)

NextTrack ==
    /\ pc = "next"
    /\ IF ScanOver
         THEN pc' = "left" /\ UNCHANGED <<h, s>>
         ELSE /\ pc' = "pass"
              /\ h' = IF LastSide THEN h + 1 ELSE h
              /\ s' = IF LastSide THEN 0 ELSE s + 1
    /\ retry' = 0
    /\ dts' = [good |-> 0, err |-> 0]
    /\ UNCHANGED <<cmdVars, sides, tracks, t0s0ss, prev_cyl, dmk, headpos, fdec,
                   failing, unread, sigVars, motor, noise, restarts>>

LeaveLoop ==
    /\ pc = "left"
    /\ reading_floppy' = FALSE
    /\ pc' = "save"
    /\ UNCHANGED <<cmdVars, loopVars, passVars, menu_requested, exit_requested,
                   defaulted, motor, noise, restarts>>

\* fopenwx(), dmk2fp() and fclose().
SaveImage ==
    /\ pc = "save"
    /\ pc' = "unset"
    /\ UNCHANGED <<cmdVars, loopVars, passVars, sigVars, motor, noise, restarts>>

SaveFails ==
    /\ pc = "save"
    /\ Faults
    /\ CleanupReset
    /\ pc' = "fatal"
    /\ UNCHANGED <<cmdVars, loopVars, passVars, sigVars, noise, restarts>>

\* gw_unsetdrive() and gw_close(); a failure to stop the drive is only reported.
StopDrive ==
    /\ pc = "unset"
    /\ SetMotor(FALSE)
    /\ pc' = "done"
    /\ UNCHANGED <<cmdVars, loopVars, passVars, sigVars, noise, restarts>>

-----------------------------------------------------------------------------
(* handler(): all handlers but SIGINT's are installed with SA_RESETHAND.   *)

Delivered(sig) ==
    /\ sig \in Signals
    /\ pc \notin Stopped
    /\ defaulted' = (defaulted \/ sig = "TERM")
    /\ UNCHANGED <<cmdVars, loopVars, passVars, reading_floppy, noise, restarts>>

Handled(sig) == ~(sig = "TERM" /\ defaulted)

MenuSignal(sig) ==
    sig = "INT" /\ opt.menu_intr /\ ~opt.replay /\ reading_floppy /\ ~menu_requested

RequestMenu(sig) ==
    /\ MenuSignal(sig)
    /\ Delivered(sig)
    /\ menu_requested' = TRUE
    /\ UNCHANGED <<pc, exit_requested, motor>>

RequestExit(sig) ==
    /\ Handled(sig) /\ ~MenuSignal(sig)
    /\ reading_floppy /\ ~exit_requested
    /\ Delivered(sig)
    /\ exit_requested' = TRUE
    /\ UNCHANGED <<pc, menu_requested, motor>>

\* Reset the Greaseweazle, then die of the signal.
ResetAndDie(sig) ==
    /\ Handled(sig) /\ ~MenuSignal(sig)
    /\ ~(reading_floppy /\ ~exit_requested)
    /\ Delivered(sig)
    /\ Reset(unread \/ pc = "read")
    /\ pc' = "killed"
    /\ UNCHANGED <<menu_requested, exit_requested>>

\* The default action: the handler does not run.
Die(sig) ==
    /\ ~Handled(sig)
    /\ Delivered(sig)
    /\ pc' = "killed"
    /\ UNCHANGED <<menu_requested, exit_requested, motor>>

Signal == \E sig \in Signals :
    RequestMenu(sig) \/ RequestExit(sig) \/ ResetAndDie(sig) \/ Die(sig)

-----------------------------------------------------------------------------

Reader ==
    \/ Restart \/ EndOfReplay \/ NoMorePasses \/ Seek \/ SeekFails
    \/ ReadFlux \/ ReadFails \/ OneSideOnly \/ ChangeSteps \/ Examine
    \/ Judge \/ MenuQuit \/ MenuContinue \/ Resume \/ Again \/ ReturnTrack
    \/ NextTrack \/ LeaveLoop \/ SaveImage \/ SaveFails \/ StopDrive

Next == Reader \/ Signal

Spec == Init /\ [][Next]_vars

\* The process keeps running and the user answers the menu; nothing is
\* assumed of signals.
FairSpec == Spec /\ WF_vars(Reader)

-----------------------------------------------------------------------------
(* Properties.                                                             *)

Pcs == Running \cup Stopped

DataType == [t : Nat, s : {0, 1}, pos : Nat, good : 0 .. Sectors, err : {0, 1}]

DataTypes ==
    /\ pc \in Pcs
    /\ opt \in Settings /\ disk \in Disks
    /\ fdd \in [sides : {1, 2}, steps : {1, 2}, tracks : 0 .. GW_MAX_TRACKS]
    /\ retries \in Nat
    /\ sides \in {1, 2} /\ tracks \in 0 .. GW_MAX_TRACKS
    /\ h \in Nat /\ s \in {0, 1}
    /\ t0s0ss \in SectorSizes \cup {Blank}
    /\ prev_cyl \in Nat \cup {Blank}
    /\ dmk \in [ntracks : Nat, sside : BOOLEAN, data : SUBSET DataType]
    /\ retry \in Nat /\ headpos \in Nat
    /\ dts \in [good : 0 .. Sectors, err : {0, 1}]
    /\ fdec \in [cyl : Nat \cup {Blank}, size : SectorSizes]
    /\ noise \in Nat /\ restarts \in Nat

FlagTypes ==
    /\ guess \in [sides : BOOLEAN, steps : BOOLEAN, tracks : BOOLEAN]
    /\ failing \in BOOLEAN /\ unread \in BOOLEAN /\ motor \in BOOLEAN
    /\ reading_floppy \in BOOLEAN /\ menu_requested \in BOOLEAN
    /\ exit_requested \in BOOLEAN /\ defaulted \in BOOLEAN

\* The variables of the read loop keep the types of the code's variables.
TypeOK == DataTypes /\ FlagTypes

\* The image in memory will never be saved.
Abandoned == pc \in {"restart", "killed", "fatal"}

\* Whatever guesses were revised and however often gw2dmk() started over,
\* the image holds only tracks that were read at the head positions of the
\* step multiplier now in force: dmk_file_init() after `restart:' leaves
\* nothing of an attempt with the other multiplier.
OneGeometry ==
    ~Abandoned => \A x \in dmk.data : x.pos \div fdd.steps = x.t

\* While the loop runs, and when the image is saved, every side of every
\* track before the current one is in the image: no way through retries,
\* menu, side and step revisions skips a track.
NoTrackSkipped ==
    ~Abandoned =>
        \A t \in 0 .. h - 1, side \in 0 .. sides - 1 :
            \E x \in dmk.data : x.t = t /\ x.s = side

\* The header says single-sided exactly when the scan is, so dmk2fp() lays
\* out the file the way the tracks were read; only track 0 may have left a
\* second side behind in memory.
SidesAgree ==
    ~Abandoned =>
        /\ sides = fdd.sides
        /\ dmk.sside <=> sides = 1
        /\ sides = 1 => \A x \in dmk.data : x.s = 0 \/ x.t = 0

\* The step guess settles: gw2dmk() starts over at most twice.
RestartBound == restarts <= 2

\* A flux capture is only ever started on a turning disk: the menu stops the
\* motor and every way back into the retry loop starts it again.
MotorRunsForReads == pc = "read" => motor

StartsTrack == pc' = "pass" /\ retry' = 0 /\ pc # "pass"

\* Once exit is requested (signal or menu) no further track or side is
\* begun, except that of a restart that was already decided.
ExitStopsScan ==
    [][exit_requested /\ StartsTrack => pc = "restart"]_vars

\* gw2dmk() comes to an end, whatever the disk, the user and signals do.
Termination == <>(pc \in Stopped)

ExpectedHeads ==
    IF disk.heads = 2 /\ ~(opt.compat /\ disk.size[0] # 512 /\ disk.size[1] = 512)
      THEN 2 ELSE 1

Recovered ==
    pc = "done" =>
        /\ dmk.ntracks = disk.cyls
        /\ fdd.steps = disk.pitch
        /\ dmk.sside <=> ExpectedHeads = 1
        /\ \A t \in 0 .. disk.cyls - 1, side \in 0 .. ExpectedHeads - 1 :
             \E x \in dmk.data : x.t = t /\ x.s = side /\ x.good = Sectors

\* A clean disk that ends after one of the likely places is recovered with
\* its own geometry, whatever was guessed first.
GeometryRecovered == opt.replay \/ Recovered

\* Unless the user or a signal cut the run short, each track the header
\* announces has been read: a replay log that ends early truncates the image
\* at the first track without a recorded stream.
ImageEndsWithData ==
    pc = "done" /\ ~exit_requested =>
        \A t \in 0 .. dmk.ntracks - 1 : \E x \in dmk.data : x.t = t /\ x.s = 0

-----------------------------------------------------------------------------
(* What the documentation says and the code does not do.                   *)

\* gw2dmk.1, -a: with 2 and 3 gw2dmk alternates between even and odd head
\* positions when retries are needed.
AlternatesOnRetry ==
    [][pc = "pass" /\ pc' = "read" /\ retry > 0 /\ fdd.steps = 2
       /\ opt.alternate >= 2 => headpos' # headpos]_vars

\* gw2dmk.1, -x and the menu's r: a track with errors is read again up to the
\* limit, which r changes on the fly.
RaisedLimitRetries ==
    [][pc = "menu" /\ dts.err > 0 /\ retries' # retries /\ retries' > retry
       => failing']_vars

\* gw2dmk.1, -R: sides, stepping and track count are detected from the
\* replayed flux just as when reading a real disk.
ReplayRecovered == Recovered

\* main(): "Stop spinning the drive when handling fatal signals"; at least
\* where no flux stream is on its way, which nobody reads any more.
KilledStopsDrive ==
    [][pc' = "killed" /\ pc # "read" /\ ~unread => ~motor']_vars
=============================================================================
