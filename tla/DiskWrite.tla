----------------------------- MODULE DiskWrite -----------------------------
(***************************************************************************)
(* dmk2gw at work on a Greaseweazle: main() from the opening of the device *)
(* on, dmk2gw(), write_track(), gw_write_stream() and gw_do_command(), the *)
(* signal handler and the exit handler, with the device of GwSim at the    *)
(* other end of the line.  A program that has ended may be started again.  *)
(*                                                                         *)
(* A command is one write() and one read(); a signal that is not held off  *)
(* breaks a blocked call off with EINTR.                                   *)
(***************************************************************************)
EXTENDS GwSim

CONSTANTS
    Tracks, Sides, \* of the DMK image
    Steps,         \* -m
    ReverseSides,  \* -r: 1 to swap the sides
    Settings,      \* command lines: a set of option records (see OptionType)
    MaxRetries,    \* of gw_write_stream(): dmk2gw asks for 5
    Capacity,      \* bytes of a stream that the line holds
    Signals,       \* a subset of {"INT", "TERM", "HUP"}
    MaxRuns        \* bound on the number of programs run in turn

OptionType == [ reset   : BOOLEAN,      \* --[no]reset
                by_side : BOOLEAN ]     \* -h 2 or 3: density differs by side

ASSUME DiskWriteAssumption ==
    /\ Tracks \in Nat /\ Sides \in {1, 2} /\ Steps \in {1, 2}
    /\ (Tracks - 1) * Steps < DriveTracks      \* the image fits the drive
    /\ ReverseSides \in {0, 1}
    /\ Settings \subseteq OptionType
    /\ MaxRetries \in Nat /\ Capacity \in Nat \ {0} /\ MaxRuns \in Nat
    /\ Signals \subseteq {"INT", "TERM", "HUP"}

VARIABLES
    opt,             \* command line
    pc,              \* the point of the program reached
    waiting,         \* the command of this point is sent, not answered
    t, s,            \* track and side
    retry_cnt, wbuf, \* gw_write_stream(): retries; stream not yet accepted
    taken,           \* the write() under way has had bytes accepted
    resets,          \* gw_reset() calls cleanup() has still to make
    writing_floppy, exit_requested,
    defaulted,       \* signals whose SA_RESETHAND action is spent
    eintr,           \* the system call under way, or the next, returns EINTR
    broken,          \* history: a signal has broken a call of this program off
    told,            \* history: what is reported of each place
    run              \* which program it is

trackVars == <<t, s, retry_cnt, wbuf, taken>>
hostSigs  == <<writing_floppy, exit_requested, defaulted, broken>>
hostVars  == <<opt, pc, waiting, trackVars, resets, hostSigs, eintr, run>>
vars      == <<simVars, hostVars, told>>

Stopped == {"done", "fatal", "killed"}

Place(track, side) == <<track * Steps, (side + ReverseSides) % 2>>

\* The pulses of a track, its dummy last one included, and the end mark.
Pulses(p) == <<10 + p[1], 100 + p[2]>>

Stream_NoEndMark(p) == Pulses(p)
Stream(p)           == Append(Pulses(p), 0)

Command ==
    [ reset    |-> <<CMD.RESET, 2>>,
      info     |-> <<CMD.GET_INFO, 3, 0>>,
      bus      |-> <<CMD.SET_BUS_TYPE, 3, Bus>>,
      select   |-> <<CMD.SELECT, 3, Unit>>,
      pin      |-> <<CMD.SET_PIN, 4, 2, 1>>,
      motor    |-> <<CMD.MOTOR, 4, Unit, 1>>,
      rpm_on   |-> <<CMD.MOTOR, 4, Unit, 1>>,
      rflux    |-> <<CMD.READ_FLUX, 8, 0, 0, 0, 0, 2, 0>>,
      rstatus  |-> <<CMD.GET_FLUX_STATUS, 2>>,
      rpm_off  |-> <<CMD.MOTOR, 4, Unit, 0>>,
      rpm_fail |-> <<CMD.MOTOR, 4, Unit, 0>>,
      densel   |-> <<CMD.SET_PIN, 4, 2, 0>>,
      spin     |-> <<CMD.MOTOR, 4, Unit, 1>>,
      sidepin  |-> <<CMD.SET_PIN, 4, 2, s>>,
      seek     |-> <<CMD.SEEK, 3, Place(t, s)[1]>>,
      head     |-> <<CMD.HEAD, 3, Place(t, s)[2]>>,
      wflux    |-> <<CMD.WRITE_FLUX, 4, 1, 1>>,
      status   |-> <<CMD.GET_FLUX_STATUS, 2>>,
      leave    |-> <<CMD.MOTOR, 4, Unit, 0>>,
      unset    |-> <<CMD.MOTOR, 4, Unit, 0>>,
      deselect |-> <<CMD.DESELECT, 2>>,
      cleanup  |-> <<CMD.RESET, 2>> ]

Init ==
    /\ SimInit
    /\ opt \in Settings
    /\ pc = "open" /\ waiting = FALSE
    /\ t = 0 /\ s = 0 /\ retry_cnt = 0 /\ wbuf = <<>> /\ taken = FALSE
    /\ resets = 0
    /\ writing_floppy = FALSE /\ exit_requested = FALSE
    /\ defaulted = {} /\ eintr = FALSE /\ broken = FALSE
    /\ told = [p \in DiskPlaces |-> "untouched"]
    /\ run = 1

-----------------------------------------------------------------------------
(* gw_do_command().                                                        *)

Drop(bytes, n) == SubSeq(bytes, n + 1, Len(bytes))

\* The one write() of the command.
Send ==
    /\ pc \in DOMAIN Command
    /\ ~waiting /\ ~eintr
    /\ toDevice' = toDevice \o Command[pc]
    /\ waiting' = TRUE
    /\ told' = IF pc = "wflux" THEN [told EXCEPT ![Place(t, s)] = "begun"] ELSE told
    /\ UNCHANGED <<toHost, sp, gw, media, disk, pc, trackVars, resets, hostSigs, eintr, opt, run>>

\* What it returns: an acknowledgement, or why there is none.
Result ==
    IF eintr THEN (IF waiting THEN -3 ELSE -2)
    ELSE IF Len(toHost) < 2 THEN -3
    ELSE IF toHost[1] # Command[pc][1] THEN -1
    ELSE toHost[2]

Okay == Result = ACK.OKAY

\* It returns at this point of the program.  The answer to GET_INFO has a
\* payload.
Returns(point) ==
    /\ pc = point
    /\ eintr \/ (waiting /\ toHost # <<>>)
    /\ waiting' = FALSE /\ eintr' = FALSE
    /\ toHost' = IF eintr THEN toHost
                 ELSE Drop(toHost, IF point = "info" /\ Okay THEN 3 ELSE 2)
    /\ UNCHANGED <<toDevice, sp, gw, media, disk, opt, run>>

\* msg_fatal(): exit() runs cleanup(), once the device is known to it.
Fatal_WithoutCleanup == pc' = "fatal" /\ resets' = 0
Fatal                == pc' = "cleanup" /\ resets' = 3

-----------------------------------------------------------------------------
(* main(): opening the device and starting the drive.                      *)

\* gw_init(): tcsetattr(TCSAFLUSH) waits for the output and discards input.
Open ==
    /\ pc = "open"
    /\ toDevice = <<>>
    /\ toHost' = <<>>
    /\ pc' = IF opt.reset THEN "reset" ELSE "info"
    /\ UNCHANGED <<toDevice, sp, gw, media, disk, waiting, trackVars, resets, hostSigs,
                   eintr, told, opt, run>>

InitGw ==
    \E next \in {<<"reset", "info">>, <<"info", "bus">>, <<"bus", "select">>} :
        /\ Returns(next[1])
        /\ pc' = IF Okay THEN next[2] ELSE "fatal"
        /\ UNCHANGED <<trackVars, resets, hostSigs, told>>

SetDrive ==
    \E next \in {<<"select", "pin">>, <<"pin", "motor">>, <<"motor", "rpm_on">>,
                <<"rpm_on", "rflux">>} :
        /\ Returns(next[1])
        /\ IF Okay THEN pc' = next[2] /\ UNCHANGED resets ELSE Fatal
        /\ UNCHANGED <<trackVars, hostSigs, told>>

\* get_rpm() reads one revolution, and stops the motor when that failed too.
ReadFlux ==
    /\ Returns("rflux")
    /\ pc' = IF Okay THEN "rstream" ELSE "rpm_fail"
    /\ UNCHANGED <<trackVars, resets, hostSigs, told>>

\* gw_read_stream(): blocks for one byte, takes those that wait behind it.
ReadStream ==
    /\ pc = "rstream"
    /\ \E n \in 1 .. Len(toHost) :
         /\ toHost' = Drop(toHost, n)
         /\ pc' = IF toHost[n] = 0 THEN "rstatus" ELSE "rstream"
    /\ UNCHANGED <<toDevice, sp, gw, media, disk, waiting, trackVars, resets, hostSigs,
                   eintr, told, opt, run>>

ReadStatus_Ignored ==
    /\ Returns("rstatus")
    /\ pc' = "rpm_off"
    /\ UNCHANGED <<trackVars, resets, hostSigs, told>>
ReadStatus ==
    /\ Returns("rstatus")
    /\ pc' = IF Okay THEN "rpm_off" ELSE "rpm_fail"
    /\ UNCHANGED <<trackVars, resets, hostSigs, told>>

StartLoop == pc' = "spin" /\ writing_floppy' = TRUE

RpmKnown ==
    /\ Returns("rpm_off")
    /\ IF ~Okay THEN Fatal /\ UNCHANGED writing_floppy
       ELSE /\ IF opt.by_side THEN StartLoop
                              ELSE pc' = "densel" /\ UNCHANGED writing_floppy
            /\ UNCHANGED resets
    /\ UNCHANGED <<trackVars, exit_requested, defaulted, broken, told>>

RpmUnknown ==
    /\ Returns("rpm_fail")
    /\ Fatal
    /\ UNCHANGED <<trackVars, hostSigs, told>>

SetDensity ==
    /\ Returns("densel")
    /\ IF Okay THEN StartLoop /\ UNCHANGED resets
               ELSE Fatal /\ UNCHANGED writing_floppy
    /\ UNCHANGED <<trackVars, exit_requested, defaulted, broken, told>>

-----------------------------------------------------------------------------
(* dmk2gw() and write_track().                                             *)

TrackStart == IF opt.by_side THEN "sidepin" ELSE "seek"

\* The result of gw_motor() is not looked at.
SpinUp ==
    /\ Returns("spin")
    /\ pc' = IF Tracks = 0 THEN "leave" ELSE TrackStart
    /\ UNCHANGED <<trackVars, resets, hostSigs, told>>

SideDensity ==
    /\ Returns("sidepin")
    /\ IF Okay THEN pc' = "seek" /\ UNCHANGED resets ELSE Fatal
    /\ UNCHANGED <<trackVars, hostSigs, told>>

Seek ==
    /\ Returns("seek")
    /\ pc' = IF Okay THEN "head" ELSE "leave"
    /\ UNCHANGED <<trackVars, resets, hostSigs, told>>

SelectHead ==
    /\ Returns("head")
    /\ pc' = IF Okay THEN "wflux" ELSE "leave"
    /\ retry_cnt' = 0
    /\ UNCHANGED <<t, s, wbuf, taken, resets, hostSigs, told>>

\* gw_write_stream(): label retry.
WriteFlux ==
    /\ Returns("wflux")
    /\ IF Result = ACK.WRPROT THEN Fatal
       ELSE pc' = (IF Okay THEN "stream" ELSE "leave") /\ UNCHANGED resets
    /\ wbuf' = Stream(Place(t, s))
    /\ taken' = FALSE
    /\ UNCHANGED <<t, s, retry_cnt, hostSigs, told>>

\* gw_write(): the line accepts the stream byte by byte.
Accept ==
    /\ pc = "stream" /\ ~eintr
    /\ wbuf # <<>>
    /\ Len(toDevice) < Capacity
    /\ toDevice' = Append(toDevice, Head(wbuf))
    /\ wbuf' = Tail(wbuf)
    /\ taken' = TRUE
    /\ UNCHANGED <<toHost, sp, gw, media, disk, pc, waiting, t, s, retry_cnt, resets,
                   hostSigs, eintr, told, opt, run>>

\* gw_write() returns: all accepted, a part of it, or -1.
WriteReturns ==
    /\ pc = "stream"
    /\ wbuf = <<>> \/ eintr
    /\ pc' = IF wbuf # <<>> /\ taken THEN "stream" ELSE "sync"
    /\ taken' = FALSE
    /\ eintr' = FALSE
    /\ UNCHANGED <<simVars, waiting, t, s, retry_cnt, wbuf, resets, hostSigs,
                   told, opt, run>>

\* The synchronization read, whose result is not looked at.
Sync_Skipped ==
    /\ pc = "sync"
    /\ pc' = "status"
    /\ UNCHANGED <<simVars, waiting, trackVars, resets, hostSigs, eintr, told, opt, run>>
Sync ==
    /\ pc = "sync"
    /\ IF eintr THEN UNCHANGED toHost ELSE toHost # <<>> /\ toHost' = Tail(toHost)
    /\ eintr' = FALSE
    /\ pc' = "status"
    /\ UNCHANGED <<toDevice, sp, gw, media, disk, waiting, trackVars, resets, hostSigs,
                   told, opt, run>>

MayRetry_OffByOne == Result = ACK.FLUX_UNDERFLOW /\ retry_cnt <= MaxRetries
MayRetry          == Result = ACK.FLUX_UNDERFLOW /\ retry_cnt < MaxRetries

Retry ==
    /\ Returns("status")
    /\ MayRetry
    /\ retry_cnt' = retry_cnt + 1
    /\ pc' = "wflux"
    /\ UNCHANGED <<t, s, wbuf, taken, resets, hostSigs, told>>

\* wsret >= 0: the status is good and the stream was accepted to its end.
Written_AnyStatus == Result >= 0
Written           == Okay /\ wbuf = <<>>

LastTrack == t = Tracks - 1 /\ s = Sides - 1

TrackWritten ==
    /\ Returns("status")
    /\ ~MayRetry /\ Written
    /\ told' = [told EXCEPT ![Place(t, s)] = "written"]
    /\ IF exit_requested \/ LastTrack
         THEN pc' = "leave" /\ UNCHANGED <<t, s>>
         ELSE /\ pc' = TrackStart
              /\ t' = IF s = Sides - 1 THEN t + 1 ELSE t
              /\ s' = (s + 1) % Sides
    /\ UNCHANGED <<retry_cnt, wbuf, taken, resets, hostSigs>>

TrackFailed ==
    /\ Returns("status")
    /\ ~MayRetry /\ ~Written
    /\ IF Result = ACK.WRPROT THEN Fatal ELSE pc' = "leave" /\ UNCHANGED resets
    /\ UNCHANGED <<trackVars, hostSigs, told>>

-----------------------------------------------------------------------------
(* The end.                                                                *)

\* The motor is told to stop, whatever has happened; again without a look
\* at the result.
Leave ==
    /\ Returns("leave")
    /\ pc' = "unset"
    /\ writing_floppy' = FALSE
    /\ UNCHANGED <<trackVars, resets, exit_requested, defaulted, broken, told>>

\* gw_unsetdrive(); its failure is reported and nothing more.
UnsetDrive ==
    /\ \/ Returns("unset") /\ pc' = IF Okay THEN "deselect" ELSE "done"
       \/ Returns("deselect") /\ pc' = "done"
    /\ UNCHANGED <<trackVars, resets, hostSigs, told>>

Cleanup ==
    /\ Returns("cleanup")
    /\ resets' = resets - 1
    /\ pc' = IF resets = 1 THEN "fatal" ELSE "cleanup"
    /\ UNCHANGED <<trackVars, hostSigs, told>>

Host ==
    \/ Send \/ Open \/ InitGw \/ SetDrive \/ ReadFlux \/ ReadStream
    \/ ReadStatus \/ RpmKnown \/ RpmUnknown \/ SetDensity \/ SpinUp
    \/ SideDensity \/ Seek \/ SelectHead \/ WriteFlux \/ Accept \/ WriteReturns \/ Sync \/ Retry
    \/ TrackWritten \/ TrackFailed \/ Leave \/ UnsetDrive \/ Cleanup

-----------------------------------------------------------------------------
(* handler().  SIGINT is held off during read() and write().               *)

Deliverable(sig) ==
    /\ sig \in Signals
    /\ pc \notin Stopped
    /\ sig = "INT" => ~(pc = "stream" /\ taken)

\* A write() looks at signals first; a read() only when there is nothing to
\* read.
Breakable == waiting \/ pc = "sync" => toHost = <<>>

\* The first signal while writing only asks for the end, but may break off
\* the call it hits.
RequestExit(sig) ==
    /\ Deliverable(sig) /\ sig \notin defaulted
    /\ writing_floppy /\ ~exit_requested
    /\ exit_requested' = TRUE
    /\ defaulted' = IF sig = "INT" THEN defaulted ELSE defaulted \cup {sig}
    /\ eintr' \in IF sig # "INT" /\ Breakable THEN {FALSE, TRUE} ELSE {FALSE}
    /\ broken' = eintr'
    /\ UNCHANGED <<simVars, pc, waiting, trackVars, resets, writing_floppy, told, opt, run>>

Connected == pc \notin {"open", "reset", "info", "bus"}

\* gw_reset_async(), and die of the signal.
ResetAndDie(sig) ==
    /\ Deliverable(sig) /\ sig \notin defaulted
    /\ ~(writing_floppy /\ ~exit_requested)
    /\ toDevice' = IF Connected THEN toDevice \o <<CMD.RESET, 2>> ELSE toDevice
    /\ pc' = "killed"
    /\ UNCHANGED <<toHost, sp, gw, media, disk, waiting, trackVars, resets, hostSigs,
                   eintr, told, opt, run>>

\* The default action: the handler does not run.
Die(sig) ==
    /\ Deliverable(sig) /\ sig \in defaulted
    /\ pc' = "killed"
    /\ UNCHANGED <<simVars, waiting, trackVars, resets, hostSigs, eintr, told, opt, run>>

Signal == \E sig \in Signals : RequestExit(sig) \/ ResetAndDie(sig) \/ Die(sig)

\* The user runs dmk2gw again.
NewRun ==
    /\ pc \in Stopped
    /\ run < MaxRuns
    /\ opt' \in Settings
    /\ pc' = "open" /\ waiting' = FALSE
    /\ t' = 0 /\ s' = 0 /\ retry_cnt' = 0 /\ wbuf' = <<>> /\ taken' = FALSE
    /\ resets' = 0
    /\ writing_floppy' = FALSE /\ exit_requested' = FALSE
    /\ defaulted' = {} /\ eintr' = FALSE /\ broken' = FALSE
    /\ run' = run + 1
    /\ UNCHANGED <<simVars, told>>

Next ==
    \/ Host
    \/ Device /\ UNCHANGED <<hostVars, told>>
    \/ Signal
    \/ NewRun

Spec == Init /\ [][Next]_vars

\* Both ends of the line keep running; nothing is assumed of signals, nor
\* that anybody runs the program again.
FairSpec ==
    /\ Spec
    /\ WF_vars(Host)
    /\ WF_vars(Device /\ UNCHANGED <<hostVars, told>>)

-----------------------------------------------------------------------------
(* Properties.                                                             *)

TypeOK ==
    /\ SimTypeOK
    /\ opt \in Settings
    /\ pc \in DOMAIN Command \cup {"open", "rstream", "stream", "sync"} \cup Stopped
    /\ waiting \in BOOLEAN /\ taken \in BOOLEAN
    /\ eintr \in BOOLEAN /\ broken \in BOOLEAN
    /\ writing_floppy \in BOOLEAN /\ exit_requested \in BOOLEAN
    /\ defaulted \subseteq Signals \ {"INT"}
    /\ t \in Nat /\ s \in {0, 1}
    /\ retry_cnt \in 0 .. MaxRetries /\ resets \in 0 .. 3 /\ run \in Nat
    /\ wbuf \in Seq(Byte)
    /\ told \in [DiskPlaces -> {"untouched", "begun", "written"}]

Order == [i \in 1 .. Tracks * Sides |-> Place((i - 1) \div Sides, (i - 1) % Sides)]

Writer == INSTANCE TrackWriter
    WITH Places <- DiskPlaces, Data <- [p \in DiskPlaces |-> Pulses(p)],
         Before <- [p \in DiskPlaces |-> <<>>]

\* Through retries, lost answers, signals at every point and programs that
\* are started after one that was killed, the diskette only ever changes at
\* the track being written, and a track is reported as written, and the next
\* one begun, only when the whole stream is on the diskette.
WritesTracks == Writer!Spec

\* A drive without a diskette is found out before a write, which would wait
\* for an index pulse that never comes: also where a program finds the device
\* as a killed one has left it, in the middle of a stream.
NoWriteWithoutMedia ==
    media = "none" => \A p \in DiskPlaces : told[p] = "untouched"

\* As long as no handler has broken off a call, the host and the device are
\* in step: the next command is sent over an empty line, to a device that
\* expects one, so that the next answer is the answer to it.
InStep ==
    pc \in DOMAIN Command /\ ~waiting /\ run = 1 /\ ~broken =>
        /\ toDevice = <<>> /\ toHost = <<>>
        /\ sp.state = "CMD" /\ sp.cbuf = <<>>

\* The host waits for a device that waits for the rest of a stream or command.
Deadlocked ==
    /\ toHost = <<>> /\ toDevice = <<>>
    /\ sp.state = "WRSTREAM" \/ sp.cbuf # <<>>

\* dmk2gw comes to an end, however often the drive runs out of flux and
\* whatever the device answers; unless a handler has broken off a call of the
\* write protocol, or of an earlier program, and both ends wait for ever.
Termination ==
    <>[](pc \in Stopped \/ (Deadlocked /\ (broken \/ run > 1)))

\* A program that has ended by itself, with or without an error, has stopped
\* the drive, if no handler has broken off a call.
EndStopsDrive ==
    ~broken /\ (pc = "done" \/ (pc = "fatal" /\ run = 1))
        ~> pc = "open" \/ ~gw.motor_on

-----------------------------------------------------------------------------
(* What a comment says and the code does not do.                           *)

\* main(): "Stop spinning the drive when handling fatal signals"; here where
\* the handler runs and the program goes on to its end.
SignalStopsDrive == exit_requested /\ pc = "done" ~> pc = "open" \/ ~gw.motor_on
=============================================================================
