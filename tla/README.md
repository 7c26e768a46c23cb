# Verification of gw2dmk and dmk2gw

gw2dmk reads diskettes through a Greaseweazle into DMK images, dmk2gw writes
DMK images to diskettes, gwhist reports flux histograms, and gwsim simulates a
Greaseweazle with its drives behind a pseudo terminal.  This directory holds
TLA+ models of the parts of that system whose behaviour is hard to test, the
TLC runs that check them, and proofs for TLAPS.

    tlc -workers 2 -config MCDiskControl.cfg MCDiskControl    # one run
    tlapm DiskReadProofs.tla                                  # one proof module

`PROJECT.json` lists the runs with their properties, the source lines every
definition stands for (`map`), a mutant for every property, the hazards each
property is about, and the findings.

## 1. The system

| part | sources | state it keeps | operations |
| --- | --- | --- | --- |
| gw2dmk read loop | `src/gw2dmk.c` | guesses and settings of the drive (`fdd`, `guess_*`), retry limits, the DMK image in memory, the signal flags | `gw2dmk()`, `read_track()`, `menu()`, `handler()`, `cleanup()` |
| dmk2gw write loop | `src/dmk2gw.c` | track and side, signal flags | `dmk2gw()`, `write_track()`, `handler()`, `cleanup()` |
| serial command layer | `src/gw.c` | the line and what is under way on it | one function per command over `gw_do_command()`; `gw_reset_async()` for handlers |
| extended protocol | `src/gwx.c` | none between calls | `gw_read_stream()`, `gw_write_stream()`, `gw_setdrive()`, `gw_unsetdrive()`, flux codec |
| flux decoder | `src/gwdecode.c` | bit accumulator, byte counters `ibyte dbyte ebyte`, CRC, IDAM table | bits to bytes, address marks, sectors, errors |
| sector merge | `src/dmkmerge.c` | the best track so far and its statistics | `merge_sectors()` |
| DMK file | `src/dmk.c`, `src/dmkx.c` | the image | load, save, rotate a track, encode a track as pulses |
| replay | `src/gwreplay.c` | recorded streams by position and side, and how far each is used | parse a log, answer commands from it |
| histogram, thresholds | `src/gwhisto.c`, `src/gwmedia.c` | one histogram | floating-point peak finding |
| drive detection | `src/gwdetect.c` | the open device | scan, open, initialise, probe units |
| options and files | `src/cfgfile.c`, `src/cmdutil.c`, `src/parsetracks.c` | the command line | parsing |
| gwsim protocol engine | `src/sim/simproto.c`, `simgw.c`, `simdrive.c`, `simbus.c` | `struct sim_proto`, `struct sim_gw`, drives | one handler per command, the write stream |
| gwsim media, control | `src/sim/simctl.c`, `simmedia.c`, `simdmk.c`, `simflux.c` | inserted media, dirty flags | insert, eject, save, flux synthesis |

How they interact.  The programs are sequential: they send a command down the
line, wait for its two-byte answer, and the device acts.  Flux goes down or up
the same line as a stream of bytes that ends in zero.  `read_track()` captures
a stream, decodes it, merges it with earlier passes and decides whether to read
again; `gw2dmk()` and `read_track()` share the guesses about the diskette, which
a later track can overturn.  Signal handlers share three flags with the main
program and write to its line.  With `-R` the replay answers instead of a
device.

What is hard, and where correctness lies:

* **read loop** - geometry is guessed and revised in the middle of the scan;
  an interactive menu and signals act at any point; retries, noise and partial
  failures.  The image must be of one geometry, complete as far as it claims to
  be, and the drive must be left stopped.
* **write loop and line** - host and device must agree on where a command or a
  stream begins and ends, through underruns, retries, lost answers, a host
  killed in the middle and the next program that finds the device so.
* **decoder and merge** - errors are counted in one place and sectors flagged
  in another; the two must agree for retries to stop at the right time, and
  what is not flagged must be what is on the diskette.
* **DMK to pulses and back** - bytes are classified, cleaned up and encoded by
  heuristics, and the decoder finds them again by others; times go through
  three writers and readers of the same codes.
* **replay** - a log that may end anywhere is read without looking ahead;
  streams are used up, and what is consumed for a guess is gone.

## 2. Modules

| module | what it is |
| --- | --- |
| `DiskRead` | the read loop of gw2dmk, with menu, signals, faults, end of `main()` |
| `DiskReadProofs` | its invariants, proved |
| `MCDiskGeometry`, `MCDiskControl`, `MCDiskFaults`, `MCDiskDivergence` | instances of it |
| `GwSim` | the device: gwsim's protocol engine, Greaseweazle state, one drive |
| `DiskWrite` | dmk2gw at work on that device, byte by byte; extends `GwSim` |
| `DiskWriteProofs` | what each step of the device keeps, and the types of both; what holds of the first program on a device that is ready for it, and the refinement, proved |
| `TrackWriter` | what dmk2gw promises of the diskette; `DiskWrite` implements it |
| `TrackWriterProofs` | what follows from that promise, proved |
| `MCDiskWrite` | instance of `DiskWrite` |
| `TrackDecoder` | the byte level of the flux decoder: marks, counters, IDAM table, errors |
| `BitDecoder` | the bit level on top of it: pulses, half-cells, alignment, bytes |
| `DmkMerge` | `merge_sectors()` |
| `TrackPasses` | the passes of `read_track()` over one noisy track: `TrackDecoder` and `DmkMerge` composed |
| `TrackPassesProofs` | errors, flags, pointers and types of decoder and merge, proved |
| `TrackEncoder` | `dmk2pulses()` |
| `FluxCodec` | flux streams: `encode_ticks()`, `gw_decode_stream()`, and the simulator's side |
| `FluxCodecProofs` | what one side writes for a pulse is what the other side reads, for every number of ticks, proved |
| `RoundTrip` | an image to the medium and back to an image: `TrackEncoder`, `FluxCodec`, `BitDecoder` and `Crc16` composed |
| `ReplayLog` | how `gw.c` writes the log of `-U`, and the parser of `gwreplay.c` |
| `Replay` | a capture, its log, and the responder that replays it |
| `ReplayProofs` | the parser and the responder for every log, proved |
| `ReplayStreams` | what the parser makes of every session and every end of it, and with which statuses, proved |
| `Induction` | induction and definition by recursion over the natural numbers, for sets |
| `SecSize`, `Crc16` | `secsize()`, `calc_crc1()` |
| `MCTrackPasses`, `MCRoundTrip`, `MCReplay` | instances |

### DiskRead

`pc` is the point reached in `gw2dmk()` / `read_track()` / the end of `main()`;
each action is the code from one such point to the next.

| action | code |
| --- | --- |
| `Restart` | label `restart:`, `dmk_file_init()`, start of the loops |
| `EndOfReplay`, `NoMorePasses` | `gw_replay_flux_avail()` says there is no stream |
| `Seek`, `SeekFails` | seek and head select, the fatal error |
| `ReadFlux`, `ReadFails` | capture, decode and merge one pass; the early returns |
| `OneSideOnly`, `ChangeSteps`, `Examine` | side 1 incompatible or missing; step guess wrong; neither, or past the last track |
| `Judge`, `MenuQuit`, `MenuContinue`, `Resume`, `Again`, `ReturnTrack` | `failing`, the menu's answers, the motor, the next pass or the return |
| `NextTrack`, `LeaveLoop` | the two loops |
| `SaveImage`, `SaveFails`, `StopDrive` | the end of `main()` |
| `RequestMenu`, `RequestExit`, `ResetAndDie`, `Die` | `handler()` and default actions |

Data abstracted: one pass yields the number of good sectors, whether errors
remain, and the cylinder and size of the last sector ID; noise may change each
of them, up to `MaxNoise` times.  The merge yields any result its code allows
for.  The image holds, for every track and side stored, the head position and
those results.  The disk in the drive decides what can be read where; in a
drive of double density, positions between the tracks of a double-spaced disk
read nothing (gwsim reads the neighbouring track there, real drives rarely
do).  A history variable counts restarts.

### GwSim, DiskWrite, TrackWriter

The line is two queues of bytes.  `GwSim` takes one byte at a time off
`toDevice`, collects commands (`Collect`, `BadFrame`), acts on the byte that
completes one (`Do...`), or collects a write stream (`StreamData`, `WriteDone`).
A flux underflow, which the simulator has not but the host handles, is the
action `WriteUnderrun`.

In `DiskWrite` a command is `Send` (the `write()`) and one action per point of
the program, which looks at the answer (the `read()`): `Returns(point)` and
`Result` are `gw_do_command()`.  A stream is accepted byte by byte as long as
the line has room (`Accept`), followed by `WriteReturns`, `Sync`, the status and
`Retry`, `TrackWritten` or `TrackFailed`.  SIGINT is held off inside `read()` and
`write()`; other signals may end such a call with EINTR, as Linux does: a
`write()` looks at signals before it begins, a `read()` when there is nothing to
read.  `NewRun` starts another program on the device as the last one left it.

`TrackWriter` is the promise: tracks are written one after the other, only the
place being written changes, and a track counts as written only when the
diskette holds it.  `WritesTracks` says that `DiskWrite` implements it, `told`
being what dmk2gw's progress lets the user conclude.

Assumed: `-d` names the drive; step and settle delays have their defaults, so
SET_PARAMS and GET_PARAMS are never sent; the image fits the drive, the drive
has two heads and is not an 8-inch drive that always turns; the diskette has
the drive's own track spacing.  A track's stream is two bytes and the end mark,
the answer to GET_INFO has one byte of payload instead of 32.  The handlers of
commands read `cbuf[2]` and `cbuf[3]` without looking at the length of the
frame; `Argument(i)` is any byte where a frame is too short for that.

### TrackDecoder, DmkMerge, TrackPasses

A decoder is a record with the fields of `struct fdecoder` and
`struct dmk_track_sm` (`ibyte`, `dbyte`, `ebyte`, `awaiting_dam`, `valid_id`,
`errcount`, the IDAM table, the track's data, ...), and `DecodeByte` is what the
second half of `gwflux_decode_bit()` does with one byte: the cases of its switch
on marks, then `IdByte`, `Counted`, `DataEnd`, `ExtraEnd` in the order of the
code.  Settings are a record `o`.  CRCs are parameters, so that the two modules
that use the decoder can choose how much of them they need.

`DmkMerge` is `merge_sectors()` as a function of both tracks and their statistics:
`MergeSector` for the body of its loop, with preambles, lengths and the test for
room, `Better` and `KeepsMerged` for the choice at its end.

In `TrackPasses` the track is a ring of cells, each a byte with the mark that the
bit level would report.  An action reads one cell as it is (`ReadCell`), as
something else (`NoisyCell`) or not at all (`LostCell`, after which CRCs are
wrong); `Index` is the hole; `EndPass` merges; `Failing`, `Retry` and `Accept` are
the end of the loop of `read_track()`.  A CRC is "open" while bytes are as
they were written, "zero" at the end of such a field and "bad" after damage, so
a damaged field is never taken for a good one by chance.  `Hdr`, `Gap1Plus`,
`WrapMin`, sector sizes and the number of IDAMs are parameters and small in the
run.  The field `cut` of an entry is history: it says that a mark or the end of
the pass came inside the sector.

### TrackEncoder, FluxCodec, BitDecoder, RoundTrip

`TrackEncoder` has the two loops of `dmk2pulses()`: `CleanByte` classifies a byte and
changes those before it, `EncodeByte` turns a byte into half-cells and those into
ticks, with precompensation and RX02's transform; `FillByte` and `FillEnd` are the
switch on `fill`.  `BitDecoder` is the first half of `gwflux_decode_bit()`, half-cell
by half-cell, with accumulators of 64 half-cells, and `gwflux_decode_pulse()` with
thresholds in whole ticks (`adj` is twice `thresh_adj`, postcompensation being
one half).

`RoundTrip` goes through both legs, one action for each loop's turn:

| `pc` | action | code |
| --- | --- | --- |
| clean, encode, fill | `Clean`, `Encode`, `Fill`, `FillEnds` | `dmk2pulses()`, called by `write_track()` and then by the simulator; each pulse goes through `encode_ticks()` and `wrstream_pulses()` on the first leg |
| store | `StorePulse`, `StoreEnds` | `dmk_track_from_pulses()` |
| spin, skip, walk | `Spin`, `Skip`, `Walk` | `sim_flux_stream()` from an angle on |
| send | `Receive` | the loop of `gw_read_stream()`, the stream coming in chunks |
| decode | `DecodeStream`, `DecodeEnds` | `gw_decode_stream()` with gw2dmk's callbacks, `gw_decode_flush()` |

Data are bytes and CRCs are CRC-16; sectors are short because the size of a
sector of size code 0 is a parameter (`Sec128`).  Ticks are integers: the
multiplier, precompensation and thresholds are given as whole ticks, so
rounding of floating point is left out.  The index pulse ends a written
revolution where the stream ends; drift between drives is the multiplier
of the second leg.

### ReplayLog, Replay

A line of the log is its kind (`->`, `<-`, continuation, anything else) and its
bytes; `Dump` is `db_dump()`.  `TakeLine`, `HostFrame` and `ResolvePending` are
the parser's functions of those names on a record that holds `struct parse_state`
and the queues of streams.  `Replay` runs a capture against a device: the
commands of a visit to a track, the reads of a stream in whatever portions, the
dumps; seeks and reads may be refused, a read may be without index, overflow or
break off, a line of junk may get in, and the program may be killed with any
part of a transfer written.  The parser takes the lines as they are written,
which is the same as later, since it never looks ahead.  Then `Start` and
`Visit` replay it: `Dispatch` is `dispatch()` with its queue of answers, on the
responder's state and the streams the parser left.

## 3. Runs

| run | question | bounds |
| --- | --- | --- |
| `disk_geometry` | is a clean disk recovered with its own geometry, and a cut-off log with as much as it has? | real track counts 35, 40, 77, 80, one and two sides, both spacings, heads that stop at 39, 79 or 82; logs of 6 and 41 tracks, one or two passes; no noise |
| `disk_control` | do retries, noise, menu, guesses and signals leave one consistent image? | one or two tracks asked for, 2 noisy passes, retry limits 0 and 1, SIGINT and SIGTERM at every point |
| `disk_faults` | does the program end, in order, when operations fail? | two tracks, 1 noisy pass, any operation may fail, SIGTERM |
| `write_protocol` | do dmk2gw and the device stay in step, and does the diskette hold what is reported? | two tracks of one side, three positions, 2 retries, 2 bytes on the line, INT and TERM at every point, two programs, no diskette, a writable one, a protected one |
| `track_passes` | are the errors of a track found, counted, flagged and repaired as they should? | five tracks of one or two sectors: MFM, FM doubled in the image with three passes, not cued by the hole from four angles, with an index mark at a given place and an extra CRC, RX02; two IDAMs in the table; one damaged or lost byte in each pass, which may become a mark |
| `round_trip` | does a track survive being written and read? | sixteen tracks: every encoding and mixtures, single-density images, index marks moved to a place, every fill, no hole from eight angles, a medium 7 % fast or slow, quirks; chunks of 1 and 7 bytes |
| `replay` | is a replay what was captured, whatever befell the capture? | two tracks that share neither cylinder nor head, three visits captured and three replayed, three bytes on a line |

`track_passes`: two IDAMs fill the table with a third mark made by noise.  One
byte of a pass is damaged because two may make the code accept a wrong sector
(below).  Bytes damaged become a gap byte, an ID mark or a data mark: all other
values are treated like the first.  Sectors of one data byte (two with RX02)
pass through every value of the counters `dbyte` and `ebyte` and the end of a
field, and two passes reach each outcome of the merge, three the reuse of what
was itself reused.  A track is as long as the longest, as it is while gw2dmk reads
(`-l` is applied when the scan is over), and that is enough for every case to fit
its buffer (`FitsBuffer`).  `round_trip`: a sector is as short as its parameter, but its
marks, gaps and CRC have their real lengths, and two sectors show the gap
between.  `Gap1Plus` is 24 instead of 48 so that it fits such a track.
`replay`: a line of three bytes cuts frames and streams as sixteen do; three
visits leave two streams at a track with another between.

`write_protocol` needs two tracks to see one kept while another is written, a
spare position to see it untouched, and reversed sides to tell a side from a
head.  `MaxRetries = 2` stands for 5: a retry after a retry is in it.  A line
that holds 2 bytes makes `write()` block within a stream; a command is put on it
whole.
The track counts of `disk_control` are small because the geometry rules of
guessed counts are the subject of `disk_geometry`; its tracks 0 to 3 are where
guesses are revised.

`CHECK_DEADLOCK FALSE` everywhere: the programs and the conversions stop, and hosts and devices may
wait for each other as described below.

Four runs of `DiskRead` and one of `DiskWrite` show where code and
documentation differ:

* `disk_alternate` - `-a 2` and `-a 3` are kept in a `bool`, so retries never
  use the other head position.
* `disk_menu_retry` - raising the retry limit in the error menu does not make
  gw2dmk read the track again: the decision was taken with the old limit.
* `disk_killed` - the second SIGTERM meets the default action and leaves the
  drive spinning.
* `disk_replay_steps` - replaying a capture made with double steps ends with no
  tracks: `restart:` does not give back streams that have been used.
* `write_signal` - one SIGTERM in the answer to WRITE_FLUX and the commands
  that stop the drive are taken for flux; dmk2gw says "Done!" with the drive
  spinning and a track overwritten.

`write_protocol` has a protected diskette and meets a document that is wrong about
it: dmk2gw ends with a fatal error ("Disk is write-protected.", `dmk2gw.c:695`)
at the first track, which is not reported, while `sim/simarchanddesign.txt:424`
and `sim/tests/run-tests.sh:115` say that it ignores that answer, its error
checking being a stub, and that no exit with an error is to be expected.  If it did
ignore it and went on to the next track, `WritesTracks` would fail.

Also met while modelling, without a run: the compatibility check may look at
the size code of a damaged sector ID; a guessed end of the disk can drop a
track that was read well because its cylinder number repeats; a program that
starts after one killed inside a stream waits for ever for the answer to its
reset (`Termination` allows exactly that); an error found by the last check of
`gw_post_process_track()` does not reach the statistics that decide on a retry.

Met in the decoder and merge (`gwdecode.c`, `dmkmerge.c`), where properties leave
room for it:

* A sector that the track's end has cut off is neither flagged nor counted in the
  image: `gw_post_process_track()` runs after the merge has copied the track,
  and `dbyte` is never there what line 1077 tests for, since
  `check_missing_dam()` has just reset it.  Incomplete IDs it takes back stay in
  the image, and a later pass can reuse such a sector and be reported without
  errors.  An ID that another mark interrupts is not flagged either.
  `SectorsAsWritten` and `ReportedGood` leave these out by the history `cut`.
* With `--nojoin` nothing is flagged at all, so the flags do not tell which
  sectors are good: the lower bound of `ReportedGood` is for `join` only.
* Nothing limits the wait for a data mark: if a data mark and the next ID's mark
  are lost in one pass, the next sector's data count as the first one's.
* With `EXTRA_CRC` a sector counts as good before its extra CRC is seen;
  `ReportedGood` leaves that quirk out.
* `check_missing_dam()` counts a second error for a sector already flagged,
  "unexpected DAM" and "too many IDAMs" count one with no flag, and wraparound
  takes back a flagged ID and leaves its error: `FlagsAreErrors` is an
  inequality for these reasons.
* The comment on marks read backward (line 545) stands at the case of A1; the
  code looks for them behind C2 (line 783).
* `dmk_full` is never set when the buffer is full (the test at `gwdecode.c:183` is
  switched off), so a sector that reaches beyond the end of the track's buffer
  counts as good although its bytes are not stored.  `SectorsAsWritten` is checked
  for tracks that fit; `TableInOrder` makes an exception of marks at the last byte,
  which all get the same pointer.  A merge looks no further than the first ID in the
  last ten bytes of the longest track, and drops a sector counted there;
  `ReportedGood` is checked on tracks that fit, and proved for them and for
  tracks without such an ID (`IdsFit`).
* A pass of which nothing was read has no errors, and any later pass replaces it:
  `ErrorsNeverRise` speaks of tracks that have data.
* The last sector reused from the merged track is `Hdr` bytes too long, since its
  `track_len` counts the table and the working track's does not (`dmkmerge.c:163`).

In the encoder and the simulator:

* `encode_ticks()` puts no 0xFF before `FLUXOP_ASTABLE`, which
  `greaseweazle.h:107` requires: the erased rest of a track (fill 1) is
  written as a space and five short pulses.  `RoundTrip` has it so.
* `write_track()` calls `encode_bit_init()`, which sets precompensation to 140 ns
  and dithering off; `--precomp` and `--dither` have no effect.
* The size code of an RX02 sector and of those after it is read four bytes behind
  the mark whether or not bytes are doubled (`dmkx.c:475`): in FM that is
  the head byte, wrong for RX02 on side 1.
* The fill with gap bytes leaves before `emit_final_pulse()` (line 705).
* A written track's lead-in is cut or extended to 48 bytes by the simulator, so
  an index mark farther from the first ID is lost.
* gw2dmk without the hole recognises the second copy of the first ID only if it
  is within its track length.
* Gaps between FM and MFM sectors, and behind RX02 data, do not survive byte by
  byte; `GapsSurvive` is about tracks of one encoding without RX02.

In the replay:

* A read without index stores no stream, so its status goes to the stream stored
  before it, and on replay an earlier good read fails: `StatusKept` says
  exactly that much.
* A read that failed midway is replayed as a shorter one that succeeds (with a
  warning), and a log cut between a stream and its status loses a bad status
  without one.

### Fairness

`FairSpec` of `DiskRead` has `WF(Reader)`: the process is scheduled and the user
answers the menu.  `FairSpec` of `DiskWrite` has `WF(Host)` and `WF(Device)`: both
ends keep running, each step of the host being one system call that returns
when it can.  Nothing is assumed of signals, noise, faults, underruns or of the
next program.  Signals cannot keep a program from ending because the first one
sets a flag and the second one kills.

## 4. Proofs

Every theorem is of a specification with its constants free, under the named
assumptions of its modules (types of the constants, and for `DiskWrite` that the
image fits the drive); further hypotheses are in the tables.  TLC checked the
inductive invariants on the instances before they were proved.

### DiskRead

`DiskReadProofs`, for every set of disks, logs, options and signals and all
bounds:

| theorem | property | inductive invariant |
| --- | --- | --- |
| `TypeCorrect` | `TypeOK` | itself, `DataTypes` and `FlagTypes` apart: no one prover handles both arithmetic and Boolean variables |
| `RestartsBounded` | `RestartBound` | `StepsInv`: after one restart only the guess from single to double steps, or none, is left; after two, none |
| `ImageHasOneGeometry` | `OneGeometry` | `GeometryInv`: also a position sought belongs to the current track, because the capture stores it later |
| `HeaderSidesAgree` | `SidesAgree` | `SidesInv`: the side count is only lowered on track 0, before anything else has a side 1 |
| `ScanComplete` | `NoTrackSkipped` | `ScanInv`: which sides of the current track are stored at each point, and that a retry has something to keep |
| `ReadsOnTurningDisk` | `MotorRunsForReads` | `MotorInv`: at which points the motor turns; only the menu stops it inside the scan |
| `AnnouncedTracksRead` | `ImageEndsWithData` | `EndInv`: inside the scan the header announces what is still to be read, so the end of the scan has to bring it down to what was; needs `SidesInv` and `ScanInv` |
| `UsualDiskRecovered` | `GeometryRecovered` | `RecoverInv`, below |
| `ExitEndsScan` | `ExitStopsScan` | type correctness alone: an action property |

All but `UsualDiskRecovered` hold because no step depends on how many tracks or
passes there are.
`ReadsOnTurningDisk` and `AnnouncedTracksRead` assume `~Faults`, as the run
`disk_control` has it: the program looks at the answers to its motor
commands only to report them, so a motor that does not start is beyond it.

`UsualDiskRecovered` assumes `~Faults` and `MaxNoise = 0`, a command line that leaves
sides, stepping and tracks open (`AllGuessed`), and a `UsualDisk`: readable, of 35 or
at least 40 cylinders, all within reach of the heads, and no more than 44 when
they lie two positions apart.  Other track counts are not recovered: `read_track()`
looks for the end only there.  The run `disk_geometry` reaches such disks and
settings.  `RecoverInv` has a part for each of the guesses and what they rest on:

* `StepGuessInv`: a wrong multiplier lasts until side 0 of track 1, which is
  blank or has the number 2 (`WrongTrack`); and the guess is closed by track 3, before
  the end of the disk could be taken for a wrong multiplier.
* `SideGuessInv`: a second side that is absent or not compatible lasts until it is
  read on track 0, while side 0's sector size is at hand.
* `PlaceInv`: the scan looks at one track after the last, and `prev_cyl` is then the
  cylinder before.  That track is blank or the heads have stopped at the last one
  (`PastTheEnd`), so the test for the end fires there, and on no earlier track
  (`EndFound`).
* `PassInv`, `WholeInv`: what is in the image is what a clean pass over the right
  position gives; `CalmInv`: what a restart must not change.

The steps that only move on within the retry loop or save the image share one
lemma (`QuietStep`).

### DiskWrite and TrackWriter

`DiskWriteProofs`, for every image, drive, number of retries and length of the line:

| theorem | property | inductive invariant |
| --- | --- | --- |
| `TypeCorrect` | `TypeOK` | `DataInv`, `FlagInv`; with the device's `FrameInv` (an incomplete frame is shorter than its length byte says, so its buffer cannot overflow) and `LoopInv` (no position is sought that is not in the image); any number of programs |
| `StaysInStep` | `InStep` | `Invariant`, below |
| `NeedsMedia` | `NoWriteWithoutMedia`, for the first program | `MediaInv` of it: without a diskette the program never gets past the measurement of its speed |
| `WritesAsPromised` | `WritesTracks`, with `MaxRuns <= 1` | `Invariant`; step by step: each action of host and device is one of `TrackWriter`'s or a stutter |
| `TrackWriterProofs!WrittenTracksKept` | `Kept` of `TrackWriter` | `KeptInv`: with the domain of the diskette |

`Invariant` is `DataInv /\ FlagInv /\ SignalInv /\ FirstRunInv`.  Its core is
`SessionInv`, which says for each point of the host what is on the line in both
directions and what state the device is in, through every byte of a command, an
answer and a stream (`Together`, `Known`); or that a signal has broken a call off
and exactly one answer is late (`Behind`), which every command after it shifts
by one; or that the program was killed.  In the last two cases nothing would be
known about the diskette, were it not for `LineSafe`: whatever lies on the line,
neither the bytes of a stream nor those of a command cut off can start a write
on a track that the host has not begun.  `ProgressInv` ties `told` to the loop
over tracks.

With `WritesAsPromised`, `WrittenTracksKept` is a theorem about the program: a
track reported as written is on the diskette, and a place no track was sent to
is unchanged.

### TrackPasses

`TrackPassesProofs`, for every ring of cells, every setting and every noise, any
number of bytes damaged:

| theorem | property |
| --- | --- |
| `TypeCorrect` | `TypeOK` |
| `FlagsCounted` | `FlagsAreErrors` |
| `PointersIncrease` | `TableInOrder` |
| `PassesOnlyHelp` | `ErrorsNeverRise` |
| `GoodReported` | `ReportedGood`, as long as no ID is in the last ten bytes of the longest track (`IdsFit`) |
| `FittingTracksReported` | `ReportedGood` for every track that a pass stores in full with ten bytes to spare (`FitsBuffer`), as it does one turn of a double-density track from the hole |

One invariant carries the first four, `PassInvHolds`: `DecoderInv` of the pass under
way and `TrackInv` of the track merged so far, and that the errors of both cover
their flags.  `DecoderInv` adds to the properties what makes them inductive:
the pointers stay within the length stored, an ID whose bytes are being read has
an entry in the table, and the first mark of a pass finds the table empty; every
step that flags an entry counts an error with it.  The lemmas follow `DecodeByte` case by case:
marks, `IdByte`, `Counted`, `DataEnd`, `ExtraEnd`.  For the merge, `MergedSectorsInv`
goes by induction over the sectors of the working track: at each one the bytes
merged so far are those its pointer says, the pointers increase, and the errors
left are at least the flags in the result.  A recursive function says this only
through `RecursionExists` of `Induction`: the library's theorems take an operator
for the induction hypothesis, which no backend can instantiate, so `Induction`
has them for sets.

`CountInv` is the invariant of the last two.  The decoder counts a sector long after it
has entered it in the table, so the invariant says which entries the count is about
(`Tally`): all of them, or all but the last as long as its ID is being read, its data
mark awaited or its data read (`GoodInv`); and that `valid_id` then agrees with the
flag of that entry, or a sector with a bad ID could come to be counted.
`WorkingTally` takes the count to the table in which the end of the pass has cut the
last sector off.  For the merge, `MergedCount` goes by induction over the sectors once
more (`MergeCount`): the good sectors of the result are those of the track just read
and those reused, unless the buffer overflowed; and `MergeTally` says it of the
track that is kept, whichever it is.

`RoomInv` gives `FittingTracksReported` its `IdsFit`: the bytes stored, and those that the
rest of the pass can still store (`ToCome`), fit the buffer together.  `dmk_data()`
stores one byte or two, and the byte of a premark that turns out to mark nothing
goes through it twice (`DecodeByteBytes`).  So a marked cell weighs two (`Weight`), and
each cell still to be damaged adds one, because it may become such a mark.

### Replay

`ReplayProofs` and `ReplayStreams`, for every number of visits, every device, every
portion in which streams are read, and every place where the capture is cut off:

| theorem | property |
| --- | --- |
| `ReplayProofs!TypeCorrect` | `TypeOK` |
| `RepliesInStep` | `InStep` |
| `ReplaysRecorded` | `ReplaysCapture` |
| `ReplayStreams!PlacedAsRead` | `StreamsInPlace` |
| `LossIsWarned` | `LossWarned` |
| `StatusAsGiven` | `StatusKept` |

`ReplayInvHolds` is the invariant of the first three, in three parts.  `DeviceInv`: what the program
transfers, and so what gets into the log, is a well-formed frame, and a command
that moves the head has its argument.  `LogInv`: after any number of lines, cut
anywhere, the parser's state is one from which it can go on (`ParseInv`), a frame
under way is a prefix of one of the host's, and each stream stored ends with its
only zero; by induction over the lines of a dump (`DumpIs`, `LinesTaken`,
`BrokenLog`).  `ServeInv`: between visits the responder has nothing queued, and
for each position it has used up as many streams as there were visits, or all
there are.

`PlacesInvHolds` is that of the next two.  It has to compare the log with the
session, and the log is behind: a transfer is on the line before it is dumped,
and a command counts for the parser only when the next line shows that it is
complete.  So it speaks of `Seen`, the parser as it will be once what is
outstanding is written, and `LogWritten` shows that dumping it in lines leads
there; `LogBroken` says what a dump broken off anywhere leads to.
`Situation` says for each point of the program how `Seen`, the history of reads and
the bytes on the line go together:

* `Going`: all streams so far are stored where they were read (`Good`), or all but
  the last and what has come of that one is the pending answer (`Reading`).  The
  parser goes by the commands and not by their answers, so the head's real place
  matters only from a seek that was accepted on, and the invariant has to show
  that no read is accepted between a refused seek and the next one.
* `Astray`: after a read that broke off, the rest of its stream is still on the
  line (`Stray`).  Then `StrayAnswer` says that no seek can succeed any more: its
  answer would be bytes of the stream, or the end of another answer.
* `Clean`: as long as nothing was lost, the parser has not warned, and would not
  with all the line's bytes read.

`StatusInvHolds` adds what the last one needs.  A stream's status is not decided
when it is stored: it is what the device said last before another stream came, so
the invariant has to say of every stream, and not of the last only, which status
it is to have by now (`Own`, `Given`).  The log is behind here too, by a status
that the host has read and not yet dumped, so the log is compared with `SeenReads`,
the reads with that status.  The parts of `StatusInv`:

* `Knows`: what the parser has stored, with the answer that is pending, has the
  statuses given so far; and as long as every read was whole, the stream that the
  next status would mark is that of the last read that gave flux (`LastFlux`).
* `Open`: while a stream is being read it has no status, and those before it have
  theirs.
* `Marking`: which answer is awaited where, so that nothing but the answer to
  GET_FLUX_STATUS is taken for one.
* `Unfinished`: a transfer of which the log has only the first bytes takes no
  status away.  A dump is cut before its last byte at the latest, and the answer
  with a status has two: so a status is either stored or was not dumped.

`RoomAssumption` is used in both: a command fits in the parser's room.  So is that no
byte of the model's flux is CMD_SEEK or CMD_GET_FLUX_STATUS: in the code the rest of
a broken stream may happen to read as the answer to an accepted seek or as a status,
and what follows that is not modelled.

### FluxCodec

`FluxCodecProofs` is about the codes one by one, for every number of ticks from 1 to
2^28 - 1, every state of the reader and whatever follows in the buffer:

| theorem | what it says |
| --- | --- |
| `PulsesDecoded` | the code of a pulse, or its space and code, have no byte 0, which would end the stream; `gw_decode_stream()` takes them to the byte and reads one pulse that many ticks after where the stream stood |
| `IndexDecoded` | an index mark is read as many ticks ahead as it was written, and moves nothing |
| `CutCodeWaits` | a code cut off by the end of the buffer, anywhere, is not taken before the rest is there |
| `PulsesWritten` | what `encode_ticks()` writes below the threshold for areas without flux makes `wrstream_pulses()` strike once, exactly there |

They rest on `Written28`: `gw_read_28()` gives back what `gw_write_28()` wrote, whose
bytes are odd; and on `EncodersAgree`: `encode_ticks()` and the simulator's `sbuf_pulse()`
have the same three forms.  `StreamExact` checks on the run `round_trip` what the theorems
leave to it: that codes follow one another through whole tracks and chunks.

### Only model-checked

* Liveness (`Termination`, `EndStopsDrive`).
* `DiskWrite` with a second program on a device that the first one left in the
  middle of something: `InStep` speaks of the first program, `NoWriteWithoutMedia`
  and `WritesTracks` are checked with two.
* `SectorsAsWritten`: it says what every byte of a sector is through every merge, and
  needs a bound on the track's length (section 3).
* `RoundTrip`: `Crc16` needs `Bitwise`, which a module with theorems cannot use, and
  what its folds compute over bytes and half-cells is bound to concrete encodings.
  Of the streams it sends, each code is proved (above), the fold over them is not.

## 5. Not modelled

* gwhist, histograms and media thresholds: floating point, one pass over numbers.
* Drive detection and device scan: commands one after the other, whose exchange
  `DiskWrite` models; what they settle on is the hardware's answers.
* Option, configuration and track-list parsing, loading and saving of DMK files,
  messages: sequential, and within the reach of unit tests.  Rotating a track to
  its hole never moves a byte as gw2dmk uses it.
* In the simulator: starting up, the control socket, flux images, noise and the
  clock.
* Dithering (never on), statistics per encoding, logging, Windows variants.

## 6. Plan

Done: (1) `DiskRead` and its proofs; (2) `GwSim`, `DiskWrite`, `TrackWriter`;
(3) `TrackDecoder`, `DmkMerge`, `TrackPasses`; (4) `ReplayLog`, `Replay`;
(5) `SecSize`, `FluxCodec`, `TrackEncoder`, `BitDecoder`, `RoundTrip`.

Planned before and left out: the simulator's control socket, drive detection,
track lists and DMK files.  They have few states of their own, and each would
need a run that asks less than those there are.

Proved: (1) all safety properties of `DiskRead`;
(2) `DiskWrite`'s types, and for one program its step with the device and its
refinement of `TrackWriter`; (3) errors, flags, pointers and good sectors of
decoder and merge; (4) all properties of `Replay`; (5) the codes of `FluxCodec`.

Proof to add: `DiskWrite`'s `NoWriteWithoutMedia` for every program, `WritesTracks`
after one that was killed, which need what a device may still hold when the next
one starts.
