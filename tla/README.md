# UnifiedFloppyTool: TLA+ models

UnifiedFloppyTool reads, writes, analyses and converts floppy disk images and
drives floppy controllers such as the Greaseweazle.  It is a C library under a
Qt program.  Most of its bytes are sequential parsers of file formats.  Its own
logic that is hard to test lies elsewhere: transactions over a disk image,
recovery snapshots, the gate in front of a destructive write, worker threads
and the message box they end in, and jobs that talk to a drive which may fail,
be cancelled or be unplugged between any two calls.  That is what is modelled
here.

All paths below are relative to the directory that holds the repository's own
`src/`, so `src/src/core/x.c` is the repository's `src/core/x.c`.

## 1. Inventory

### 1.1 Modelled components

**Disk transaction** (`src/src/core/uft_disk_transaction.c`).  State: the mode, a
list of pending writes, `committed`, `aborted` and the backup's path (`struct
uft_transaction`); the image on disk and its `.uftbak`.  Operations: begin (which
makes the backup), write_track, commit, rollback, free, status.  It calls the
format plugin's `write_track` and stdio.  Hard: a commit that fails
between two tracks, a write torn inside a track, a retry after a failure, a
backup that could not be copied, a crash at any step, a free that removes the
backup.  Correct when: a commit that returns OK has written exactly what was
staged; nothing else ever changes; after a failure the original can be had back.

**Recovery snapshots** (`src/src/core/uft_snapshot.c`).  State: files of one
directory named by a millisecond, the handle of each user.  Operations: create
from memory or from a file, verify, restore to a file or to a buffer, delete,
free.  Hard: two users of one directory, failures between the file operations of
one call, errors that only show when a file is closed, media that store something
else than was written.  Correct when: a snapshot that is held and verified is
whole; a restore that returns success is exact; nobody overwrites a file without
a snapshot to go back to.

**Write gate** (`src/src/policy/uft_write_gate.c`).  State: policy, image,
diagnostics, result.  Operations: precheck without and with diagnostics (format,
drive, snapshot, in that order, with early returns), can_override and
apply_override.  It calls the snapshots.
Hard: an override that is offered for one check and lifts another; policies that
are combined in ways no test uses; a snapshot that disappears while the caller
writes.  Correct when: no check has failed behind an OK, an override is given only
where the policy offers one, and what is written over has been saved.

**Workflow tab, threads and provider** (`src/src/workflowtab.cpp`,
`mainwindow.cpp`, `hardwaretab.cpp`).  State: `m_isRunning`, three job pointers,
`m_workerThread`, the provider pointer the hardware tab owns and the workflow tab
borrows.  Operations: start, abort, the slots connected to the workers' signals,
connect and disconnect.  Hard: signals queued for the GUI thread arrive after the
tab has moved on; a message box runs a nested event loop; `deleteLater`; the
provider is destroyed while a worker is inside it.  Correct when: the abort
button reaches the worker that runs, one thread at a time uses the device, no
destroyed provider is used, the tab comes back.

**Greaseweazle protocol** (`src/src/hal/uft_greaseweazle_full.c` below the
operations of `src/src/hardware_providers/greaseweazle_provider_v2.cpp`).  State:
the bytes on the serial line, what has been set up on the device, the head the
library believes in, the drive itself.  Operations: read, write and seek, each a
sequence of commands.  Hard: the host stops waiting before a slow device answers,
and what it reads next belongs to an earlier command; retries after an overflow;
results that are dropped.  Correct when: a good read is of the track asked for, a
write goes only there, done is done, each operation ends.

**Decode job** (`src/src/decodejob.cpp`).  State: its counts, the source and the
destination file, the cancel flag.  Operations: load, verify the sectors, copy
chunk by chunk.  Hard: a cancel between any two checks, errors in the middle of
the copy, an aborted job that is still at work when the next one starts, a
destination that is the source.  Correct when: what it reports at its end is
true of the files, and it ends.

**Conversion and preflight** (`src/src/formats/uft_format_convert_dispatch.c`,
`src/src/core/uft_preflight.c`, `src/src/core/uft_roundtrip.c`).  State: files
and the loss reports beside them.  Operation: `uft_convert_file`.  Hard: chains
of conversions, each of which is allowed by itself; failures and kills between
the target and its report; a report that outlives the file it was about.  Correct
when: no chain makes up flux, and a report tells the loss of the file it is beside.

**Flux write job** (`src/src/fluxwritejob.cpp`).  State: the track loop, counters,
cancel flag, the disk, the motor.  Hard: failure, cancel or unplugging at any
step; what is left on the disk.  Correct when: "finished" is only said when each
track was written or counted as skipped, nothing is written after a torn track,
a cancel is obeyed within a track, the motor is not left on, the job ends.

**Flux capture job** (`src/src/fluxcapturejob.cpp`, the decoders in
`src/src/hal/uft_greaseweazle_full.c`, the conversion in
`src/src/hardware_providers/greaseweazle_provider_v2.cpp`).  State: loops over
cylinders and sides, errors, the SCP writer, the output file; for one track, the
flux stream, its index times, the revolutions it is cut into.  Hard: the same
faults, partial results, and the arithmetic of ticks, nanoseconds and 32 bit
words between three layers.  Correct when: every revolution missing from the
file is counted, a stopped capture leaves the old file alone, no flux is lost or
doubled between two index pulses.

**SCP writer and its reader** (`src/src/formats/scp/uft_scp_writer.c`,
`uft_scp_plugin.c`).  State: revolutions added, and a track's headers and words in
the file.  Hard: intervals longer than a word, lengths and offsets that have to
agree between two files of code.  Correct when: what is read is what was captured.

### 1.2 Components not modelled

| component | why |
|---|---|
| Batch wizard | unfinished: its list simulates the work by a timer, and nothing opens the dialog.  Its worker calls `uft_convert_file`, which is modelled. |
| Batch, stream, verify and convert over a disk handle | sequential loops with callbacks on one thread, no state outlives a call, no job calls them.  Section 6 lists where they do other than they say. |
| Provenance chain | append-only list on one thread; that a changed entry is found holds by definition once a hash has no collisions. |
| Recovery and fusion | voting and repair, pure functions of their inputs. |
| Format registry and detection | scores over byte signatures; a constant of `WriteGate`. |
| Format parsers and writers | 138 formats; correctness is in byte layouts, which a model would repeat. |
| File systems | single-threaded directory and allocation structures; the same. |
| PLL, flux and bit decoding | real-valued numerical algorithms: out of TLC's reach. |
| Copy protection analysis | classification heuristics without state. |
| Other providers, unified HAL | other device protocols behind the same outcome types; tables and dispatch.  No job uses them yet. |
| Sessions, settings, logging, intermediate representation | data containers and wording. |
| GUI panels, command line | widgets and one sequential call of the library. |
| Vendored code | samdisk, switch, fdc_bitstream: third-party. |

### 1.3 How the modelled parts interact

    WorkflowTab --starts--> FluxCaptureJob --> provider --> Greaseweazle HAL
        |   ^               FluxWriteJob   --> provider --> Greaseweazle HAL
        |   |               DecodeJob
        |   +-- queued signals (progress, finished, error) from the worker threads
        +-- borrows the provider that HardwareTab owns; MainWindow forwards it

    caller --> WriteGate --> Snapshot            (before a write to a target)
    caller --> DiskTransaction --> format plugin (the write itself)
    FluxCaptureJob --> index split --> SCP writer --> file --> SCP plugin
    command line, converter wizard --> uft_convert_file --> preflight, loss report

No caller in the tree runs the gate in front of a transaction, so they are
modelled side by side and only WriteGate is composed with Snapshot.

## 2. Modules

| module | models | refers to |
|---|---|---|
| `AtomicImage` | abstract: an image whose staged tracks change all at once | - |
| `DiskTransaction` | the transaction, plugin and backup file | implements `AtomicImage` |
| `DiskTransactionProofs` | theorems about it | `DiskTransaction` |
| `Snapshot` | snapshots, several users of one directory | - |
| `WriteGate` | the gate over a snapshot directory | extends `Snapshot` |
| `MCWriteGate` | images and policies for TLC | `WriteGate` |
| `WriteGateProofs` | theorems about `Snapshot` and about the gate, among them that it implements `Snapshot` | `WriteGate` |
| `Workflow` | GUI thread, workers, event loops, provider | - |
| `WorkflowProofs` | theorems about it | `Workflow` |
| `GwProtocol` | host and device on one serial line | - |
| `MCGwProtocol` | two tracks for TLC | `GwProtocol` |
| `GwProtocolProofs` | theorems about it | `GwProtocol` |
| `DecodeJob` | the decode job and its files | - |
| `DecodeJobProofs` | theorems about it | `DecodeJob` |
| `Convert` | chains of conversions and their loss reports | - |
| `ConvertProofs` | theorems about it | `Convert` |
| `FluxWrite` | the write job over a device that fails | - |
| `FluxWriteProofs` | theorems about it | `FluxWrite` |
| `FluxCapture` | the capture job over a device that fails | - |
| `IndexSplit` | cutting one track's flux into revolutions | - |
| `ScpFile` | one track as the SCP writer lays it out and the plugin reads it | - |
| `FluxStream` | stream, decoders, unit conversion, split, file | extends `IndexSplit`, `ScpFile` |
| `FluxCaptureProofs` | theorems about the job and about the path of one track | `FluxCapture`, `FluxStream` |

### 2.1 State and actions against the code

*DiskTransaction.*  `mode`, `pending`, `committed` and `aborted` are the fields of
`struct uft_transaction`; `image` and `backup` are the files behind the disk handle
and under `<path>.uftbak`; `phase` is the call in progress.  begin, which copies the
image to the backup, write_track and free are actions; a commit is a step per staged
track, in the list's order, and a restoring rollback one for the open, which empties
the image, and one for the copy, since a plugin call may fail whole, fail part way
(`Torn`), or the program may die between two of them.  After a crash the
transaction is gone and the files remain, which is what a user restores by hand.
`ShortCopyPasses` says that the copy loop takes a read error for the end of the
file and ignores the result of `fclose`, which the code does; it is a constant so
that the other properties can be examined without that defect.  `Careful`
describes a caller that commits once and rolls back what failed before it frees
the transaction.

*Snapshot.*  A path is its time stamp, because prefix and directory are shared;
`fopen("wb")` is a step that empties the file, followed by one step for the write,
one for the close and one for the verification.  A hash is the contents it was
computed from, so SHA-256 is taken as free of collisions.  A verification may fail of
a whole file, too, since its read may fail.  The constants
`OwnTimes`, `LateErrors`, `BadMedia` say what the environment may do.

*WriteGate.*  The format and drive checks are pure functions of the call's
arguments and are one step; the snapshot runs through the steps of module
Snapshot (whose own specification is `SnapSpec`), which other gates interleave
with.  Afterwards the caller may override what the gate lets it, and writes only on
`UFT_GATE_OK`.

*Workflow.*  `queue` is the event queue of the GUI thread, oldest call first;
`boxes` the stack of open message boxes, each of which keeps its handler waiting
while the queue goes on being served.  Clicks need an empty stack (modal boxes)
and a GUI thread that is not inside a provider call.  A disconnect with a motor
running asks the provider to stop it first: that is `HardwareCall`, its return and
`Disconnect` in a row; that other steps may come between them adds behaviours and
takes none away.  A job's `run()` is reduced
to its provider calls, its cancel test between them and its terminal signals.
Provider calls of the GUI thread and of workers use one device without a lock,
as in the code.  The frozen variable `patient` tells two users apart: one who
waits for the message of an aborted worker before the next start and leaves the
hardware tab alone while a worker runs, and one who does neither.

*GwProtocol.*  The line is modelled byte by byte, because a byte left unread
shifts all that follow it.  `pc` is the command whose answer the host waits for;
an answer is a header of two bytes (the echoed command, a status) and perhaps a
rest.  A time-out may come whenever the header or the rest is not there yet; the
device answers later, in order.  What the library does with each outcome of each
command, and what it drops, is one operator per command (`InfoAnswer`,
`SeekAnswer`, `ReadStatusAnswer`, ...).  The device refuses, overflows and
underflows at will and has a head, a track 0 sensor and a protect tab.

*DecodeJob.*  A file is a set of chunks behind a name, so that a job goes on
writing to the file it opened when the name is removed or given to another file,
as POSIX has it.  Short last chunks stay in the buffer until the close, whose
failure nobody sees (`lost`).  The removal of a part may fail as well, which nobody
sees either (`kept`); both are about the copy under way and are reset when the next
one opens its destination.  What `DiskImageValidator` makes of an image is open: any
number of sectors, or an error.

*Convert.*  A file is its format and its past (what it was made from, and whether
a sector image is among its ancestors).  `Targets`, `RoundTrip` and
`HasConverter` are the path table, the matrix and the dispatch, entry by entry.
The call's steps are: read and judge, convert in memory, open the target, write
it, write the report; it may fail or be killed at each.

*FluxWrite, FluxCapture.*  One step per provider call of `run()`, in the order of
the code, with each outcome the provider's variant type allows.  `Cancel` and
`Unplug` may come between any two.  History variables (`late`, the torn track,
`cut`) exist only for the properties.

*FluxStream, IndexSplit, ScpFile.*  A stream is a sequence of flux, index and
space items; it is read by the two decoders (flux, and index times), converted to
nanoseconds with the integer rounding of the provider, split by the loop of the
capture job, laid out by the SCP writer and read by the SCP plugin.  `Word` and
`WordRange` are the range of the 32 bit sums and of the 16 bit words of the file,
made small so that wrapping and overflow words happen.  The specification of a
track is `StreamSpec`, beside the `Spec` of the job that captures many.

Each definition that translates code is listed with its lines under `map` in
`PROJECT.json`.

## 3. What is checked

Names refer to `runs` in `PROJECT.json`.  Each run takes from a second to a few
minutes with two workers.

### 3.1 Disk transaction

- `txn_any` (2 tracks, 2 contents, every order of calls): `CommitIsExact`: a
  commit that returned OK wrote exactly the staged data.  `OnlyStagedTracksChange`:
  no track that was never staged changes, even when things fail, unless a
  rollback's restore was itself cut short.
- `txn_careful` (3 tracks): `OneGoodCopy`: from the start of a commit until it
  succeeds the backup is the original image.  `SkippedRestoreHidesNoWrite`: when
  a zero count makes rollback skip the restore, no whole track had been written.
  `ImplementsAtomicImage`: what a user can read back, from image or backup,
  changes by all staged tracks at once or not at all.


Two tracks suffice for "some written, some not, one torn"; the atomicity run has
three, so that a commit can fail at the first, a middle and the last track.

### 3.2 Snapshots

- `snap_own` (2 users, 2 contents, 2 milliseconds, failing calls, unreadable
  sources, bad media): `HeldIsWhole`: a snapshot whose verified creation succeeded
  stays whole.  `RestoreIsExact`: a restore that reports success has brought back
  what the snapshot was made from.  `DestroyedOnlyWithSnapshot`: a destination is
  emptied only while a whole snapshot of it exists.

Two users are enough since a file is shared by name and every conflict is between
two of them; two time stamps allow an old and a new snapshot of one user.  The run
assumes `OwnTimes` (no two creations in a millisecond) and not `LateErrors` (no
write fails as late as its close); section 6 says what happens otherwise.

### 3.3 Write gate

- `gate_any` (2 gates in one directory, the strict policy and two of callers, a
  writable and a read-only image and none, 3 drive states and none):
  `OkLacksOnlyTheDrive`: behind an OK without an override no check has failed, and
  each one the policy enables has passed, save the drive check of a policy that is
  not strict and was given no diagnostics.  `OverridesStayInPolicy`: a result is
  overridden only where the policy leaves a check to the user that this call fails
  (`OverrideIsOffered`), and no override reaches an image of unknown, badly detected
  or forbidden format (`FormatIsAHardStop`).  `SavedWhileWriting`: while a caller
  writes on an OK without an override, the snapshot it relies on is whole.

The policies are the shipped strict one, the shipped relaxed one with the drive check
added, so that an override offered for a read-only format meets a refused drive and a
failed snapshot, and one that lets the user override everything.  Between them each
flag is set both ways, and the thresholds (800, 500, 850 against scores of 900 and
800) put an image above, at and below one.  The two gates are
interchangeable, and `Symmetric` says so; no temporal property is checked with it.

### 3.4 Workflow

- `wf_any` (2 starts, 1 provider call per job, clicks at any time).  For every
  user, with one provider if hasty and two if patient: `ToldInOrder`: what a user
  hears of a start comes in order and once.  Under fairness,
  `FluxThreadsAreReaped`: every flux worker's thread is deleted, and
  `TabComesBack`: a tab that runs stops running.  For a patient user:
  `AbortReachesWorker`, `OneDeviceUser`, `ProviderOutlivesUse`.

Two starts are the smallest number in which a late message of one meets another;
a third would only repeat the situation because the tab keeps one pointer.  Two
providers let a job hold the first while the second is live.

*Fairness.*  Weak fairness of each worker's step and of the provider calls of the
GUI thread: both have serial time-outs, so a thread that can go on does.  Weak
fairness of the user's answer to an open box (without an answer nothing returns).
Strong fairness of serving the queue: a click may come between two events,
disabling the step for a moment, but Qt's event loop does not let clicks starve
queued calls for ever.  No fairness is assumed of clicks, connects, or of the
device answering well.

### 3.5 Greaseweazle protocol

- `gw_any` (2 tracks, one of them under the head at the start, any sequence of
  reads, writes and seeks): `FluxIsOfTheTrackAsked`: the flux of a good read is of
  the track asked for, although answers to this and earlier operations are late.
  `WritesOnlyAtTheTarget`: when the device comes to a write, its head is where the
  write was meant to go.  `OkWriteIsWritten`.  `SmoothResultsAreTrue` and
  `SmoothLeavesNothingUnread`: where nothing was late or refused, a good result is
  true of the drive (the head is over the track, a read is all of it and of no
  other, a write is whole, cylinder 0 shows on the sensor) and the line is clean.
  `EveryOperationEnds`.

Bounds: one retry instead of five, an info of 2 bytes instead of 32, at most one
flux byte per stream, at most 3 commands that a slow device still has to take
when the host gives up on it (`MaxPending`).  An info of two bytes is the smallest
that can be read in part; three commands let the answers to one operation arrive
inside the next but one.  The last two invariants of smooth operations hold with
any number.  The first three do not: what tells an old answer from a new
one is the echoed command alone, and a device that is behind by a whole period of
commands echoes the right one at each place.  `FluxIsOfTheTrackAsked` is proved up to
5 (section 4.9); with 6 TLC finds a read answered by the one before (info, seek, two
head selects and the read are one period).  `WritesOnlyAtTheTarget` is proved up to 6;
with writes alone it still holds with 7 and fails with 8, where a write goes to
the head that an unseen refusal left selected.  `OkWriteIsWritten` is proved up to 6;
with writes alone it holds with 8 and fails with 10, where a write that underflowed is
reported done on the status of the write before, which had timed out.
The run stays at 3: the host waits 5 s for an answer (`UFT_GW_USB_TIMEOUT_MS`), so
that a device six commands behind has let about as many waits pass and then answers
them all.

*Fairness.*  Weak fairness of the host, all of whose waits have a time-out, and of
the device, which is slow and not dead.

### 3.6 Decode job

- `decode_any` (2 jobs, 3 chunks, up to 2 sectors, flux and sector images, no
  destination, another file, the source itself): `CountsAreTrue`: a job that
  finishes has counted each sector.  For a user who waits for each job:
  `NoPartStays`: no part of an image stays under the destination's name, unless its
  removal failed or its last flush was lost;
  `FinishedCopyIsWhole`: a copy reported as finished is whole.
  `EndsUnlessStuck`: a cancelled job ends, and any other ends with its signal
  unless its source cannot be read on.

Three chunks make a first, a middle and a short last one.  Weak fairness of each
job's thread.

### 3.7 Conversion

- `convert_any` (3 paths, an original of any of 15 formats, 2 callers, 4 calls):
  `FluxIsNeverMadeUp`: no chain of conversions leads from sectors to flux or to a
  bitstream.  `LossIsTold`: the report beside a file tells the loss of the
  conversion that made it, unless writing the report failed or was killed.

Four calls are two conversions onto one path after two that made their sources; a
longer chain has no new pair of formats to offer since the tables hold 15 formats
of four classes.  `Stop` lets the run end when the calls are used up.

### 3.8 Flux write job

- `fluxwrite_any` (every image of 4 tracks, each absent, bad or good):
  `FinishedCountsAreTrue`, `NothingAfterTornTrack`, `CancelIsPrompt`, `Ends`.

The loop treats all tracks alike; 4 allow a skipped, a written, a torn and an
untouched track in one run, and the proofs lift the bound.  `Ends` assumes weak
fairness of `run()` alone: each provider call returns, by its time-out if need be.

### 3.9 Flux capture job

- `capture_any` (2 cylinders, of which the SCP writer takes one, 2 sides, 2
  revolutions): `ErrorsCountTheGaps`: a capture that reports success with E errors
  lacks tracks in at most E cylinders, tracks of which a broken stream left nothing
  not counted; `FileFitsVerdict`: a stopped capture leaves the old file, a finished
  one has replaced it; `Ends`, under the same fairness.

The writer's limit of 84 cylinders is the constant `WriterCylinders`, set so that
one cylinder is taken and one refused.

### 3.10 One captured track

- `stream_any` (up to 4 transitions and 4 pulses, 5/2 ns per tick, 3 ns per SCP
  tick, words of range 3, sums modulo 64): `IndexTimesAreIntervals`: what the
  decoder calls index times are the ticks between pulses, however the pulses fall
  between transitions.  `NoFluxLostOrDoubled`: the slices of the split are, in
  order and without a gap, the front of the track.  `SplitFollowsContract`: for
  index times that increase, as the type's documentation promises, the slices are
  those a direct definition gives.  `PluginReadsBack`: what the SCP plugin reads of
  the file is a front of the first revolution, to a tick, and all of it if no
  interval takes more than one word.
- violated: `stream_revs` (`EnoughRevolutions`): the decoder gives intervals, the
  split takes them as positions.

Ticks 1 and 3, indices 0 or 2 ticks after a transition, and spaces of 2 give
pulses before, at and after a transition, and several between two transitions;
with words of range 3 an interval takes none, one or several overflow words.

### 3.11 Mutants

`mutants` in `PROJECT.json` names, for every property of a passing run, a
changed definition of the code (a dropped guard, a missing reset, a swapped
order, an off-by-one) under which TLC finds the property violated with the same
configuration.  The mutated forms stand in the modules beside the definitions
they replace, marked "a plausible slip", and no other definition uses them.

## 4. What is proved

The theorems hold for every value of the constants their assumptions allow, and
their proofs are checked by TLAPS.  All safety properties that the passing runs
check are proved this way.  Three of `GwProtocol` are not true of every number of
unanswered commands and are proved up to a bound, which section 4.9 gives.

### 4.1 `DiskTransactionProofs`

- `TypeCorrect`: `Spec => []TypeOK`.

For every caller, with `StagedInv` (a backup differs from the original only where a
copy lost a track) and `ExactInv` (pending writes are of different tracks, and
those behind the walk's position are on the image):

- `UnstagedStaysPut`: `Spec => []OnlyStagedTracksChange`.
- `CommitsAreExact`: `Spec => []CommitIsExact`.

Assuming `Careful` (one commit, rollback before free) and `~ShortCopyPasses` (an
incomplete backup copy is reported), both of which section 6 shows to be needed:

- `OneGoodCopyHolds`: `Spec => []OneGoodCopy`.  It is not inductive: nothing in
  it says why a copy in progress can be trusted when it ends.  `CopyInv` adds
  what the backup holds in each phase and that it was taken before the first write.
- `SkippedRestoresAreHarmless`: `Spec => []SkippedRestoreHidesNoWrite`, by
  `SkipInv`, which follows the count through the one commit.
- `TransactionIsAtomic`: `Spec => ImplementsAtomicImage`.  The mapping shows the
  reader `backup` while it stands for the image and `image` otherwise.  A step
  maps to a stutter except the last step of a successful commit.  For that step
  `CommitInv` relates the staged tracks behind the commit's position to the image
  (`WalkInv`: written, in order, none twice), so that at the end the image is the
  original with all staged tracks replaced.

### 4.2 Snapshots, in `WriteGateProofs`

Assumption of all but the first: `OwnTimes`, the one section 6 shows to be
needed.  Users, images and milliseconds are any sets and any bound; media may be
bad and every call may fail.

- `TypeCorrect`: with `HasName` (a call at work has a file name), without which a
  step could write to a path that is no time.
- `SnapshotsStayWhole`: `SnapSpec => []HeldIsWhole`.
- `DestroyedOnlyWithSnapshotHolds`: `SnapSpec => []DestroyedOnlyWithSnapshot`.
- `RestoresAreExact`: `SnapSpec => []RestoreIsExact`, with `~LateErrors` as well.

The inductive invariant `IInv` has two parts.  `Distinct` says that no two users
have a file of one name; from it no step of one user reaches what another's
invariant speaks of (`OnlyOneMoves`).  `UserInv` then says for one user what each
step of a call knows: between the check of a snapshot and the end of the restore
the file is what it was made from, and so is the buffer read from it.

### 4.3 The gate, in `WriteGateProofs`

For any policies, images, diagnostics and number of gates.

- `OkLacksOnlyTheDriveCheck`: `Spec => []OkLacksOnlyTheDrive`;
  `OverridesAreWithinPolicy`: `Spec => []OverridesStayInPolicy`, from its two halves
  `OverridesAreOffered` and `NoOverrideOfTheFormat`.  None says what a check in
  progress has established.  `GateInv` does: `Open` of a result in front of the snapshot, `Final`
  of one that has been decided or overridden.
- `GateUsesSnapshots`: `Spec => SnapSpec`.  The composition: whatever the gates do in
  the directory is what users of `Snapshot` may do, so its theorems hold under them.
- `SavesLast`: if no two snapshots are named in one millisecond,
  `Spec => []SavedWhileWriting`.  `SavedInv` says that the snapshot of a gate
  between its verification and the end of the write is held, and
  `GateUsesSnapshots` with `SnapshotsStayWhole` that a held one is whole.

### 4.4 `WorkflowProofs`

For any number of starts, providers and calls.

- `NothingIsToldTwice`: `Spec => []ToldInOrder`, by `OneWord` (of a job there is one
  verdict in all: queued, in a box, or told) and `ToldInv`.
- For a patient user `AbortIsHeard`, `DeviceIsNotShared`, `ProviderIsAlive`:
  `AbortReachesWorker`, `OneDeviceUser`, `ProviderOutlivesUse`.  They rest on
  `TabInv` (a tab that runs knows a job of which nothing has been said),
  `OneWorker` (who is at work, or has a word on its way, is the one the tab knows,
  alone, or has been cancelled) and `OneProvider` (a worker's provider is the live
  one, and the GUI thread leaves it alone).

### 4.5 `DecodeJobProofs`

For any number of jobs, chunks and sectors.

- `FinalCountsAreTrue`: `Spec => []CountsAreTrue`, by `CountInv`: only a whole pass
  over the sectors, or a cancelled one, gets behind the loops, and only a whole one
  as far as the copy.
- `PartsAreRemoved`: `Spec => []NoPartStays`, and `CopiesAreWhole`:
  `Spec => FinishedCopyIsWhole`, an action property.  `FileInv` says what the files
  hold.  With another file as destination (`OtherInv`) and a patient user, the
  destination is in the copy loop the front of the image up to the chunk read, but
  for the one in the buffer (`LoopInv`), after the close the whole image
  (`ClosedInv`), and between two jobs old, whole or gone, each unless this copy lost
  its flush (`lost`) or its removal failed (`kept`).

### 4.6 `ConvertProofs`

For any files, callers and number of calls, killed anywhere.

- `NothingIsMadeUp`: `Spec => []FluxIsNeverMadeUp`, by `JobInv`: what comes of
  sectors is on no way to flux or a bitstream, and a lossy call has a report to write.
- `EveryLossIsTold`: `Spec => []LossIsTold`, by `OneWriter` (no two calls have one
  target) and `TargetInv` (from the open to the return the target is what this call
  makes of it).

### 4.7 `FluxWriteProofs`

No assumption but `MaxTracks \in Nat`: any image, any faults.

- `TypeCorrect`: in particular the two counters stay within the number of tracks,
  which needs `SumInv`: written + skipped is at most the loop's position.
- `WritesStopInTime`: `Spec => [](CancelIsPrompt /\ NothingAfterTornTrack /\
  MotorIsStopped)`, and `CancelIsObeyed` for the first alone.  `MotorIsStopped`
  (on every way out the motor has been asked to stop) is proved only.  The
  inductive invariant `IInv` adds where the loop may be (`ControlInv`) and how many
  writes may have followed a cancel at each point of the loop (`LateInv`), which
  the property by itself does not say.
- `FinishedIsTrue`: `Spec => []FinishedCountsAreTrue`.  `CountInv` counts, at each
  step, the tracks on the disk and those skipped among the tracks the loop has
  passed (`Behind`); at the end these are all tracks of the image.

### 4.8 Capture and track, in `FluxCaptureProofs`

For any number of cylinders, sides and revolutions.

- `FinishedCountsTheGaps`: `Spec => []ErrorsCountTheGaps`.  `GapInv` counts, at each
  place of the two loops, the cylinders behind it that lack a track (`Lacking`)
  against the errors so far.
- `TheFileFits`: with `~LateErrors`, `Spec => []FileFitsVerdict`.

For every stream of opcodes, of any length, and any units, words and number of
revolutions (`IndexSplitAssumption`, `ScpFileAssumption` and
`FluxStreamAssumption` say no more than that these are positive):

- `IndexTimes`: `StreamSpec => []IndexTimesAreIntervals`.
- `NothingLostOrDoubled`: `StreamSpec => []NoFluxLostOrDoubled`.
- `SplitIsTheContract`: `StreamSpec => []SplitFollowsContract`.
- `ReadsBack`: `StreamSpec => []PluginReadsBack`.
- `TracksAreNotEmpty`: `StreamSpec => []SomethingIsKept`.  A track with an index time
  above 0 gives the SCP writer at least one slice, and never more than were asked
  for.  `FluxCapture` takes this for granted where it abstracts from the stream.

`StreamInv` holds of each stage what has been computed so far: `IndexInv` (the time
since the last pulse, and the sum of the intervals), `SliceInv` (the slices lie
behind one another from 0 to `start`), `CutInv` (for index times that have increased
so far, the cuts are those of `Contract`) and `SavedInv` (what was saved).  What the
loops compute is written as recursive functions, on which the proofs need induction
over the length of the data.  It comes from the well-foundedness of the numbers:
`SetInduction` states it of a set of numbers instead of a predicate, and
`BoundedRecursion` that a recursive function on `0..n` exists and obeys its equation.
`NextWordRead` follows the plugin word by word through what the writer laid out and
says that the overflow it carries and the interval it builds are those captured.

### 4.9 `GwProtocolProofs`

For any set of tracks, number of retries, length of an info and length of a stream.

*In time.*  For any `MaxPending`: however many commands the device is behind.

- `ResultsAreTrue`: `Spec => []SmoothResultsAreTrue`.
- `NothingUnread`: `Spec => []SmoothLeavesNothingUnread`.

Both follow from `Inductive`: `Spec => []IInv`, where `IInv` is
`Types /\ (smooth => InSync)`: an operation of which nothing has come late, been
refused or mismatched so far is in step with the device.  The properties speak of its
end only; `InSync` says, for each place of the host, what is on the line between it
and the device (`Shape`, of `rx \o out`: nothing but the answer to the command it
waits for, in so far as it has been given), what the device has done by then
(`Effect`), where the head stands (`OverTrack`, `OnTrack0`), and what has been
collected and written (`Collected`).  The info at the start of an operation is what
brings the two ends into step: it may meet a device that is still inside a write,
takes the zero of the command for the end of the flux and answers with one byte
(`Swallowed`); then the header cannot be whole, the wait ends and the operation is
not smooth.

*Late.*  Of an operation whose answers come when they like, or that meets the answers
to the ones before:

- `OneTrackPerRead`: `Spec => []OkReadIsOfOneTrack`, for any `MaxPending`: the flux of
  a good read is all of one track.
- `FluxOfTheTrackAsked`, for `MaxPending <= 5`: `Spec => []FluxIsOfTheTrackAsked`.
- `WritesStayOnTarget`, for `MaxPending <= 6`: `Spec => []WritesOnlyAtTheTarget`.
- `GoodWritesAreWritten`, for `MaxPending <= 6`: `Spec => []OkWriteIsWritten`.

The first bound cannot be raised: TLC refutes the property with 6.  The other two are
those the argument below needs; TLC refutes the properties with 8 and with 10.

All follow from `InductiveWhenLate`: `Spec => []LateInv`.  A state in which the host is
ahead of the device is no exception to be excluded here, so the invariant has to say of
every such state how the operation will notice.  Its parts, each with its lemmas:

| part | says | for |
|---|---|---|
| `Base` | types, and which places an operation of each kind can be at | any `MaxPending` |
| `Order` | the last command sent is the host's own; a command on flux stands at least four places behind every info that is before it, the second look at the write protection five | any |
| `OneTrack` | what stands behind a read's header on the line, and what has been collected, is of one track up to its first 0 | any |
| `Settled` | an info answered at the start of an operation leaves no flux command, no flux status and no head select followed by a pin ahead of the host's own commands, or the host does not take it for one | 5 (reads), 6 (writes) |
| `Steps` | from the seek on, host and device are in step with the head where the host believes it, or the host lags by at least one answer and keeps lagging, so that the echo at the read or at the second pin does not fit | 5, 6 |
| `Writes` | from the second look at the protection on the write is alone on the line, its command and its data reach the device over its track, and the status the host waits for is its own | 6 |

The bounds enter in one place, the lemma `AskedAnew`: when an info is asked for, the
older commands that stand behind an older info on a line of five (six) are too few to
reach as far as a flux command (a second look).  From there on nothing is counted.
`Steps` and `Writes` say nothing above their bounds, and of a read nothing above 5 even
where writes are bounded by 6.

*The end of an operation.*  `OperationsAreBounded`: `Spec => []StepsAreBounded /\
EveryStepCounts`, for any `MaxPending`.  `StepsLeft` counts the attempts an operation
has left and the places before it; every step of the host lessens it, except that
`read_flux` may take flux off the line and wait for more (`TakesFlux`), and no step of
the device changes it.  It is at most `8 * Retries + 55` and 0 only when the operation
has returned.  This is what `EveryOperationEnds` rests on; what it adds is that the
host, waiting with a time-out, always makes a step, and that the device, to which
the host sends nothing while it takes flux, has an end of its own answers.

### 4.10 What is only model-checked

- Liveness (`Ends` of both flux jobs, `FluxThreadsAreReaped`, `TabComesBack`,
  `EveryOperationEnds`, `EndsUnlessStuck`), which rests on fairness and ENABLED.  Of
  `EveryOperationEnds` the variant is proved (section 4.9).
- `WritesOnlyAtTheTarget` with 7 commands pending and `OkWriteIsWritten` with 7 and 8,
  writes only, by configurations like `gw_any` that are too large to be kept.  With 9
  the second has been neither checked nor refuted.

## 5. What the models leave out

File names, wording, logging, widgets.  Contents of tracks and images are a few
model values.  Memory allocation failure is left out where the code returns
before any effect.  Two threads inside the same C object are left out where the
code has no lock and no caller does this (a transaction, a gate); the provider,
where it does happen, is in `Workflow`.  Crashes are modelled for the transaction
and for conversions, whose results they concern; a crash of a flux job leaves the
same disk as an unplugged device.

- *Workflow*: the destructor at shutdown (`workflowtab.cpp:79` cancels a decode job
  only, and waits 3 s), the configuration widgets, other controllers.
- *Greaseweazle*: erase, RPM measurement, raw read, close, a change of drive unit
  and the latch it would have to reset, the motor's switch-off, the limit of 4 MiB
  for a stream, the serial branch for Windows.
- *Conversion*: the detection of a file's format, which is taken to be right (a file
  that is detected wrongly, or with too little confidence, only occurs as a refusal);
  what the converters make of tracks and sectors, warnings and the
  result structure; two calls with one target at the same time;
  `uft_convert_memory`, which nothing calls; the wizard's cancel flag.
- *SCP*: the file header and its bounds, the table of tracks, the checksum, the room
  for headers.

## 6. Where code and documentation disagree

One run shows a disagreement as a counterexample; the quotation is under `findings`
in `PROJECT.json`: `stream_revs`, where intervals between index pulses are handed
on as positions, so that the split finds fewer revolutions than the disk made.

Other statements of the source are not kept by the code either.  The models do what
the code does; the checked properties except these cases in their wording, or by a
constant or premise of the next table.

| what the source says | what the code does |
|---|---|
| UFT_GATE_OK "only if ALL enabled checks pass" (`uft_write_gate.h:167`), "All checks passed" (line 32) | without diagnostics a policy that is not strict gets OK without the drive check it enables (`uft_write_gate.c:258`); `OkLacksOnlyTheDrive` says that this is the only exception |
| `allow_unsafe_drive`: "Allow override for unsafe drives" (`uft_write_gate.h:92`) | `override_required`, set for a read-only format, stays set when the drive is then refused, and the override lifts both (`uft_write_gate.c:272`, 279), or a failed snapshot (line 318), whatever the policy allows |
| rollback restores "if commit already wrote some tracks" (`uft_disk_transaction.c:205`) | a retry that fails on its first track sets the count back to 0 (line 192) |
| the backup is removed "on successful commit" (`uft_disk_transaction.c:224`) | also after a failed one that was not rolled back (line 228) |
| the backup is copied "byte-for-byte. ... Returns 0 on success" (`uft_disk_transaction.c:34`) | 0 as well for a copy cut short by a read error or a failing close (line 44) |
| "Generate unique filename with timestamp" (`uft_snapshot.c:86`) | one name per millisecond, and `fopen("wb")` empties what is there (line 97) |
| "opts Options (NULL for defaults)", which verify (`uft_snapshot.h:55`, 45) | NULL does not verify (`uft_snapshot.c:115`) |
| "Treat any short write as a hard failure" (`decodejob.cpp:352`) | not one at the close (line 377) |
| "partial output is still on disk so we delete it before bailing" (`decodejob.cpp:355`) | the removal may fail, unnoticed, there (line 366) and after a cancel (line 381) |
| "partial captures are reported as errors" (`fluxcapturejob.h:14`) | they are counted, saved and reported as finished (`fluxcapturejob.cpp:266`) |

The models also hold behaviour of the code that a checked property assumes away
with a constant or a premise.  Changing it in the configuration, or dropping the
premise, shows it.

| assumption | what fails without it | code |
|---|---|---|
| `Careful` | `OneGoodCopy`, `ImplementsAtomicImage`: free after a failed commit removes the only good copy; a begin on an image that has not been restored overwrites it | `uft_disk_transaction.c:228`, 128 |
| `Careful` | `SkippedRestoreHidesNoWrite`: a retried commit overwrites the count of the one before.  With one commit there is still a track torn by the failing write: if it is the first one, rollback does not restore it | `uft_disk_transaction.c:192`, 209 |
| `~ShortCopyPasses` | `OneGoodCopy`: a backup cut short counts as complete | `uft_disk_transaction.c:44` |
| `OwnTimes` | `HeldIsWhole`, and with it `RestoreIsExact` (what is read is not what was verified) and `DestroyedOnlyWithSnapshot`: two snapshots of one millisecond share a file | `uft_snapshot.c:97` |
| `opts` | `HeldIsWhole`: of a snapshot made with NULL options nothing is promised | `uft_snapshot.c:115` |
| `~LateErrors` (snapshots) | `RestoreIsExact`: the result of closing the destination is ignored | `uft_snapshot.c:260` |
| `~LateErrors` (capture) | `FileFitsVerdict`: the same for the SCP file | `uft_scp_writer.c:299` |
| `patient` (Workflow) | `AbortReachesWorker`, `OneDeviceUser`: after abort and a new start, the late message of the old worker makes the tab forget the new one | `workflowtab.cpp:661` |
| `patient` (Workflow) | `OneDeviceUser`, `ProviderOutlivesUse`: the hardware tab uses or destroys the provider a worker uses | `hardwaretab.cpp:1108` |
| `patient` (DecodeJob) | `FinishedCopyIsWhole`: an aborted job removes the copy of the job started after it | `decodejob.cpp:381` |
| `copy = "other"` | `FinishedCopyIsWhole`: with the source as destination the image is emptied before it is read, and success reported | `decodejob.cpp:337` |
| `lost` (DecodeJob) | `FinishedCopyIsWhole`, `NoPartStays`: a flush that fails at the close is not seen | `decodejob.cpp:377` |
| `kept` (DecodeJob) | `NoPartStays`: the result of the removal is ignored | `decodejob.cpp:366`, 381 |
| `pc = "stuck"` (DecodeJob) | `EndsUnlessStuck`: a source that cannot be read on keeps the copy loop turning until it is cancelled | `decodejob.cpp:350` |
| `smooth` (GwProtocol) | `SmoothResultsAreTrue`: of the flux status after a read only an overflow counts, so a read the device could not finish is returned as good | `uft_greaseweazle_full.c:828` |
| `MaxPending` at most 5 (`GwProtocol`) | `FluxIsOfTheTrackAsked`: of a device six commands behind the read before answers this one; the echoed command is all that tells them apart, and the flush before the info drops only what has arrived | `uft_greaseweazle_full.c:413` |
| `MaxPending` at most 6 (`GwProtocol`) | `WritesOnlyAtTheTarget`: of a device eight commands behind the answers to one write stand for the next, whose refused head select is not seen (7: not proved) | `uft_greaseweazle_full.c:413` |
| `MaxPending` at most 6 (`GwProtocol`) | `OkWriteIsWritten`: of a device ten commands behind the status of a write that timed out answers for the next one, which has underflowed (7 to 9: not proved) | `uft_greaseweazle_full.c:925` |
| `missed` (Convert) | `LossIsTold`: the result of writing the report is ignored | `uft_format_convert_dispatch.c:586` |

And the models follow the code where a header or a comment says more than it does.

*Flux jobs.*  Unreadable tracks are skipped by a write job that finishes
(`fluxwritejob.cpp:155`); verify reads nothing back
(`greaseweazle_provider_v2.cpp:464`); a stream that broke off is stored without an error
(`uft_greaseweazle_full.c:811`); of the flux status after a read only an overflow
counts, and only while tries are left (line 828); the protect check takes a failed
question for a protected disk, and a pin that does not arrive leaves the variable
it is read into unset.

*Snapshots and gate.*  A source that cannot be read is saved as an empty snapshot
(`uft_snapshot.c:136`), and restoring it counts as exact; an override offered for a
read-only format also lifts a protected or empty drive (`uft_write_gate.c:279`) and a
missing snapshot (line 318).

*Decode job.*  A cancelled image copy ends without a terminal signal
(`decodejob.cpp:379`), so its thread stays.

*Conversion* (`uft_format_convert_dispatch.c`).  SCP to HFE is lossless in the matrix
("byte-identischer Round-Trip verifiziert", `uft_roundtrip.h:54`) and lossy with a
weak-bit warning in the path table, and the HFE writer cuts tracks to a fixed
length: no consent is asked and no report written, and the report entry for flux to
bitstream (lines 574-579) is never reached, against "never lose data silently"
(lines 454-456).  `uft_preflight.h:8` says that every conversion passes the
preflight; `uft_convert_memory` does not.  The branches that copy same-format and
sector files (lines 499-523) cannot be reached, since those pairs count as
untested.  IPF to ADF passes the preflight and has no converter.  A report stays
beside a path whose file a later, lossless conversion made.  `hfe_to_sectors`
writes an image of zeros as success where `scp_to_mfm_sectors` refuses.  The
usage text of the command line tool shows a conversion that is refused as
impossible (`cli/uft-decode/main.c:54`).  The wizard reports "cancelled" although
the target has been written.

*SCP.*  The writer's length is in bytes, two per interval, and the plugin reads it
so; `src/src/flux/uft_scp_parser.c:366` (the reader of the flux write job) and
`uft_scp_parser_v3.c` take it for a number of words, so a captured file is read
back as twice as many words, and the last revolution of the last track is a read
error.  Overflow words are counted neither in lengths nor in offsets; an interval
of whole ranges, or below a tick, ends in a word that reads as another overflow.
A track with fewer revolutions than the header announces has its first words
taken for headers.  The plugin reads the table of tracks as if it began at the
first captured track.

*Operations over a disk handle* (not modelled).  `UFT_ITER_INTERLEAVED`
(`uft_disk_stream.c:58`) counts half the cylinders, rounded up, as odd ones but
places them from the second cylinder on: over an odd number of cylinders the last
one is never visited and `UFT_OK` returned.  `uft_disk_verify` counts a track that
cannot be read neither as good nor as failed: the result says PASS, and only the
returned code is an error.  `tolerate_weak` changes the counts of sectors and not
the verdict on the track.

## 7. Plan

Done, in the order of importance: the transaction and its refinement; the
workflow tab; snapshots and gate; the flux jobs; the decoding of a track; the
Greaseweazle protocol; the decode job; conversion and preflight; a track of an SCP
file; the proofs of section 4.

Left, in this order:

1. The whole SCP file: its table of tracks and header against the three readers.
2. The streams over a disk handle: `UFT_ITER_INTERLEAVED` against "every track once",
   verify and convert against their counts.
3. The shutdown of the workflow tab, with all three jobs.
4. Erase, RPM measurement and a change of drive unit in `GwProtocol`.
