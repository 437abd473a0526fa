---------------------------- MODULE FluxCapture -----------------------------
(***************************************************************************)
(* src/fluxcapturejob.cpp: the worker that captures a whole disk through   *)
(* the Greaseweazle provider and saves it as an SCP file.                  *)
(*                                                                         *)
(* Every provider call is a step; between two of them the user may cancel  *)
(* and the device may go away.  A captured track is the set of revolutions *)
(* that reached the SCP writer; how the flux stream is cut into            *)
(* revolutions is the subject of FluxStream.                               *)
(***************************************************************************)
EXTENDS Naturals, FiniteSets

CONSTANTS
    Cylinders, Sides, RevsAsked, \* m_cylinders, m_sides, m_revolutions
    WriterCylinders,  \* the cylinders scp_writer_add_track accepts
    LateErrors        \* a write may fail when the file is closed

ASSUME FluxCaptureAssumption ==
    /\ Cylinders \in Nat \ {0} /\ Sides \in 1..2 /\ RevsAsked \in 1..5
    /\ WriterCylinders \in Nat
    /\ LateErrors \in BOOLEAN

VARIABLES
    cyl, side, \* the loop variables
    pc,        \* where run() is
    linked,    \* the device answers
    motor,     \* what the job last asked of the drive's motor
    cancel,    \* m_cancel
    aborted, errors,  \* locals of run()
    stored,    \* the SCP writer: the revolutions of each track
    file,      \* the SCP file at the output path
    verdict,   \* the terminal signal emitted
    cut        \* (history) tracks whose flux stream broke off

device == <<linked, motor>>
job    == <<aborted, errors, stored>>
out    == <<file, verdict>>
vars   == <<cyl, side, pc, device, cancel, job, out, cut>>

Tracks == (0..(Cylinders - 1)) \X (0..(Sides - 1))
Slots  == 0..(RevsAsked - 1)

Init ==
    /\ cyl = 0
    /\ side = 0
    /\ pc = "start"
    /\ linked = TRUE
    /\ motor = "off"
    /\ cancel = FALSE
    /\ aborted = FALSE
    /\ errors = 0
    /\ stored = [s \in Tracks |-> {}]
    /\ file = "old"
    /\ verdict = "none"
    /\ cut = {}

-----------------------------------------------------------------------------
(* FluxCaptureJob::requestCancel, from the GUI thread *)
RequestCancel ==
    /\ verdict = "none"
    /\ cancel' = TRUE
    /\ UNCHANGED <<cyl, side, pc, device, job, out, cut>>

Unplug ==
    /\ linked
    /\ linked' = FALSE
    /\ UNCHANGED <<cyl, side, pc, motor, cancel, job, out, cut>>

Fail == pc' = "done" /\ verdict' = "error"

(* run() returns with an error before it touches the drive *)
Refuse ==
    /\ pc = "start"
    /\ Fail
    /\ UNCHANGED <<cyl, side, device, cancel, job, file, cut>>

StartMotor ==
    /\ pc = "start"
    /\ \/ linked /\ motor' = "on" /\ pc' = "cylinder" /\ UNCHANGED verdict
       \/ motor' = "unsure" /\ Fail
    /\ UNCHANGED <<cyl, side, linked, cancel, job, file, cut>>

(* the top of the outer loop: the end, a lost device or a cancel *)
LeaveCylinders ==
    /\ pc = "cylinder"
    /\ cyl = Cylinders \/ aborted \/ cancel
    /\ aborted' = (aborted \/ cyl < Cylinders)
    /\ pc' = "save"
    /\ UNCHANGED <<cyl, side, device, cancel, errors, stored, out, cut>>

\* a plausible slip: the job waits for a device that has gone away
SeekWaits ==
    /\ pc = "cylinder"
    /\ cyl < Cylinders /\ ~aborted /\ ~cancel
    /\ IF linked THEN side' = 0 /\ pc' = "side" ELSE UNCHANGED <<side, pc>>
    /\ UNCHANGED <<cyl, device, cancel, job, out, cut>>

(* seek(cyl): a cylinder that is not reached is skipped and counted; the   *)
(* provider notices at the start of a call that the device is gone         *)
Seek ==
    /\ pc = "cylinder"
    /\ cyl < Cylinders /\ ~aborted /\ ~cancel
    /\ \/ linked /\ side' = 0 /\ pc' = "side" /\ UNCHANGED <<cyl, aborted, errors>>
       \/ /\ errors' = errors + 1
          /\ cyl' = cyl + 1
          /\ aborted' \in {TRUE, ~linked}
          /\ UNCHANGED <<side, pc>>
    /\ UNCHANGED <<device, cancel, stored, out, cut>>

\* a plausible slip: the cancel breaks out of the inner loop only
NextSideForgets ==
    /\ pc = "side"
    /\ IF side < Sides /\ ~aborted /\ ~cancel
         THEN pc' = "read" /\ UNCHANGED cyl
         ELSE pc' = "cylinder" /\ cyl' = Cylinders
    /\ UNCHANGED <<side, device, cancel, job, out, cut>>

(* the top of the inner loop *)
NextSide ==
    /\ pc = "side"
    /\ aborted' = (aborted \/ (side < Sides /\ cancel))
    /\ IF side < Sides /\ ~aborted /\ ~cancel
         THEN pc' = "read" /\ UNCHANGED cyl
         ELSE pc' = "cylinder" /\ cyl' = cyl + 1
    /\ UNCHANGED <<side, device, cancel, errors, stored, out, cut>>

(* the slices 0..n-1 of a captured track go to scp_writer_add_track, which *)
(* refuses cylinders it has no room for and may run out of memory; a slice *)
(* that is lost is counted and its slot left empty                         *)
AddSlices(n) ==
    \E lost \in SUBSET (0..(n - 1)) :
        /\ cyl >= WriterCylinders => lost = 0..(n - 1)
        /\ stored' = [stored EXCEPT ![<<cyl, side>>] = (0..(n - 1)) \ lost]
        /\ errors' = errors + Cardinality(lost)

(* read_raw_flux of one track.  A stream that breaks off is not told from  *)
(* a whole one: uft_gw_read_flux drops the timeout and the flux status     *)
ReadTrack ==
    /\ pc = "read"
    /\ \/ linked /\ (\E n \in 1..RevsAsked : AddSlices(n)) /\ UNCHANGED <<aborted, cut>>
       \/ /\ linked
          /\ \E n \in 0..RevsAsked : AddSlices(n)
          /\ cut' = cut \cup {<<cyl, side>>}
          /\ UNCHANGED aborted
       \/ linked /\ errors' = errors + 1 /\ UNCHANGED <<stored, aborted, cut>>
       \/ aborted' = TRUE /\ UNCHANGED <<stored, errors, cut>>
    /\ side' = side + 1
    /\ pc' = "side"
    /\ UNCHANGED <<cyl, device, cancel, out>>

\* a plausible slip: what an aborted capture has is saved all the same
SaveOpenAnyway ==
    /\ pc = "save"
    /\ motor' = "stopped"
    /\ \/ Fail /\ UNCHANGED file
       \/ pc' = "saving" /\ file' = "torn" /\ UNCHANGED verdict
    /\ UNCHANGED <<cyl, side, linked, cancel, job, cut>>

(* set_motor(false), its result discarded; the aborted check; then the     *)
(* fopen(path, "wb") of scp_writer_save                                    *)
SaveOpen ==
    /\ pc = "save"
    /\ motor' = "stopped"
    /\ \/ Fail /\ UNCHANGED file
       \/ ~aborted /\ pc' = "saving" /\ file' = "torn" /\ UNCHANGED verdict
    /\ UNCHANGED <<cyl, side, linked, cancel, job, cut>>

(* the rest of scp_writer_save, which ignores the result of fclose *)
SaveWrite ==
    /\ pc = "saving"
    /\ pc' = "done"
    /\ \/ verdict' = "error" /\ UNCHANGED file
       \/ verdict' = "finished" /\ file' = "new"
       \/ LateErrors /\ verdict' = "finished" /\ UNCHANGED file
    /\ UNCHANGED <<cyl, side, device, cancel, job, cut>>

Run ==
    \/ Refuse \/ StartMotor \/ LeaveCylinders \/ Seek \/ NextSide
    \/ ReadTrack \/ SaveOpen \/ SaveWrite

Next == Run \/ RequestCancel \/ Unplug

Spec == Init /\ [][Next]_vars

(* every provider call returns: the serial port has timeouts *)
FairSpec == Spec /\ WF_vars(Run)

-----------------------------------------------------------------------------
(* The cylinders of the file that lack a track.  A track of which a broken *)
(* stream left nothing is not among them: the job cannot know of it.       *)
Gaps == {s[1] : s \in {u \in Tracks \ cut : stored[u] = {}}}

(* Whatever failed, was cancelled or unplugged, a capture that reports     *)
(* success with E read errors lacks tracks in at most E cylinders.         *)
ErrorsCountTheGaps == verdict = "finished" => Cardinality(Gaps) <= errors

(* A capture that was stopped leaves the file of that name as it was, and  *)
(* a capture that reports success has replaced it.                         *)
FileFitsVerdict ==
    /\ aborted => file = "old"
    /\ verdict = "finished" => file = "new"

(* run() ends, whatever is cancelled or unplugged. *)
Ends == <>(verdict # "none")
=============================================================================
