----------------------------- MODULE FluxWrite ------------------------------
(***************************************************************************)
(* src/fluxwritejob.cpp: the worker that writes an SCP image to a disk,    *)
(* track by track, through the Greaseweazle provider.                      *)
(*                                                                         *)
(* Every provider call is a step; between two of them the user may cancel  *)
(* and the device may go away.  Of an SCP track only this is kept: it is   *)
(* absent, it is good, or it is bad (unreadable, without a revolution,     *)
(* without flux); of a disk track, whether the image's flux is on it.      *)
(***************************************************************************)
EXTENDS Naturals, FiniteSets

CONSTANT MaxTracks  \* UFT_SCP_MAX_TRACKS

ASSUME FluxWriteAssumption == MaxTracks \in Nat

VARIABLES
    image,     \* the tracks of the SCP file
    disk,      \* the tracks of the disk
    t,         \* the loop variable
    pc,        \* where run() is
    linked,    \* the device answers
    motor,     \* what the job last asked of the drive's motor
    cancel,    \* m_cancel
    aborted, written, skipped,   \* locals of run()
    verdict,   \* the terminal signal emitted
    late       \* (history) writes made since the cancel

job  == <<aborted, written, skipped>>
vars == <<image, disk, t, pc, linked, motor, cancel, job, verdict, late>>

Tracks    == 0..(MaxTracks - 1)
Present   == {s \in Tracks : image[s] # "absent"}
OnDisk(c) == {s \in Tracks : disk[s] = c}

Init ==
    /\ image \in [Tracks -> {"absent", "good", "bad"}]
    /\ disk = [s \in Tracks |-> "old"]
    /\ t = 0
    /\ pc = "start"
    /\ linked = TRUE
    /\ motor = "off"
    /\ cancel = FALSE
    /\ aborted = FALSE
    /\ written = 0
    /\ skipped = 0
    /\ verdict = "none"
    /\ late = 0

-----------------------------------------------------------------------------
(* FluxWriteJob::requestCancel, from the GUI thread *)
RequestCancel ==
    /\ verdict = "none"
    /\ cancel' = TRUE
    /\ UNCHANGED <<image, disk, t, pc, linked, motor, job, verdict, late>>

Unplug ==
    /\ linked
    /\ linked' = FALSE
    /\ UNCHANGED <<image, disk, t, pc, motor, cancel, job, verdict, late>>

Fail == pc' = "done" /\ verdict' = "error"

(* run() returns with an error before it touches the drive *)
Refuse ==
    /\ pc = "start"
    /\ Fail
    /\ UNCHANGED <<image, disk, t, linked, motor, cancel, job, late>>

(* set_motor(true); when it fails nobody asks the motor to stop, though    *)
(* the command may have been obeyed and only its answer lost               *)
StartMotor ==
    /\ pc = "start"
    /\ Present # {}
    /\ \/ linked /\ motor' = "on" /\ pc' = "loop" /\ UNCHANGED verdict
       \/ motor' = "unsure" /\ Fail
    /\ UNCHANGED <<image, disk, t, linked, cancel, job, late>>

(* the top of the loop: the end, or a cancel *)
LeaveLoop ==
    /\ pc = "loop"
    /\ t = MaxTracks \/ cancel
    /\ aborted' = (t < MaxTracks)
    /\ pc' = "stop"
    /\ UNCHANGED <<image, disk, t, linked, motor, cancel, written, skipped,
                   verdict, late>>

\* a plausible slip: the cancel is not looked at before a track
LoopingOn == pc = "loop" /\ t < MaxTracks

Looping == pc = "loop" /\ t < MaxTracks /\ ~cancel

SkipAbsent ==
    /\ Looping
    /\ image[t] = "absent"
    /\ t' = t + 1
    /\ UNCHANGED <<image, disk, pc, linked, motor, cancel, job, verdict, late>>

\* a plausible slip: a track that cannot be read is not counted
SkipUncounted ==
    /\ Looping
    /\ image[t] # "absent"
    /\ t' = t + 1
    /\ UNCHANGED <<image, disk, pc, linked, motor, cancel, job, verdict, late>>

(* uft_scp_read_track failed or found no flux: also a good track may fail  *)
(* to be read, for lack of memory or of a readable file                    *)
SkipUnreadable ==
    /\ Looping
    /\ image[t] # "absent"
    /\ t' = t + 1
    /\ skipped' = skipped + 1
    /\ UNCHANGED <<image, disk, pc, linked, motor, cancel, aborted, written,
                   verdict, late>>

(* a call fails in the loop: the motor is stopped, the error reported *)
GiveUp == motor' = "stopped" /\ Fail

(* seek(cyl) *)
Seek ==
    /\ Looping
    /\ image[t] = "good"
    /\ \/ linked /\ pc' = "write" /\ UNCHANGED <<motor, verdict>>
       \/ GiveUp
    /\ UNCHANGED <<image, disk, t, linked, cancel, job, late>>

\* a plausible slip: a failing write is skipped as an unreadable track is
WriteTrackGoesOn ==
    /\ pc = "write"
    /\ \E c \in {"old", "torn", "new"} : disk' = [disk EXCEPT ![t] = c]
    /\ written' = written + 1
    /\ t' = t + 1
    /\ pc' = "loop"
    /\ late' = IF cancel THEN late + 1 ELSE late
    /\ UNCHANGED <<image, linked, motor, cancel, aborted, skipped, verdict>>

\* a plausible slip: the job waits for a device that has gone away
WriteTrackWaits ==
    /\ pc = "write"
    /\ IF linked
         THEN /\ disk' = [disk EXCEPT ![t] = "new"]
              /\ written' = written + 1
              /\ t' = t + 1
              /\ pc' = "loop"
         ELSE UNCHANGED <<disk, written, t, pc>>
    /\ UNCHANGED <<image, linked, motor, cancel, aborted, skipped, verdict, late>>

(* write_raw_flux; the provider does not look at WriteFluxParams::verify.  *)
(* A write that fails may have changed the track in part, or wholly when   *)
(* only its status was lost.                                               *)
WriteTrack ==
    /\ pc = "write"
    /\ \/ /\ linked
          /\ disk' = [disk EXCEPT ![t] = "new"]
          /\ written' = written + 1
          /\ t' = t + 1
          /\ pc' = "loop"
          /\ UNCHANGED <<motor, verdict>>
       \/ /\ \E c \in {"old", "torn", "new"} : disk' = [disk EXCEPT ![t] = c]
          /\ GiveUp
          /\ UNCHANGED <<t, written>>
    /\ late' = IF cancel THEN late + 1 ELSE late
    /\ UNCHANGED <<image, linked, cancel, aborted, skipped>>

(* after the loop; the result of set_motor(false) is discarded *)
Finish ==
    /\ pc = "stop"
    /\ motor' = "stopped"
    /\ verdict' = IF aborted THEN "error" ELSE "finished"
    /\ pc' = "done"
    /\ UNCHANGED <<image, disk, t, linked, cancel, job, late>>

Run ==
    \/ Refuse \/ StartMotor \/ LeaveLoop \/ SkipAbsent \/ SkipUnreadable
    \/ Seek \/ WriteTrack \/ Finish

Next == Run \/ RequestCancel \/ Unplug

Spec == Init /\ [][Next]_vars

(* every provider call returns: the serial port has timeouts *)
FairSpec == Spec /\ WF_vars(Run)

-----------------------------------------------------------------------------
TypeOK ==
    /\ image \in [Tracks -> {"absent", "good", "bad"}]
    /\ disk \in [Tracks -> {"old", "torn", "new"}]
    /\ t \in 0..MaxTracks
    /\ pc \in {"start", "loop", "write", "stop", "done"}
    /\ linked \in BOOLEAN
    /\ motor \in {"off", "unsure", "on", "stopped"}
    /\ cancel \in BOOLEAN /\ aborted \in BOOLEAN
    /\ written \in 0..MaxTracks /\ skipped \in 0..MaxTracks
    /\ verdict \in {"none", "finished", "error"}
    /\ late \in 0..MaxTracks

(* The counts of the final message are true: each track of the image is on *)
(* the disk or among the skipped, and none is there twice or unfinished.   *)
FinishedCountsAreTrue ==
    verdict = "finished" =>
        /\ Cardinality(OnDisk("new")) = written
        /\ written + skipped = Cardinality(Present)
        /\ OnDisk("torn") = {}

(* Nothing is written after a track that failed: a track that has changed  *)
(* is in the image, and it is complete and behind the loop, or it is the   *)
(* one at which the loop gave up with an error.                            *)
NothingAfterTornTrack ==
    \A s \in OnDisk("torn") \cup OnDisk("new") :
        /\ image[s] = "good"
        /\ \/ s < t /\ disk[s] = "new"
           \/ s = t /\ verdict = "error"

(* A cancel lets at most the track that is being written finish. *)
CancelIsPrompt == late <= 1

(* A motor that started is asked to stop on every way out of run(). *)
MotorIsStopped == verdict # "none" => motor # "on"

(* run() ends, whatever is cancelled or unplugged. *)
Ends == <>(verdict # "none")
=============================================================================
