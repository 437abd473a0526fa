-------------------------- MODULE FluxWriteProofs ---------------------------
(***************************************************************************)
(* FluxWrite for every number of tracks.  The inductive invariant IInv is  *)
(* TypeInv with, for each property, what makes it survive a step: where    *)
(* the motor is while run() has not begun, that the track being written is *)
(* a good one, that a late write leaves the loop no way into another one,  *)
(* and that the counts are those of the tracks behind the loop.            *)
(***************************************************************************)
EXTENDS FluxWrite, TLAPS, FiniteSetTheorems

Behind == {s \in Present : s < t}

TypeInv ==
    /\ image \in [Tracks -> {"absent", "good", "bad"}]
    /\ disk \in [Tracks -> {"old", "torn", "new"}]
    /\ t \in 0..MaxTracks
    /\ pc \in {"start", "loop", "write", "stop", "done"}
    /\ linked \in BOOLEAN
    /\ motor \in {"off", "unsure", "on", "stopped"}
    /\ cancel \in BOOLEAN /\ aborted \in BOOLEAN
    /\ written \in Nat /\ skipped \in Nat
    /\ verdict \in {"none", "finished", "error"}
    /\ late \in Nat

ControlInv ==
    /\ pc = "done" <=> verdict # "none"
    /\ pc = "write" => t < MaxTracks /\ image[t] = "good"
    /\ pc = "start" => motor = "off"
    /\ pc = "stop" /\ ~aborted => t = MaxTracks

LateInv ==
    /\ late \in {0, 1}
    /\ late = 1 => cancel /\ pc # "write" /\ MaxTracks > 0

CountInv ==
    /\ verdict # "error" =>
        /\ Cardinality(OnDisk("new")) = written
        /\ written + skipped = Cardinality(Behind)
    /\ verdict = "finished" => t = MaxTracks

IInv ==
    TypeInv /\ ControlInv /\ LateInv /\ MotorIsStopped /\ NothingAfterTornTrack

(* The tracks are finitely many, and so is each selection of them. *)
LEMMA TracksFinite ==
    /\ IsFiniteSet(Tracks)
    /\ \A S \in SUBSET Tracks : IsFiniteSet(S) /\ Cardinality(S) \in Nat
<1>1. IsFiniteSet(Tracks)
  BY FluxWriteAssumption, FS_Interval DEF Tracks
<1>2. QED
  BY <1>1, FS_Subset, FS_CardinalityType

(* IInv holds at the start. *)
LEMMA InitIInv == Init => IInv
<1> SUFFICES ASSUME Init PROVE IInv
  OBVIOUS
<1>1. TypeInv
  <2>1. disk \in [Tracks -> {"old", "torn", "new"}]
    BY DEF Init
  <2>2. t \in 0..MaxTracks
    BY FluxWriteAssumption DEF Init
  <2>3. QED
    BY <2>1, <2>2 DEF Init, TypeInv
<1>2. ControlInv /\ LateInv /\ MotorIsStopped
  BY DEF Init, ControlInv, LateInv, MotorIsStopped
<1>3. NothingAfterTornTrack
  BY DEF Init, NothingAfterTornTrack, OnDisk
<1>4. QED
  BY <1>1, <1>2, <1>3 DEF IInv

(* The steps that leave the disk alone and the position in the loop keep   *)
(* what is said of the disk.                                               *)
LEMMA DiskKept ==
    ASSUME NothingAfterTornTrack, UNCHANGED <<image, disk, t>>,
           verdict = "error" => verdict' = "error"
    PROVE  NothingAfterTornTrack'
BY DEF NothingAfterTornTrack, OnDisk, Tracks

(* IInv is kept by every step. *)
LEMMA NextIInv == IInv /\ [Next]_vars => IInv'
<1> SUFFICES ASSUME IInv, [Next]_vars PROVE IInv'
  OBVIOUS
<1> USE FluxWriteAssumption
<1>1. CASE RequestCancel \/ Unplug
  <2>1. TypeInv' /\ ControlInv' /\ LateInv' /\ MotorIsStopped'
    BY <1>1, ZenonT(30) DEF IInv, TypeInv, ControlInv, LateInv, MotorIsStopped, RequestCancel, Unplug,
                job, Tracks
  <2>2. NothingAfterTornTrack'
    BY <1>1, DiskKept DEF IInv, RequestCancel, Unplug
  <2>3. QED
    BY <2>1, <2>2 DEF IInv
<1>2. CASE Refuse \/ StartMotor
  <2>1. TypeInv' /\ ControlInv' /\ LateInv' /\ MotorIsStopped'
    BY <1>2 DEF IInv, TypeInv, ControlInv, LateInv, MotorIsStopped, Refuse, StartMotor,
                Fail, job, Tracks
  <2>2. verdict # "error"
    BY <1>2 DEF IInv, ControlInv, Refuse, StartMotor
  <2>3. NothingAfterTornTrack'
    BY <1>2, <2>2, DiskKept DEF IInv, Refuse, StartMotor
  <2>4. QED
    BY <2>1, <2>3 DEF IInv
<1>3. CASE LeaveLoop
  <2>1. TypeInv' /\ ControlInv' /\ LateInv' /\ MotorIsStopped'
    BY <1>3 DEF IInv, TypeInv, ControlInv, LateInv, MotorIsStopped, LeaveLoop, Tracks
  <2>2. NothingAfterTornTrack'
    BY <1>3, DiskKept DEF IInv, LeaveLoop
  <2>3. QED
    BY <2>1, <2>2 DEF IInv
<1>4. CASE SkipAbsent \/ SkipUnreadable
  <2>0. t' \in 0..MaxTracks /\ skipped' \in Nat
    BY <1>4 DEF IInv, TypeInv, SkipAbsent, SkipUnreadable, Looping, job
  <2>1. TypeInv' /\ ControlInv' /\ LateInv' /\ MotorIsStopped'
    <3>1. /\ UNCHANGED <<image, disk, pc, linked, motor, cancel, aborted, written,
                         verdict, late>>
          /\ pc = "loop"
      BY <1>4 DEF SkipAbsent, SkipUnreadable, Looping, job
    <3>2. TypeInv'
      BY <2>0, <3>1 DEF IInv, TypeInv, Tracks
    <3>3. ControlInv' /\ LateInv' /\ MotorIsStopped'
      BY <3>1 DEF IInv, ControlInv, LateInv, MotorIsStopped
    <3>4. QED
      BY <3>2, <3>3
  <2>2. /\ UNCHANGED <<image, disk, verdict>>
        /\ t' = t + 1
        /\ verdict # "error"
    BY <1>4 DEF IInv, ControlInv, SkipAbsent, SkipUnreadable, Looping
  <2>3. t \in Nat
    BY DEF IInv, TypeInv
  <2>4. NothingAfterTornTrack'
    BY <2>2, <2>3 DEF IInv, NothingAfterTornTrack, OnDisk, Tracks
  <2>5. QED
    BY <2>1, <2>4 DEF IInv
<1>5. CASE Seek
  <2>1. TypeInv' /\ ControlInv' /\ LateInv' /\ MotorIsStopped'
    BY <1>5 DEF IInv, TypeInv, ControlInv, LateInv, MotorIsStopped, Seek, Looping, GiveUp,
                Fail, job, Tracks
  <2>2. verdict # "error"
    BY <1>5 DEF IInv, ControlInv, Seek, Looping
  <2>3. NothingAfterTornTrack'
    BY <1>5, <2>2, DiskKept DEF IInv, Seek
  <2>4. QED
    BY <2>1, <2>3 DEF IInv
<1>6. CASE WriteTrack
  <2>1. /\ t \in Tracks /\ t \in Nat /\ image[t] = "good"
        /\ verdict = "none" /\ late = 0
    BY <1>6 DEF IInv, TypeInv, ControlInv, LateInv, WriteTrack, Tracks
  <2>2. \E c \in {"old", "torn", "new"} : disk' = [disk EXCEPT ![t] = c]
    BY <1>6 DEF WriteTrack
  <2>3. disk' \in [Tracks -> {"old", "torn", "new"}]
    BY <2>2 DEF IInv, TypeInv
  <2>4. late' \in {0, 1} /\ (late' = 1 => cancel /\ MaxTracks > 0)
    BY <1>6, <2>1 DEF WriteTrack, Tracks
  <2>5. CASE pc' = "loop"
    <3>1. /\ disk' = [disk EXCEPT ![t] = "new"]
          /\ written' = written + 1
          /\ t' = t + 1
          /\ UNCHANGED <<motor, verdict, image, linked, cancel, aborted, skipped>>
      BY <1>6, <2>5 DEF WriteTrack, GiveUp, Fail
    <3>2. TypeInv'
      BY <2>1, <2>3, <2>4, <2>5, <3>1 DEF IInv, TypeInv, Tracks
    <3>3. ControlInv' /\ LateInv' /\ MotorIsStopped'
      BY <2>1, <2>4, <2>5, <3>1 DEF ControlInv, LateInv, MotorIsStopped
    <3>4. NothingAfterTornTrack'
      <4> SUFFICES ASSUME NEW s \in Tracks, disk'[s] \in {"torn", "new"}
                   PROVE  image'[s] = "good" /\ s < t' /\ disk'[s] = "new"
        BY DEF NothingAfterTornTrack, OnDisk, Tracks
      <4>1. CASE s = t
        BY <2>1, <3>1, <4>1 DEF IInv, TypeInv
      <4>2. CASE s # t
        BY <2>1, <3>1, <4>2 DEF IInv, TypeInv, NothingAfterTornTrack, OnDisk, Tracks
      <4>3. QED
        BY <4>1, <4>2
    <3>5. QED
      BY <3>2, <3>3, <3>4 DEF IInv
  <2>6. CASE pc' # "loop"
    <3>1. /\ motor' = "stopped" /\ pc' = "done" /\ verdict' = "error"
          /\ UNCHANGED <<t, written, image, linked, cancel, aborted, skipped>>
      BY <1>6, <2>6 DEF WriteTrack, GiveUp, Fail
    <3>2. TypeInv'
      BY <2>1, <2>3, <2>4, <3>1 DEF IInv, TypeInv, Tracks
    <3>3. ControlInv' /\ LateInv' /\ MotorIsStopped'
      BY <2>1, <2>4, <3>1 DEF ControlInv, LateInv, MotorIsStopped
    <3>4. NothingAfterTornTrack'
      <4> SUFFICES ASSUME NEW s \in Tracks, disk'[s] \in {"torn", "new"}
                   PROVE  /\ image'[s] = "good"
                          /\ \/ s < t' /\ disk'[s] = "new"
                             \/ s = t' /\ verdict' = "error"
        BY DEF NothingAfterTornTrack, OnDisk, Tracks
      <4>1. CASE s = t
        BY <2>1, <3>1, <4>1
      <4>2. CASE s # t
        BY <2>1, <2>2, <3>1, <4>2 DEF IInv, TypeInv, NothingAfterTornTrack, OnDisk, Tracks
      <4>3. QED
        BY <4>1, <4>2
    <3>5. QED
      BY <3>2, <3>3, <3>4 DEF IInv
  <2>7. QED
    BY <2>5, <2>6
<1>7. CASE Finish
  <2>1. TypeInv' /\ ControlInv' /\ LateInv' /\ MotorIsStopped'
    BY <1>7 DEF IInv, TypeInv, ControlInv, LateInv, MotorIsStopped, Finish, job, Tracks
  <2>2. verdict # "error"
    BY <1>7 DEF IInv, ControlInv, Finish
  <2>3. NothingAfterTornTrack'
    BY <1>7, <2>2, DiskKept DEF IInv, Finish
  <2>4. QED
    BY <2>1, <2>3 DEF IInv
<1>8. CASE UNCHANGED vars
  <2>1. TypeInv' /\ ControlInv' /\ LateInv' /\ MotorIsStopped'
    BY <1>8 DEF IInv, TypeInv, ControlInv, LateInv, MotorIsStopped, vars, job, Tracks
  <2>2. NothingAfterTornTrack'
    BY <1>8, DiskKept DEF IInv, vars
  <2>3. QED
    BY <2>1, <2>2 DEF IInv
<1>9. QED
  BY <1>1, <1>2, <1>3, <1>4, <1>5, <1>6, <1>7, <1>8 DEF Next, Run

(* The disk is never written past a track that failed, at most one write   *)
(* follows a cancel, and the motor is asked to stop on every way out.      *)
THEOREM WritesStopInTime ==
    Spec => [](NothingAfterTornTrack /\ CancelIsPrompt /\ MotorIsStopped)
<1>1. IInv => NothingAfterTornTrack /\ CancelIsPrompt /\ MotorIsStopped
  BY DEF IInv, LateInv, CancelIsPrompt
<1>2. QED
  BY InitIInv, NextIInv, <1>1, PTL DEF Spec

(* In particular a cancel is obeyed before the next track. *)
THEOREM CancelIsObeyed == Spec => []CancelIsPrompt
BY WritesStopInTime, PTL

-----------------------------------------------------------------------------
(* At the start nothing is counted. *)
LEMMA InitCount == Init => CountInv
<1> SUFFICES ASSUME Init PROVE CountInv
  OBVIOUS
<1>1. OnDisk("new") = {} /\ Behind = {}
  BY DEF Init, OnDisk, Behind, Present, Tracks
<1>2. QED
  BY <1>1, FS_EmptySet DEF Init, CountInv

(* The counts follow the tracks that are passed in each turn of the loop.  *)
LEMMA NextCount == IInv /\ CountInv /\ [Next]_vars => CountInv'
<1> SUFFICES ASSUME IInv, CountInv, [Next]_vars PROVE CountInv'
  OBVIOUS
<1>1. CASE verdict' = "error"
  BY <1>1 DEF CountInv
<1>2. CASE UNCHANGED <<image, disk, t, written, skipped, verdict>>
  BY <1>2 DEF CountInv, OnDisk, Behind, Present
<1>3. CASE Finish /\ verdict' # "error"
  <2>1. UNCHANGED <<image, disk, t, written, skipped>> /\ verdict = "none" /\ t = MaxTracks
    BY <1>3 DEF IInv, ControlInv, Finish, job
  <2>2. OnDisk("new")' = OnDisk("new") /\ Behind' = Behind
    BY <2>1 DEF OnDisk, Behind, Present
  <2>3. QED
    BY <2>1, <2>2 DEF CountInv
<1>4. CASE t \in Tracks /\ t' = t + 1 /\ UNCHANGED <<image, verdict>>
           /\ (SkipAbsent \/ SkipUnreadable \/ WriteTrack)
  <2>1. verdict = "none" /\ t \in Nat /\ written \in Nat /\ skipped \in Nat
    BY <1>4 DEF IInv, TypeInv, ControlInv, SkipAbsent, SkipUnreadable, WriteTrack, Looping
  <2>2. IsFiniteSet(Behind) /\ IsFiniteSet(OnDisk("new"))
    BY TracksFinite DEF Behind, Present, OnDisk
  <2>3. Cardinality(Behind) \in Nat /\ Cardinality(OnDisk("new")) \in Nat
    BY <2>2, FS_CardinalityType
  <2>4. t \notin Behind /\ t \notin OnDisk("new")
    BY <2>1 DEF IInv, NothingAfterTornTrack, Behind, OnDisk
  <2>5. image[t] # "absent" => Cardinality(Behind)' = Cardinality(Behind) + 1
    <3> SUFFICES ASSUME image[t] # "absent"
                 PROVE  Cardinality(Behind)' = Cardinality(Behind) + 1
      OBVIOUS
    <3>1. Behind' = Behind \cup {t}
      BY <1>4, <2>1 DEF Behind, Present, Tracks
    <3>2. QED
      BY <2>2, <2>4, <3>1, FS_AddElement
  <2>6. image[t] = "absent" => Behind' = Behind
    BY <1>4, <2>1 DEF Behind, Present, Tracks
  <2>7. CASE SkipAbsent
    <3>1. image[t] = "absent" /\ UNCHANGED <<disk, written, skipped>>
      BY <2>7 DEF SkipAbsent, job
    <3>2. OnDisk("new")' = OnDisk("new")
      BY <3>1 DEF OnDisk
    <3>3. QED
      BY <1>4, <2>1, <2>6, <3>1, <3>2 DEF CountInv
  <2>8. CASE SkipUnreadable
    <3>1. image[t] # "absent" /\ skipped' = skipped + 1 /\ UNCHANGED <<disk, written>>
      BY <2>8 DEF SkipUnreadable
    <3>2. OnDisk("new")' = OnDisk("new")
      BY <3>1 DEF OnDisk
    <3>3. QED
      BY <1>4, <2>1, <2>3, <2>5, <3>1, <3>2 DEF CountInv
  <2>9. CASE WriteTrack
    <3>1. /\ disk' = [disk EXCEPT ![t] = "new"]
          /\ written' = written + 1
          /\ UNCHANGED skipped
      BY <1>4, <2>1, <2>9 DEF WriteTrack, GiveUp, Fail
    <3>2. image[t] # "absent"
      BY <2>9 DEF IInv, ControlInv, WriteTrack
    <3>3. OnDisk("new")' = OnDisk("new") \cup {t}
      BY <1>4, <3>1 DEF IInv, TypeInv, OnDisk
    <3>4. Cardinality(OnDisk("new"))' = Cardinality(OnDisk("new")) + 1
      BY <2>2, <2>4, <3>3, FS_AddElement
    <3>5. QED
      BY <1>4, <2>1, <2>3, <2>5, <3>1, <3>2, <3>4 DEF CountInv
  <2>10. QED
    BY <1>4, <2>7, <2>8, <2>9
<1>5. ASSUME SkipAbsent \/ SkipUnreadable
      PROVE  t \in Tracks /\ t' = t + 1 /\ UNCHANGED <<image, verdict>>
  BY <1>5, FluxWriteAssumption DEF IInv, TypeInv, SkipAbsent, SkipUnreadable, Looping, Tracks
<1>6. ASSUME WriteTrack, verdict' # "error"
      PROVE  t \in Tracks /\ t' = t + 1 /\ UNCHANGED <<image, verdict>>
  <2>1. t \in Tracks
    BY <1>6, FluxWriteAssumption DEF IInv, TypeInv, ControlInv, WriteTrack, Tracks
  <2>2. QED
    BY <1>6, <2>1 DEF WriteTrack, GiveUp, Fail
<1>7. ASSUME RequestCancel \/ Unplug \/ Refuse \/ StartMotor \/ LeaveLoop \/ Seek,
             verdict' # "error"
      PROVE  UNCHANGED <<image, disk, t, written, skipped, verdict>>
  BY <1>7 DEF RequestCancel, Unplug, Refuse, StartMotor, LeaveLoop, Seek, GiveUp, Fail, job
<1>8. CASE UNCHANGED vars
  BY <1>2, <1>8 DEF vars, job
<1>9. QED
  BY <1>1, <1>2, <1>3, <1>4, <1>5, <1>6, <1>7, <1>8 DEF Next, Run

(* No more is counted than the loop has passed. *)
SumInv == written + skipped <= t

LEMMA NextSum == IInv /\ SumInv /\ [Next]_vars => SumInv'
<1> SUFFICES ASSUME IInv, SumInv, [Next]_vars PROVE SumInv'
  OBVIOUS
<1>1. t \in Nat /\ written \in Nat /\ skipped \in Nat
  BY FluxWriteAssumption DEF IInv, TypeInv
<1>2. CASE UNCHANGED <<t, written, skipped>>
  BY <1>2 DEF SumInv
<1>3. CASE SkipAbsent \/ SkipUnreadable
  BY <1>1, <1>3 DEF SumInv, SkipAbsent, SkipUnreadable, job
<1>4. CASE WriteTrack
  BY <1>1, <1>4 DEF SumInv, WriteTrack
<1>5. ASSUME RequestCancel \/ Unplug \/ Refuse \/ StartMotor \/ LeaveLoop \/ Seek
             \/ Finish \/ UNCHANGED vars
      PROVE  UNCHANGED <<t, written, skipped>>
  BY <1>5 DEF RequestCancel, Unplug, Refuse, StartMotor, LeaveLoop, Seek, Finish, vars, job
<1>6. QED
  BY <1>2, <1>3, <1>4, <1>5 DEF Next, Run

(* Every state is well-typed; the counts never exceed the tracks. *)
THEOREM TypeCorrect == Spec => []TypeOK
<1>1. Init => SumInv
  BY DEF Init, SumInv
<1>2. IInv /\ SumInv => TypeOK
  <2> SUFFICES ASSUME IInv, SumInv PROVE TypeOK
    OBVIOUS
  <2>1. written \in 0..MaxTracks /\ skipped \in 0..MaxTracks
    BY FluxWriteAssumption DEF IInv, TypeInv, SumInv
  <2>2. late \in 0..MaxTracks
    BY FluxWriteAssumption DEF IInv, LateInv
  <2>3. QED
    BY <2>1, <2>2 DEF IInv, TypeInv, TypeOK
<1>3. QED
  BY InitIInv, NextIInv, NextSum, <1>1, <1>2, PTL DEF Spec

(* What the counts say of the disk, and that they stay within the tracks.  *)
LEMMA CountsMeanTracks == IInv /\ CountInv => FinishedCountsAreTrue
<1> SUFFICES ASSUME IInv, CountInv, verdict = "finished"
             PROVE  /\ Cardinality(OnDisk("new")) = written
                    /\ written + skipped = Cardinality(Present)
                    /\ OnDisk("torn") = {}
  BY DEF FinishedCountsAreTrue
<1>1. Behind = Present
  BY FluxWriteAssumption DEF CountInv, Behind, Present, Tracks
<1>2. OnDisk("torn") = {}
  BY DEF IInv, NothingAfterTornTrack, OnDisk
<1>3. QED
  BY <1>1, <1>2 DEF CountInv

(* The final message is true: each track of the image has been written or  *)
(* is counted as skipped, and none is unfinished.                          *)
THEOREM FinishedIsTrue == Spec => []FinishedCountsAreTrue
<1>1. IInv /\ CountInv => FinishedCountsAreTrue
  BY CountsMeanTracks
<1>2. QED
  BY InitIInv, NextIInv, InitCount, NextCount, <1>1, PTL DEF Spec
=============================================================================
