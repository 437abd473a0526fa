-------------------------- MODULE FluxCaptureProofs --------------------------
(***************************************************************************)
(* What a capture promises, for every value of the constants.  First the   *)
(* job over all tracks: what it reports, for any number of cylinders,      *)
(* sides and revolutions and whatever fails on the way.  Then the path of  *)
(* one captured track, for every stream of opcodes.  The model of a track  *)
(* is built from recursive functions (Elapsed, Filled, the words of a      *)
(* track and their decoding); what they compute is shown by induction over *)
(* the sets of numbers for which it holds, which rests on the              *)
(* well-foundedness of the natural numbers.                                *)
(***************************************************************************)
EXTENDS FluxCapture, FluxStream, FiniteSetTheorems, SequenceTheorems,
        WellFoundedInduction, TLAPS

-----------------------------------------------------------------------------
(* The job: its inductive invariant.                                       *)

Cyls   == 0 .. (Cylinders - 1)
Places == {"start", "cylinder", "side", "read", "save", "saving", "done"}

TypeInv ==
    /\ cyl \in Nat /\ side \in Nat /\ errors \in Nat
    /\ pc \in Places
    /\ aborted \in BOOLEAN /\ cancel \in BOOLEAN
    /\ stored \in [Tracks -> SUBSET Nat]
    /\ verdict \in {"none", "error", "finished"}

\* Where the loops are
LoopInv ==
    /\ cyl <= Cylinders
    /\ pc \in {"side", "read"} => cyl < Cylinders /\ side <= Sides
    /\ pc = "read" => side < Sides

\* Why they were left
StopInv ==
    /\ pc \in {"save", "saving"} /\ ~aborted => cyl = Cylinders
    /\ pc = "saving" => ~aborted
    /\ pc # "done" => verdict = "none"
    /\ verdict = "finished" => ~aborted /\ cyl = Cylinders

\* What the loops have left without a track so far: a gap of the file is one of
\* these, but it is only a gap of the file at the end.
Seen(x, s) == x < cyl \/ (x = cyl /\ pc \in {"side", "read"} /\ s < side)
Lacking ==
    {x \in Cyls : \E s \in 0 .. (Sides - 1) :
        Seen(x, s) /\ <<x, s>> \notin cut /\ stored[<<x, s>>] = {}}

\* Every cylinder with a gap has raised the count, unless the job has given up.
GapInv == ~aborted => Cardinality(Lacking) <= errors

IInv == TypeInv /\ LoopInv /\ StopInv /\ GapInv

-----------------------------------------------------------------------------
LEMMA CylsFinite == IsFiniteSet(Cyls)
BY FS_Interval, FluxCaptureAssumption DEF Cyls

LEMMA LackingFinite == IsFiniteSet(Lacking) /\ Cardinality(Lacking) \in Nat
<1>1. Lacking \in SUBSET Cyls
    BY DEF Lacking
<1> QED
    BY <1>1, CylsFinite, FS_Subset, FS_CardinalityType

\* A set that grows by one element at most.
LEMMA GrowsByOne ==
    ASSUME NEW S, NEW T, NEW x, IsFiniteSet(S), T \subseteq S \cup {x}
    PROVE  Cardinality(T) <= Cardinality(S) + 1
<1>0. Cardinality(S) \in Nat
    BY FS_CardinalityType
<1>1. IsFiniteSet(S \cup {x}) /\ Cardinality(S \cup {x}) <= Cardinality(S) + 1
    <2>1. /\ IsFiniteSet(S \cup {x})
          /\ Cardinality(S \cup {x}) = IF x \in S THEN Cardinality(S) ELSE Cardinality(S) + 1
        BY FS_AddElement
    <2> QED
        BY <1>0, <2>1
<1>2. Cardinality(T) <= Cardinality(S \cup {x}) /\ IsFiniteSet(T)
    BY <1>1, FS_Subset
<1> QED
    BY <1>0, <1>1, <1>2, FS_CardinalityType

\* A set that does not grow.
LEMMA GrowsNot ==
    ASSUME NEW S, NEW T, IsFiniteSet(S), T \subseteq S
    PROVE  Cardinality(T) <= Cardinality(S)
BY FS_Subset

LEMMA LackingFiniteNext == Cardinality(Lacking') \in Nat
<1>1. Lacking' \in SUBSET Cyls
    BY DEF Lacking
<1> QED
    BY <1>1, CylsFinite, FS_Subset, FS_CardinalityType

\* Steps that add no gap
LEMMA NoGapKeeps ==
    ASSUME IInv, Lacking' \subseteq Lacking, UNCHANGED errors, aborted => aborted'
    PROVE  GapInv'
<1>1. Cardinality(Lacking') <= Cardinality(Lacking)
    BY LackingFinite, GrowsNot
<1>2. Cardinality(Lacking) <= errors => Cardinality(Lacking') <= errors
    BY <1>1, LackingFinite, LackingFiniteNext DEF IInv, TypeInv
<1>3. Cardinality(Lacking') <= errors' <=> Cardinality(Lacking') <= errors
    OBVIOUS
<1> QED
    BY <1>2, <1>3, Zenon DEF IInv, GapInv

\* The slices of one track: what is lost is counted.
LEMMA SlicesCount ==
    ASSUME TypeInv, NEW n \in Nat, AddSlices(n), <<cyl, side>> \in Tracks
    PROVE  /\ errors' \in Nat /\ errors <= errors'
           /\ stored' \in [Tracks -> SUBSET Nat]
           /\ \A t \in Tracks : t # <<cyl, side>> => stored'[t] = stored[t]
           /\ n > 0 /\ stored'[<<cyl, side>>] = {} => errors + 1 <= errors'
<1>1. PICK lost \in SUBSET (0 .. (n - 1)) :
          /\ stored' = [stored EXCEPT ![<<cyl, side>>] = (0 .. (n - 1)) \ lost]
          /\ errors' = errors + Cardinality(lost)
    BY DEF AddSlices
<1>2. IsFiniteSet(0 .. (n - 1)) /\ Cardinality(0 .. (n - 1)) = n
    BY FS_Interval, SMTT(30)
<1>3. IsFiniteSet(lost) /\ Cardinality(lost) \in Nat
    BY <1>2, FS_Subset, FS_CardinalityType
<1>4. errors' \in Nat /\ errors <= errors'
    BY <1>1, <1>3 DEF TypeInv
<1>5. /\ stored' \in [Tracks -> SUBSET Nat]
      /\ \A t \in Tracks : t # <<cyl, side>> => stored'[t] = stored[t]
      /\ stored'[<<cyl, side>>] = (0 .. (n - 1)) \ lost
    BY <1>1 DEF TypeInv
<1>6. ASSUME n > 0, stored'[<<cyl, side>>] = {} PROVE errors + 1 <= errors'
    <2>1. lost = 0 .. (n - 1)
        BY <1>5, <1>6
    <2>2. Cardinality(lost) = n
        BY <2>1, <1>2
    <2> QED
        BY <2>2, <1>1, <1>6 DEF TypeInv
<1> QED
    BY <1>4, <1>5, <1>6

-----------------------------------------------------------------------------
LEMMA InitIInv == Init => IInv
<1> SUFFICES ASSUME Init PROVE IInv
    OBVIOUS
<1>1. TypeInv /\ LoopInv
    <2>1. /\ cyl \in Nat /\ side \in Nat /\ errors \in Nat /\ cyl <= Cylinders
          /\ stored \in [Tracks -> SUBSET Nat]
        BY FluxCaptureAssumption DEF Init
    <2> QED
        BY <2>1, Zenon DEF Init, TypeInv, LoopInv, Places
<1>3. StopInv
    BY Zenon DEF Init, StopInv
<1>2. Lacking = {}
    <2>1. cyl = 0 /\ pc = "start"
        BY DEF Init
    <2>2. \A x \in Cyls, t \in 0 .. (Sides - 1) : ~Seen(x, t)
        BY <2>1, FluxCaptureAssumption DEF Seen, Cyls
    <2> QED
        BY <2>2, Zenon DEF Lacking
<1>4. Cardinality(Lacking) <= errors
    BY <1>2, FS_EmptySet DEF Init
<1> QED
    BY <1>1, <1>3, <1>4, Zenon DEF IInv, GapInv

\* One step of the loops each.
LEMMA SeekKeeps == IInv /\ Seek => IInv'
<1> SUFFICES ASSUME IInv, Seek PROVE IInv'
    OBVIOUS
<1> USE FluxCaptureAssumption
<1>0. /\ pc = "cylinder" /\ cyl < Cylinders /\ ~aborted
      /\ UNCHANGED <<stored, cut, cancel, verdict>> /\ verdict = "none"
    BY DEF Seek, out, IInv, StopInv
<1>1. CASE side' = 0 /\ pc' = "side" /\ UNCHANGED <<cyl, aborted, errors>>
    <2>1. TypeInv' /\ LoopInv'
        BY <1>0, <1>1 DEF IInv, TypeInv, LoopInv, Places
    <2>2. Lacking' \subseteq Lacking
        BY <1>0, <1>1 DEF Lacking, Seen, IInv, TypeInv, Cyls
    <2>3. StopInv'
        BY <1>0, <1>1, Zenon DEF StopInv
    <2> QED
        BY <1>1, <2>1, <2>2, <2>3, NoGapKeeps, Zenon DEF IInv
<1>2. CASE /\ errors' = errors + 1 /\ cyl' = cyl + 1
           /\ aborted' \in {TRUE, ~linked} /\ UNCHANGED <<side, pc>>
    <2>0. cyl' \in Nat /\ errors' \in Nat /\ cyl' <= Cylinders
        BY <1>0, <1>2 DEF IInv, TypeInv
    <2>1. TypeInv' /\ LoopInv' /\ StopInv'
        <3>1. aborted' \in BOOLEAN
            BY <1>2, Zenon
        <3> QED
            BY <1>0, <1>2, <2>0, <3>1, Zenon DEF IInv, TypeInv, LoopInv, StopInv, Places
    <2>2. Lacking' \subseteq Lacking \cup {cyl}
        BY <1>0, <1>2 DEF Lacking, Seen, IInv, TypeInv, Cyls
    <2>3. Cardinality(Lacking') <= Cardinality(Lacking) + 1
        BY <2>2, LackingFinite, GrowsByOne
    <2>4. Cardinality(Lacking) <= errors
        BY <1>0, Zenon DEF IInv, GapInv
    <2>5. Cardinality(Lacking') <= errors'
        BY <1>2, <2>3, <2>4, LackingFinite, LackingFiniteNext DEF IInv, TypeInv
    <2> QED
        BY <2>1, <2>5, Zenon DEF IInv, GapInv
<1> QED
    BY <1>1, <1>2 DEF Seek

LEMMA NextSideKeeps == IInv /\ NextSide => IInv'
<1> SUFFICES ASSUME IInv, NextSide PROVE IInv'
    OBVIOUS
<1> USE FluxCaptureAssumption
<1>0. /\ pc = "side" /\ cyl < Cylinders /\ side <= Sides /\ cyl \in Nat /\ side \in Nat
      /\ UNCHANGED <<side, stored, cut, cancel, verdict, errors>> /\ verdict = "none"
      /\ aborted' = (aborted \/ (side < Sides /\ cancel))
    BY DEF NextSide, out, IInv, LoopInv, StopInv, TypeInv
<1>1. CASE side < Sides /\ ~aborted /\ ~cancel
    <2>0. pc' = "read" /\ cyl' = cyl /\ aborted' = FALSE
        BY <1>0, <1>1 DEF NextSide
    <2>1. TypeInv' /\ LoopInv'
        BY <1>0, <1>1, <2>0 DEF IInv, TypeInv, LoopInv, Places
    <2>2. Lacking' \subseteq Lacking
        BY <1>0, <2>0 DEF Lacking, Seen
    <2>3. StopInv' /\ (aborted => aborted')
        BY <1>0, <1>1, <2>0, Zenon DEF StopInv
    <2> QED
        BY <1>0, <2>1, <2>2, <2>3, NoGapKeeps, Zenon DEF IInv
<1>2. CASE ~(side < Sides /\ ~aborted /\ ~cancel)
    <2>0. pc' = "cylinder" /\ cyl' = cyl + 1
        BY <1>0, <1>2 DEF NextSide
    <2>1. aborted' \in BOOLEAN
        BY <1>0, Zenon DEF IInv, TypeInv
    <2>2. TypeInv' /\ LoopInv' /\ StopInv'
        <3>1. cyl' \in Nat /\ cyl' <= Cylinders
            BY <1>0, <2>0
        <3> QED
            BY <1>0, <2>0, <2>1, <3>1, Zenon DEF IInv, TypeInv, LoopInv, StopInv, Places
    <2>3. ASSUME ~aborted' PROVE GapInv'
        <3>1. ~(side < Sides) /\ (aborted => aborted')
            BY <1>0, <1>2, <2>3, Zenon
        <3>2. side = Sides
            BY <1>0, <3>1
        <3>3. Lacking' \subseteq Lacking
            BY <1>0, <2>0, <3>2 DEF Lacking, Seen, Cyls
        <3> QED
            BY <1>0, <3>1, <3>3, NoGapKeeps, Zenon
    <2>4. aborted' => GapInv'
        BY Zenon DEF GapInv
    <2> QED
        BY <2>2, <2>3, <2>4, Zenon DEF IInv
<1> QED
    BY <1>1, <1>2

LEMMA ReadTrackKeeps == IInv /\ ReadTrack => IInv'
<1> SUFFICES ASSUME IInv, ReadTrack PROVE IInv'
    OBVIOUS
<1> USE FluxCaptureAssumption
<1>0. /\ pc = "read" /\ cyl < Cylinders /\ side < Sides /\ cyl \in Nat /\ side \in Nat
      /\ UNCHANGED <<cyl, cancel, verdict>> /\ side' = side + 1 /\ pc' = "side"
      /\ errors \in Nat /\ verdict = "none" /\ TypeInv
    BY DEF ReadTrack, out, IInv, LoopInv, StopInv, TypeInv
<1>1. <<cyl, side>> \in Tracks
    BY <1>0 DEF Tracks
<1>2. LoopInv' /\ StopInv'
    <2>1. LoopInv'
        BY <1>0 DEF IInv, LoopInv
    <2>2. StopInv'
        BY <1>0, Zenon DEF StopInv
    <2> QED
        BY <2>1, <2>2
<1>3. ASSUME UNCHANGED aborted, errors' \in Nat, errors <= errors', cut \subseteq cut',
             stored' \in [Tracks -> SUBSET Nat],
             \A t \in Tracks : t # <<cyl, side>> => stored'[t] = stored[t],
             <<cyl, side>> \notin cut' /\ stored'[<<cyl, side>>] = {} => errors + 1 <= errors'
      PROVE  IInv'
    <2>1. TypeInv'
        BY <1>0, <1>3 DEF TypeInv, Places
    <2>2. \A x \in Cyls : x # cyl /\ x \in Lacking' => x \in Lacking
        BY <1>0, <1>3 DEF Lacking, Seen, Cyls, Tracks
    <2>3. ASSUME ~(<<cyl, side>> \notin cut' /\ stored'[<<cyl, side>>] = {}) PROVE Lacking' \subseteq Lacking
        <3>1. cyl \in Lacking' => cyl \in Lacking
            <4> SUFFICES ASSUME NEW s \in 0 .. (Sides - 1), s < side + 1,
                                <<cyl, s>> \notin cut', stored'[<<cyl, s>>] = {}
                         PROVE  cyl \in Lacking
                BY <1>0 DEF Lacking, Seen
            <4>1. s # side
                BY <2>3
            <4>2. <<cyl, s>> \in Tracks /\ <<cyl, s>> # <<cyl, side>> /\ s < side
                BY <1>0, <4>1 DEF Tracks
            <4> QED
                BY <1>0, <1>3, <4>2 DEF Lacking, Seen, Cyls
        <3>2. Lacking' \subseteq Cyls
            BY DEF Lacking
        <3> QED
            BY <3>1, <3>2, <2>2
    <2>4. Lacking' \subseteq Lacking \cup {cyl}
        <3>1. Lacking' \subseteq Cyls
            BY DEF Lacking
        <3> QED
            BY <3>1, <2>2
    <2>5. Cardinality(Lacking') \in Nat
        <3>1. Lacking' \in SUBSET Cyls
            BY DEF Lacking
        <3> QED
            BY <3>1, CylsFinite, FS_Subset, FS_CardinalityType
    <2>6. ASSUME ~aborted PROVE Cardinality(Lacking') <= errors'
        <3>0. Cardinality(Lacking) <= errors /\ Cardinality(Lacking) \in Nat
            BY <2>6, LackingFinite DEF IInv, GapInv
        <3>1. CASE <<cyl, side>> \notin cut' /\ stored'[<<cyl, side>>] = {}
            <4>1. Cardinality(Lacking') <= Cardinality(Lacking) + 1
                BY <2>4, LackingFinite, GrowsByOne
            <4> QED
                BY <3>0, <3>1, <4>1, <1>0, <1>3, <2>5
        <3>2. CASE ~(<<cyl, side>> \notin cut' /\ stored'[<<cyl, side>>] = {})
            <4>1. Cardinality(Lacking') <= Cardinality(Lacking)
                BY <3>2, <2>3, LackingFinite, GrowsNot
            <4> QED
                BY <3>0, <4>1, <1>0, <1>3, <2>5
        <3> QED
            BY <3>1, <3>2
    <2> QED
        BY <1>2, <1>3, <2>1, <2>6 DEF IInv, GapInv
<1>4. ASSUME NEW n \in 1 .. RevsAsked, AddSlices(n), UNCHANGED <<aborted, cut>> PROVE IInv'
    BY <1>0, <1>1, <1>3, <1>4, SlicesCount
<1>5. ASSUME NEW n \in 0 .. RevsAsked, AddSlices(n), cut' = cut \cup {<<cyl, side>>}, UNCHANGED aborted
      PROVE  IInv'
    BY <1>0, <1>1, <1>3, <1>5, SlicesCount
<1>6. CASE errors' = errors + 1 /\ UNCHANGED <<stored, aborted, cut>>
    BY <1>0, <1>3, <1>6 DEF TypeInv
<1>7. CASE aborted' = TRUE /\ UNCHANGED <<stored, errors, cut>>
    BY <1>0, <1>2, <1>7 DEF IInv, TypeInv, GapInv, Places
<1> QED
    BY <1>4, <1>5, <1>6, <1>7 DEF ReadTrack

\* The other steps do not touch the tracks and count nothing.
LEMMA OtherKeeps ==
    ASSUME IInv,
           \/ Refuse \/ StartMotor \/ LeaveCylinders \/ SaveOpen \/ SaveWrite
           \/ RequestCancel \/ Unplug \/ UNCHANGED vars
    PROVE  IInv'
<1> USE FluxCaptureAssumption
<1>1. /\ UNCHANGED <<cyl, side, stored, errors, cut>>
      /\ pc' \notin {"read", "side"} \/ pc' = pc
      /\ pc' \in Places
    BY Zenon DEF Refuse, StartMotor, LeaveCylinders, SaveOpen, SaveWrite, RequestCancel,
           Unplug, Fail, job, vars, IInv, TypeInv, Places
<1>2. LoopInv'
    BY <1>1 DEF IInv, LoopInv
<1>3. aborted' \in BOOLEAN /\ cancel' \in BOOLEAN /\ (aborted => aborted')
    BY Zenon DEF IInv, TypeInv, Refuse, StartMotor, LeaveCylinders, SaveOpen,
        SaveWrite, RequestCancel, Unplug, Fail, job, out, vars
<1>4. verdict' \in {"none", "error", "finished"}
    BY Zenon DEF IInv, TypeInv, Refuse, StartMotor, LeaveCylinders, SaveOpen,
        SaveWrite, RequestCancel, Unplug, Fail, job, out, vars
<1>5. TypeInv'
    BY <1>1, <1>3, <1>4, Zenon DEF IInv, TypeInv
<1>6. StopInv'
    <2>1. CASE LeaveCylinders
        <3>1. ~(cyl < Cylinders) => cyl = Cylinders
            BY DEF IInv, LoopInv, TypeInv
        <3> QED
            BY <2>1, <3>1, Zenon DEF LeaveCylinders, IInv, StopInv, out
    <2>2. CASE Refuse \/ StartMotor
        <3>1. pc' \in {"cylinder", "done"} /\ verdict' # "finished"
              /\ (pc' = "cylinder" => verdict' = verdict /\ pc = "start")
            BY <2>2 DEF Refuse, StartMotor, Fail, IInv, StopInv
        <3> QED
            BY <3>1, Zenon DEF IInv, StopInv
    <2>3. CASE SaveOpen \/ SaveWrite
        <3>1. /\ pc \in {"save", "saving"} /\ pc' \in {"saving", "done"}
              /\ pc' = "saving" => verdict' = verdict /\ ~aborted
              /\ verdict' = "finished" => pc = "saving" \/ verdict = "finished"
              /\ cyl' = cyl /\ aborted' = aborted
            BY <2>3, Zenon DEF SaveOpen, SaveWrite, Fail, job
        <3>2. pc = "saving" => ~aborted
            BY Zenon DEF IInv, StopInv
        <3> QED
            BY <3>1, <3>2, Zenon DEF IInv, StopInv
    <2>4. CASE UNCHANGED <<pc, cyl, aborted, verdict>>
        BY <2>4, Zenon DEF IInv, StopInv
    <2>5. RequestCancel \/ Unplug \/ UNCHANGED vars => UNCHANGED <<pc, cyl, aborted, verdict>>
        BY DEF RequestCancel, Unplug, job, out, vars
    <2> QED
        BY <2>1, <2>2, <2>3, <2>4, <2>5
<1>7. Lacking' \subseteq Lacking
    BY <1>1 DEF Lacking, Seen
<1>8. GapInv'
    BY <1>1, <1>3, <1>7, NoGapKeeps, Zenon
<1> QED
    BY <1>2, <1>5, <1>6, <1>8 DEF IInv

LEMMA NextKeeps == IInv /\ [Next]_vars => IInv'
BY SeekKeeps, NextSideKeeps, ReadTrackKeeps, OtherKeeps DEF Next, Run

LEMMA FinishedCounts == IInv => ErrorsCountTheGaps
<1> SUFFICES ASSUME IInv, verdict = "finished" PROVE Cardinality(Gaps) <= errors
    BY DEF ErrorsCountTheGaps
<1> USE FluxCaptureAssumption
<1>1. ~aborted /\ cyl = Cylinders
    BY Zenon DEF IInv, StopInv
<1>2. Gaps \subseteq Lacking
    BY <1>1 DEF Gaps, Lacking, Seen, Tracks, Cyls
<1>3. Cardinality(Gaps) <= Cardinality(Lacking) /\ Cardinality(Gaps) \in Nat
    BY <1>2, LackingFinite, GrowsNot, FS_Subset, FS_CardinalityType
<1> QED
    BY <1>1, <1>3, LackingFinite DEF IInv, GapInv, TypeInv

-----------------------------------------------------------------------------
\* A capture of any size that reports success with E read errors lacks tracks in
\* at most E cylinders, whatever failed, was cancelled or broke off.
THEOREM FinishedCountsTheGaps == Spec => []ErrorsCountTheGaps
<1>1. Spec => []IInv
    BY InitIInv, NextKeeps, PTL DEF Spec
<1> QED
    BY <1>1, FinishedCounts, PTL

\* What the file holds at every place of the run
FileInv ==
    /\ pc \notin {"saving", "done"} => file = "old"
    /\ pc = "saving" => ~aborted
    /\ pc # "done" => verdict = "none"
    /\ FileFitsVerdict

\* A capture that was stopped has not touched the file, and one that reports
\* success has replaced it, if no write fails as late as at the close.
THEOREM TheFileFits == ASSUME LateErrors = FALSE PROVE Spec => []FileFitsVerdict
<1>1. Init => FileInv
    BY DEF Init, FileInv, FileFitsVerdict
<1>2. FileInv /\ [Next]_vars => FileInv'
    <2> SUFFICES ASSUME FileInv, [Next]_vars PROVE FileInv'
        OBVIOUS
    <2>1. CASE Refuse \/ StartMotor \/ LeaveCylinders \/ Seek \/ NextSide \/ ReadTrack
        BY <2>1 DEF Refuse, StartMotor, LeaveCylinders, Seek, NextSide, ReadTrack, Fail,
                    FileInv, FileFitsVerdict, out, job
    <2>2. CASE SaveOpen \/ SaveWrite
        BY <2>2 DEF SaveOpen, SaveWrite, Fail, FileInv, FileFitsVerdict, job
    <2>3. CASE RequestCancel \/ Unplug \/ UNCHANGED vars
        BY <2>3 DEF RequestCancel, Unplug, FileInv, FileFitsVerdict, job, out, vars
    <2> QED
        BY <2>1, <2>2, <2>3 DEF Next, Run
<1>3. FileInv => FileFitsVerdict
    BY DEF FileInv
<1> QED
    BY <1>1, <1>2, <1>3, PTL DEF Spec

-----------------------------------------------------------------------------
(* Induction, and the functions defined by recursion on 0..n.              *)

Less == {p \in Nat \X Nat : p[1] < p[2]}

LEMMA LessIsWellFounded == IsWellFoundedOn(Less, Nat)
<1>1. OpToRel(<, Nat) = Less
    BY Zenon DEF OpToRel, Less
<1> QED
    BY <1>1, NatLessThanWellFounded, Zenon

LEMMA Least == ASSUME NEW T \in SUBSET Nat, T # {} PROVE \E x \in T : \A y \in T : x <= y
<1>1. PICK x \in T : \A y \in T : ~(<<y, x>> \in Less)
    BY LessIsWellFounded, WFMin, Zenon
<1>2. ASSUME NEW y \in T PROVE x <= y
    <2>1. <<y, x>> \notin Less /\ x \in Nat /\ y \in Nat
        BY <1>1
    <2> QED
        BY <2>1 DEF Less
<1> QED
    BY <1>2

LEMMA SetInduction ==
    ASSUME NEW S \in SUBSET Nat, 0 \in S, \A n \in S : n + 1 \in S
    PROVE  S = Nat
<1> SUFFICES ASSUME Nat \ S # {} PROVE FALSE
    OBVIOUS
<1>1. PICK x \in Nat \ S : \A y \in Nat \ S : x <= y
    BY Least
<1>2. x # 0 /\ x - 1 \in Nat
    BY <1>1
<1>3. x - 1 \in S
    BY <1>1, <1>2
<1>4. (x - 1) + 1 = x
    BY <1>1, <1>2
<1> QED
    BY <1>1, <1>2, <1>3, <1>4

\* On every 0..n there is a function with a first value and a step to the next.
Computes(g, c, F, n) == g[0] = c /\ \A i \in 1..n : g[i] = F[<<g[i - 1], i>>]
Computable(S, c, F) == \A n \in Nat : \E g \in [0..n -> S] : Computes(g, c, F, n)

LEMMA BoundedRecursion ==
    ASSUME NEW S, NEW c \in S, NEW F \in [S \X Nat -> S]
    PROVE  Computable(S, c, F)
<1> DEFINE Q(n) == \E g \in [0..n -> S] :
                       g[0] = c /\ \A i \in 1..n : g[i] = F[<<g[i - 1], i>>]
           G == {n \in Nat : Q(n)}
<1>1. Q(0)
    <2> WITNESS [i \in 0..0 |-> c] \in [0..0 -> S]
    <2> QED
        OBVIOUS
<1>2. ASSUME NEW n \in Nat, Q(n) PROVE Q(n + 1)
    <2>1. PICK g \in [0..n -> S] : g[0] = c /\ \A i \in 1..n : g[i] = F[<<g[i - 1], i>>]
        BY <1>2
    <2> DEFINE h == [i \in 0..(n + 1) |-> IF i \in 0..n THEN g[i] ELSE F[<<g[n], n + 1>>]]
    <2>2. h \in [0..(n + 1) -> S]
        <3>1. g[n] \in S /\ <<g[n], n + 1>> \in S \X Nat
            OBVIOUS
        <3> QED
            BY <3>1
    <2>3. /\ \A i \in 0..n : h[i] = g[i]
          /\ h[n + 1] = F[<<g[n], n + 1>>]
        OBVIOUS
    <2> HIDE DEF h
    <2>4. ASSUME NEW i \in 1..(n + 1) PROVE h[i] = F[<<h[i - 1], i>>]
        <3>1. CASE i \in 1..n
            BY <3>1, <2>1, <2>3
        <3>2. CASE i = n + 1
            <4>1. i - 1 = n
                BY <3>2
            <4> QED
                BY <3>2, <4>1, <2>3, SMTT(30)
        <3> QED
            BY <3>1, <3>2
    <2>5. h[0] = c
        BY <2>1, <2>3
    <2> QED
        BY <2>2, <2>4, <2>5
<1>3. 0 \in G /\ \A n \in G : n + 1 \in G
    BY <1>1, <1>2
<1> HIDE DEF Q
<1>4. G = Nat
    BY <1>3, SetInduction
<1> QED
    BY <1>4 DEF Q, Computable, Computes

\* Two functions on 0..n that start alike and go on alike are one.
GoAlike(f, g, n) ==
    /\ f = [i \in 0..n |-> f[i]] /\ g = [i \in 0..n |-> g[i]]
    /\ f[0] = g[0]
    /\ \A i \in 1..n : f[i - 1] = g[i - 1] => f[i] = g[i]

LEMMA RecursionUnique == ASSUME NEW n \in Nat, NEW f, NEW g, GoAlike(f, g, n) PROVE f = g
<1> DEFINE S == {i \in Nat : i \in 0..n => f[i] = g[i]}
<1>1. 0 \in S
    BY DEF GoAlike
<1>2. ASSUME NEW i \in S PROVE i + 1 \in S
    <2> SUFFICES ASSUME i + 1 \in 0..n PROVE f[i + 1] = g[i + 1]
        OBVIOUS
    <2>1. i + 1 \in 1..n /\ (i + 1) - 1 = i /\ i \in 0..n
        OBVIOUS
    <2>2. f[i] = g[i]
        BY <2>1
    <2> QED
        BY <2>1, <2>2 DEF GoAlike
<1>3. S \in SUBSET Nat
    OBVIOUS
<1> HIDE DEF S
<1>4. S = Nat
    BY <1>1, <1>2, <1>3, SetInduction
<1>5. \A i \in 0..n : f[i] = g[i]
    BY <1>4 DEF S
<1> QED
    BY <1>5 DEF GoAlike

-----------------------------------------------------------------------------
(* Sequences that grow at their end.                                       *)

Begins(u, v) == Len(u) <= Len(v) /\ \A i \in 1..Len(u) : v[i] = u[i]

LEMMA BeginsIs ==
    ASSUME NEW X, NEW u \in Seq(X), NEW v \in Seq(X), Begins(u, v)
    PROVE  SubSeq(v, 1, Len(u)) = u
BY DEF Begins

LEMMA ConcatBegins ==
    ASSUME NEW X, NEW u \in Seq(X), NEW v \in Seq(X)
    PROVE  Begins(u, u \o v)
BY DEF Begins

LEMMA AppendBegins ==
    ASSUME NEW X, NEW u \in Seq(X), NEW x \in X
    PROVE  Begins(u, Append(u, x))
BY DEF Begins

LEMMA BeginsAlong ==
    ASSUME NEW X, NEW u \in Seq(X), NEW v \in Seq(X), NEW w \in Seq(X), Begins(u, v), Begins(v, w)
    PROVE  Begins(u, w)
<1>1. Len(u) \in Nat /\ Len(v) \in Nat /\ Len(w) \in Nat
    OBVIOUS
<1>2. Len(u) <= Len(v) /\ Len(v) <= Len(w)
    BY DEF Begins
<1>3. ASSUME NEW i \in 1..Len(u) PROVE w[i] = u[i]
    <2>1. i \in 1..Len(v)
        BY <1>1, <1>2
    <2> QED
        BY <2>1 DEF Begins
<1> QED
    BY <1>1, <1>2, <1>3 DEF Begins

LEMMA ConcatIs ==
    ASSUME NEW X, NEW u \in Seq(X), NEW v \in Seq(X)
    PROVE  /\ Len(u) \in Nat /\ Len(u \o v) = Len(u) + Len(v)
           /\ \A i \in 1..Len(v) : (u \o v)[Len(u) + i] = v[i]
<1>1. Len(u) \in Nat /\ Len(v) \in Nat /\ Len(u \o v) = Len(u) + Len(v)
    OBVIOUS
<1>2. ASSUME NEW i \in 1..Len(v) PROVE (u \o v)[Len(u) + i] = v[i]
    <2>1. /\ Len(u) + i \in 1..(Len(u) + Len(v))
          /\ Len(u) + i > Len(u) /\ (Len(u) + i) - Len(u) = i
        BY <1>1
    <2> QED
        BY <1>1, <2>1
<1> QED
    BY <1>1, <1>2

LEMMA AppendSubSeq ==
    ASSUME NEW X, NEW u \in Seq(X), NEW k \in 0..(Len(u) - 1)
    PROVE  Append(SubSeq(u, 1, k), u[k + 1]) = SubSeq(u, 1, k + 1)
<1>1. Len(u) \in Nat /\ k \in Nat /\ k + 1 \in 1..Len(u) /\ u[k + 1] \in X
    <2>1. Len(u) \in Nat
        OBVIOUS
    <2>2. k + 1 \in 1..Len(u)
        BY <2>1
    <2> QED
        BY <2>1, <2>2
<1>2. SubSeq(u, 1, k) \in Seq(X) /\ Len(SubSeq(u, 1, k)) = k
    BY <1>1
<1>3. SubSeq(u, 1, k + 1) \in Seq(X) /\ Len(SubSeq(u, 1, k + 1)) = k + 1
    BY <1>1
<1>4. \A i \in 1..k : SubSeq(u, 1, k)[i] = u[i]
    BY <1>1
<1>5. \A i \in 1..(k + 1) : SubSeq(u, 1, k + 1)[i] = u[i]
    BY <1>1
<1> DEFINE v == Append(SubSeq(u, 1, k), u[k + 1])
           w == SubSeq(u, 1, k + 1)
<1>6. v \in Seq(X) /\ Len(v) = k + 1 /\ v[k + 1] = u[k + 1] /\ \A i \in 1..k : v[i] = u[i]
    BY <1>1, <1>2, <1>4
<1> HIDE DEF v, w
<1>7. \A i \in 1..(k + 1) : v[i] = w[i]
    BY <1>1, <1>5, <1>6 DEF w
<1>8. w \in Seq(X) /\ Len(w) = k + 1
    BY <1>3 DEF w
<1>9. v = w
    BY <1>1, <1>6, <1>7, <1>8
<1> QED
    BY <1>9 DEF v, w

\* Where each member of a row begins the next one, it begins all that follow.
Grows(g, X, n) ==
    /\ \A i \in 0..n : g[i] \in Seq(X)
    /\ \A i \in 1..n : Begins(g[i - 1], g[i])

LEMMA GrowsAlong ==
    ASSUME NEW X, NEW n \in Nat, NEW g, Grows(g, X, n), NEW k \in 0..n
    PROVE  \A m \in k..n : Begins(g[k], g[m])
<1> DEFINE S == {d \in Nat : k + d \in 0..n => Begins(g[k], g[k + d])}
<1>1. 0 \in S
    BY DEF Grows, Begins
<1>2. ASSUME NEW d \in S PROVE d + 1 \in S
    <2> SUFFICES ASSUME k + (d + 1) \in 0..n PROVE Begins(g[k], g[k + (d + 1)])
        OBVIOUS
    <2> DEFINE m == k + d
    <2>1. m \in 0..n /\ m + 1 \in 1..n /\ k + (d + 1) = m + 1 /\ (m + 1) - 1 = m
        OBVIOUS
    <2>2. Begins(g[k], g[m])
        BY <2>1
    <2> HIDE DEF m
    <2>3. g[k] \in Seq(X) /\ g[m] \in Seq(X) /\ g[m + 1] \in Seq(X) /\ Begins(g[m], g[m + 1])
        BY <2>1 DEF Grows
    <2> QED
        BY <2>1, <2>2, <2>3, BeginsAlong
<1>3. S \in SUBSET Nat
    OBVIOUS
<1> HIDE DEF S
<1>4. S = Nat
    BY <1>1, <1>2, <1>3, SetInduction
<1> SUFFICES ASSUME NEW m \in k..n PROVE Begins(g[k], g[m])
    OBVIOUS
<1>5. m - k \in S /\ k + (m - k) = m /\ m \in 0..n
    BY <1>4
<1> QED
    BY <1>5 DEF S

-----------------------------------------------------------------------------
(* The loop of fluxcapturejob.cpp.                                         *)

\* The running sum of the samples, and that it never falls.
LEMMA ElapsedIs ==
    ASSUME samples \in Seq(Nat)
    PROVE  /\ Elapsed \in [0..Len(samples) -> Nat]
           /\ Elapsed[0] = 0
           /\ \A i \in 1..Len(samples) : Elapsed[i] = Elapsed[i - 1] + samples[i]
<1> DEFINE L == Len(samples)
           F == [p \in Nat \X Nat |-> p[1] + (IF p[2] \in 1..L THEN samples[p[2]] ELSE 0)]
           f == Elapsed
<1>1. L \in Nat /\ \A i \in 1..L : samples[i] \in Nat
    OBVIOUS
<1>2. F \in [Nat \X Nat -> Nat]
    BY <1>1
<1>3. \A a \in Nat, i \in 1..L : F[<<a, i>>] = a + samples[i]
    BY <1>1
<1> HIDE DEF L, F
<1>4. Computable(Nat, 0, F)
    BY <1>2, BoundedRecursion
<1>5. PICK g \in [0..L -> Nat] : g[0] = 0 /\ \A i \in 1..L : g[i] = F[<<g[i - 1], i>>]
    BY <1>1, <1>4 DEF Computable, Computes
<1>6. ASSUME NEW i \in 1..L PROVE g[i] = g[i - 1] + samples[i]
    <2>1. i - 1 \in 0..L
        BY <1>1
    <2> QED
        BY <1>3, <1>5, <2>1
<1>7. g = [n \in 0..L |-> IF n = 0 THEN 0 ELSE g[n - 1] + samples[n]]
    BY <1>1, <1>5, <1>6
<1> DEFINE e(n) == IF n = 0 THEN 0 ELSE f[n - 1] + samples[n]
<1>8. f = [n \in 0..L |-> e(n)]
    BY <1>7, Zenon DEF Elapsed, L
<1> HIDE DEF f, e
<1>9. f = [n \in 0..L |-> f[n]] /\ f[0] = e(0) /\ \A n \in 1..L : f[n] = e(n)
    BY <1>1, <1>8
<1>10. GoAlike(f, g, L)
    BY <1>5, <1>6, <1>9 DEF e, GoAlike
<1>11. f = g
    BY <1>1, <1>10, RecursionUnique
<1> QED
    BY <1>5, <1>6, <1>11 DEF L, f

LEMMA ElapsedMonotone ==
    ASSUME samples \in Seq(Nat), NEW d \in 0..Len(samples), NEW e \in 0..Len(samples), d <= e
    PROVE  Elapsed[d] <= Elapsed[e]
<1> DEFINE L == Len(samples)
           S == {n \in Nat : d + n \in 0..L => Elapsed[d] <= Elapsed[d + n]}
<1>0. L \in Nat /\ \A n \in 0..L : Elapsed[n] \in Nat
    <2>1. Elapsed \in [0..L -> Nat]
        BY ElapsedIs
    <2> QED
        BY <2>1
<1>1. 0 \in S
    BY <1>0
<1>2. ASSUME NEW n \in S PROVE n + 1 \in S
    <2> SUFFICES ASSUME d + (n + 1) \in 0..L PROVE Elapsed[d] <= Elapsed[d + (n + 1)]
        OBVIOUS
    <2>1. /\ d + n \in 0..L /\ d + (n + 1) \in 1..L
          /\ (d + (n + 1)) - 1 = d + n
        BY <1>0
    <2>2. samples[d + (n + 1)] \in Nat
        BY <2>1
    <2>3. Elapsed[d + (n + 1)] = Elapsed[d + n] + samples[d + (n + 1)]
        BY <2>1, ElapsedIs
    <2>4. Elapsed[d] <= Elapsed[d + n] /\ d \in 0..L
        BY <2>1
    <2> QED
        BY <1>0, <2>1, <2>2, <2>3, <2>4, SMTT(30)
<1>3. S \in SUBSET Nat
    OBVIOUS
<1> HIDE DEF S, L
<1>4. S = Nat
    BY <1>1, <1>2, <1>3, SetInduction
<1>5. e - d \in Nat /\ d + (e - d) = e /\ e \in 0..L
    BY DEF L
<1> QED
    BY <1>4, <1>5 DEF S

\* The transitions before an index: all behind them lie at or behind it.
LEMMA BoundaryIs ==
    ASSUME samples \in Seq(Nat), times \in Seq(Nat), NEW k \in 1..Len(times)
    PROVE  /\ Boundary(k) \in 0..Len(samples)
           /\ Boundary(k) = Len(samples) \/ Elapsed[Boundary(k)] >= times[k]
           /\ \A d \in 0..(Boundary(k) - 1) : Elapsed[d] < times[k]
<1> DEFINE L == Len(samples)
           B == {e \in 0..(L - 1) : Elapsed[e] < times[k]}
           T == {e \in 0..L : e = L \/ Elapsed[e] >= times[k]}
<1>0. L \in Nat /\ times[k] \in Nat /\ \A e \in 0..L : Elapsed[e] \in Nat
    <2>1. Elapsed \in [0..L -> Nat]
        BY ElapsedIs
    <2> QED
        BY <2>1
<1>1. T \in SUBSET Nat /\ L \in T
    BY <1>0
<1>2. PICK b \in T : \A y \in T : b <= y
    BY <1>1, Least
<1>3. \A d \in 0..(b - 1) : Elapsed[d] < times[k]
    BY <1>0, <1>2, SMTT(30)
<1>4. B = 0..(b - 1)
    <2>1. ASSUME NEW e \in B PROVE e \in 0..(b - 1)
        <3>1. SUFFICES ASSUME b <= e PROVE FALSE
            BY <1>0, <1>2
        <3>2. b # L /\ b \in 0..L /\ e \in 0..L
            BY <1>0, <1>2, <3>1
        <3>3. Elapsed[b] <= Elapsed[e]
            BY <3>1, <3>2, ElapsedMonotone
        <3> QED
            BY <1>0, <1>2, <3>2, <3>3, SMTT(30)
    <2>2. ASSUME NEW e \in 0..(b - 1) PROVE e \in B
        BY <1>0, <1>2, <1>3
    <2> QED
        BY <2>1, <2>2
<1>5. Cardinality(0..(b - 1)) = b
    BY <1>0, <1>2, FS_Interval
<1>6. k # 0
    OBVIOUS
<1>7. Boundary(k) = b
    BY <1>4, <1>5, <1>6 DEF Boundary
<1> QED
    BY <1>0, <1>2, <1>3, <1>7

\* The inner while stops, at the latest at the end of the samples.
LEMMA SampleEndIs ==
    ASSUME samples \in Seq(Nat), start \in 0..Len(samples), NEW target \in Nat
    PROVE  LET e == SampleEnd(target)
           IN  /\ e \in start..Len(samples)
               /\ e = Len(samples) \/ Elapsed[e] >= target
               /\ \A d \in start..(e - 1) : Elapsed[d] < target
<1> DEFINE L == Len(samples)
           T == {e \in start..L : e = L \/ Elapsed[e] >= target}
<1>0. L \in Nat /\ start \in Nat /\ \A e \in 0..L : Elapsed[e] \in Nat
    <2>1. Elapsed \in [0..L -> Nat]
        BY ElapsedIs
    <2> QED
        BY <2>1
<1>1. T \in SUBSET Nat /\ L \in T
    BY <1>0
<1>2. PICK b \in T : \A y \in T : b <= y
    BY <1>1, Least
<1>3. ASSUME NEW d \in start..(b - 1) PROVE Elapsed[d] < target
    <2>1. d \in start..L /\ d \in 0..L /\ ~(b <= d)
        BY <1>0, <1>2
    <2>2. d \notin T
        BY <1>2, <2>1
    <2> QED
        BY <1>0, <2>1, <2>2
<1>4. \E e \in start..L : /\ e = L \/ Elapsed[e] >= target
                          /\ \A d \in start..(e - 1) : Elapsed[d] < target
    BY <1>2, <1>3
<1> QED
    BY <1>4, Zenon DEF SampleEnd

\* Started where the last index cut, it stops where the next one cuts.
LEMMA SampleEndIsBoundary ==
    ASSUME samples \in Seq(Nat), times \in Seq(Nat), Increasing(times),
           NEW k \in 1..Len(times), start = Boundary(k - 1)
    PROVE  SampleEnd(times[k]) = Boundary(k)
<1> DEFINE L == Len(samples)
           b == Boundary(k)
           e == SampleEnd(times[k])
<1> HIDE DEF b, e
<1>0. L \in Nat /\ times[k] \in Nat /\ \A x \in 0..L : Elapsed[x] \in Nat
    <2>1. Elapsed \in [0..L -> Nat]
        BY ElapsedIs
    <2>2. times[k] \in Nat
        BY ElementOfSeq
    <2> QED
        BY <2>1, <2>2, SMTT(30)
<1>1. /\ b \in 0..L
      /\ b = L \/ Elapsed[b] >= times[k]
      /\ \A d \in 0..(b - 1) : Elapsed[d] < times[k]
    BY BoundaryIs DEF b
<1>2. start \in 0..L /\ start <= b
    <2>1. CASE k = 1
        <3>1. start = 0
            BY <2>1 DEF Boundary
        <3> QED
            BY <1>0, <1>1, <3>1
    <2>2. CASE k # 1
        <3>1. k - 1 \in 1..Len(times) /\ (k - 1) + 1 = k /\ k - 1 \in 1..(Len(times) - 1)
            BY <2>2
        <3>2. times[k - 1] < times[k] /\ times[k - 1] \in Nat
            BY <3>1 DEF Increasing
        <3>3. start \in 0..L /\ \A d \in 0..(start - 1) : Elapsed[d] < times[k - 1]
            BY <3>1, BoundaryIs
        <3>4. SUFFICES ASSUME b < start PROVE FALSE
            BY <1>0, <1>1, <3>3
        <3>5. b \in 0..(start - 1) /\ b # L
            BY <1>0, <1>1, <3>3, <3>4
        <3>6. Elapsed[b] < times[k - 1] /\ Elapsed[b] >= times[k] /\ Elapsed[b] \in Nat
            BY <1>0, <1>1, <3>3, <3>5
        <3> QED
            BY <1>0, <3>2, <3>6
    <2> QED
        BY <2>1, <2>2
<1>3. /\ e \in start..L
      /\ e = L \/ Elapsed[e] >= times[k]
      /\ \A d \in start..(e - 1) : Elapsed[d] < times[k]
    BY <1>0, <1>2, SampleEndIs DEF e
<1> HIDE DEF L
<1>4. ~(e < b)
    BY <1>0, <1>1, <1>2, <1>3, SMTT(30)
<1>5. ~(b < e)
    BY <1>0, <1>1, <1>2, <1>3, SMTT(30)
<1> QED
    BY <1>0, <1>1, <1>2, <1>3, <1>4, <1>5 DEF b, e

Cuts == [from : Nat, to : Nat, duration : Int]

LEMMA BoundaryType ==
    ASSUME samples \in Seq(Nat), times \in Seq(Nat), NEW k \in 0..Len(times)
    PROVE  Boundary(k) \in 0..Len(samples)
<1>1. CASE k = 0
    BY <1>1 DEF Boundary
<1>2. CASE k # 0
    BY <1>2, BoundaryIs
<1> QED
    BY <1>1, <1>2

LEMMA RevolutionType ==
    ASSUME samples \in Seq(Nat), times \in Seq(Nat), NEW k \in 1..Len(times)
    PROVE  Revolution(k) \in Cuts
<1>1. times[k] \in Nat /\ (k # 1 => k - 1 \in 1..Len(times))
    OBVIOUS
<1>2. k # 1 => times[k - 1] \in Nat
    BY <1>1
<1>3. Boundary(k - 1) \in Nat /\ Boundary(k) \in Nat
    <2>1. k - 1 \in 0..Len(times) /\ k \in 0..Len(times)
        OBVIOUS
    <2>2. Boundary(k - 1) \in 0..Len(samples) /\ Boundary(k) \in 0..Len(samples)
        BY <2>1, BoundaryType
    <2> QED
        BY <2>2
<1> QED
    BY <1>1, <1>2, <1>3 DEF Revolution, Cuts

\* The revolutions with a transition, index by index.
LEMMA FilledIs ==
    ASSUME samples \in Seq(Nat), times \in Seq(Nat)
    PROVE  /\ Filled \in [0..Len(times) -> Seq(Cuts)]
           /\ Filled[0] = <<>>
           /\ \A k \in 1..Len(times) :
                  Filled[k] = IF Boundary(k) > Boundary(k - 1)
                                THEN Append(Filled[k - 1], Revolution(k))
                                ELSE Filled[k - 1]
<1> DEFINE L == Len(times)
           Step(s, k) == IF Boundary(k) > Boundary(k - 1) THEN Append(s, Revolution(k)) ELSE s
           F == [p \in Seq(Cuts) \X Nat |-> IF p[2] \in 1..L THEN Step(p[1], p[2]) ELSE p[1]]
           f == Filled
<1>1. L \in Nat
    OBVIOUS
<1>2. ASSUME NEW s \in Seq(Cuts), NEW k \in 1..L PROVE Step(s, k) \in Seq(Cuts)
    BY RevolutionType
<1> HIDE DEF L, Step
<1>3. F \in [Seq(Cuts) \X Nat -> Seq(Cuts)]
    BY <1>2
<1>4. \A s \in Seq(Cuts), k \in 1..L : F[<<s, k>>] = Step(s, k)
    BY <1>1
<1> HIDE DEF F
<1>5. Computable(Seq(Cuts), <<>>, F)
    <2>1. <<>> \in Seq(Cuts)
        OBVIOUS
    <2> QED
        BY <1>3, <2>1, BoundedRecursion
<1>6. PICK g \in [0..L -> Seq(Cuts)] :
          g[0] = <<>> /\ \A k \in 1..L : g[k] = F[<<g[k - 1], k>>]
    BY <1>1, <1>5 DEF Computable, Computes
<1>7. ASSUME NEW k \in 1..L PROVE g[k] = Step(g[k - 1], k)
    <2>1. k - 1 \in 0..L
        BY <1>1
    <2> QED
        BY <1>4, <1>6, <2>1
<1>8. g = [k \in 0..L |-> IF k = 0 THEN <<>> ELSE Step(g[k - 1], k)]
    BY <1>1, <1>6, <1>7
<1> DEFINE e(k) == IF k = 0 THEN <<>> ELSE Step(f[k - 1], k)
<1>9. f = [k \in 0..L |-> e(k)]
    BY <1>8, Zenon DEF Filled, L, Step
<1> HIDE DEF f, e
<1>10. f = [k \in 0..L |-> f[k]] /\ f[0] = e(0) /\ \A k \in 1..L : f[k] = e(k)
    BY <1>1, <1>9
<1>11. GoAlike(f, g, L)
    BY <1>6, <1>7, <1>10 DEF e, GoAlike
<1>12. f = g
    BY <1>1, <1>11, RecursionUnique
<1> QED
    BY <1>6, <1>7, <1>12 DEF L, f, Step

\* What is filled at one index is the beginning of what is filled at a later one.
LEMMA FilledGrows ==
    ASSUME samples \in Seq(Nat), times \in Seq(Nat), NEW k \in 0..Len(times)
    PROVE  \A m \in k..Len(times) : Begins(Filled[k], Filled[m])
<1> DEFINE L == Len(times)
<1>1. L \in Nat /\ \A m \in 0..L : Filled[m] \in Seq(Cuts)
    <2>1. Filled \in [0..L -> Seq(Cuts)]
        BY FilledIs
    <2>2. \A m \in 0..L : Filled[m] \in Seq(Cuts)
        BY <2>1, Zenon
    <2> QED
        BY <2>2
<1>2. ASSUME NEW m \in 1..L PROVE Begins(Filled[m - 1], Filled[m])
    <2>1. m - 1 \in 0..L
        BY <1>1
    <2>2. Filled[m - 1] \in Seq(Cuts) /\ Revolution(m) \in Cuts
        BY <1>1, <2>1, RevolutionType
    <2>3. \/ Filled[m] = Filled[m - 1]
          \/ Filled[m] = Append(Filled[m - 1], Revolution(m))
        BY FilledIs
    <2>4. Begins(Filled[m - 1], Append(Filled[m - 1], Revolution(m)))
        BY <2>2, AppendBegins
    <2>5. Begins(Filled[m - 1], Filled[m - 1])
        BY <2>2 DEF Begins
    <2> QED
        BY <2>3, <2>4, <2>5
<1>3. Grows(Filled, Cuts, L)
    BY <1>1, <1>2 DEF Grows
<1> QED
    BY <1>1, <1>3, GrowsAlong

-----------------------------------------------------------------------------
(* The invariant.                                                          *)

StreamTypes ==
    /\ stage \in {"decode", "split", "saved"}
    /\ ticks \in Nat /\ since \in Int /\ now \in Nat
    /\ flux \in Seq(Nat) /\ index \in Seq(Nat) /\ pulses \in Seq(Nat)
    /\ samples \in Seq(Nat) /\ times \in Seq(0..(Word - 1))
    /\ r \in 0..Len(times) /\ start \in 0..Len(samples) /\ prev \in Nat
    /\ slices \in Seq(Cuts)

\* The time since the last pulse that was counted.
Pulse(k) == IF k = 0 THEN 0 ELSE pulses[k]
IndexInv ==
    /\ Len(index) <= Len(pulses)
    /\ Len(index) < MaxIndices => Len(pulses) = Len(index)
    /\ since = now - Pulse(Len(index))

\* A slice begins where the one before it ends, and the loop goes on at its end.
SliceInv ==
    /\ start = (IF slices = <<>> THEN 0 ELSE slices[Len(slices)].to)
    /\ \A k \in 1..Len(slices) : slices[k].from < slices[k].to
    /\ Len(slices) <= Revs
    /\ stage = "decode" => r = 0 /\ slices = <<>>

\* What has been cut so far is what the contract has filled so far.
CutInv ==
    /\ prev = (IF r = 0 THEN 0 ELSE times[r])
    /\ r = 0 => slices = <<>>
    /\ r > 0 /\ Increasing(times) => start = Boundary(r) /\ slices = Filled[r]

SavedInv == stage = "saved" => slices # <<>> /\ saved = TrackEntry(Revolutions)

StreamInv ==
    /\ StreamTypes /\ IndexInv /\ IndexTimesAreIntervals
    /\ SliceInv /\ NoFluxLostOrDoubled /\ CutInv /\ SavedInv

LEMMA SameCuts ==
    ASSUME UNCHANGED <<samples, times>>
    PROVE  /\ Filled' = Filled
           /\ \A k : Boundary(k)' = Boundary(k)
           /\ Increasing(times)' = Increasing(times)
<1>1. Elapsed' = Elapsed
    BY Zenon DEF Elapsed
<1>2. \A k : Boundary(k)' = Boundary(k)
    BY <1>1 DEF Boundary
<1>3. \A k : Revolution(k)' = Revolution(k)
    BY <1>2 DEF Revolution
<1>4. Filled' = Filled
    BY <1>2, <1>3 DEF Filled
<1> QED
    BY <1>2, <1>4 DEF Increasing

LEMMA PulseIs ==
    ASSUME StreamTypes, IndexInv
    PROVE  /\ \A k \in 0..Len(pulses) : Pulse(k) \in Nat
           /\ Len(index) \in 0..Len(pulses) /\ Pulse(Len(index)) \in Nat
           /\ LastPulse = Pulse(Len(pulses))
<1>1. pulses \in Seq(Nat) /\ Len(index) \in Nat /\ Len(pulses) \in Nat
    BY DEF StreamTypes
<1>2. \A k \in 1..Len(pulses) : pulses[k] \in Nat
    BY <1>1
<1>3. Len(index) <= Len(pulses)
    BY DEF IndexInv
<1> QED
    BY <1>1, <1>2, <1>3 DEF Pulse, LastPulse

LEMMA StreamInitInv == StreamInit => StreamInv
<1> SUFFICES ASSUME StreamInit PROVE StreamInv
    OBVIOUS
<1> USE IndexSplitAssumption DEF StreamInit, SplitInit
<1>1. StreamTypes
    BY DEF StreamTypes
<1>2. IndexInv /\ IndexTimesAreIntervals
    BY DEF IndexInv, IndexTimesAreIntervals, Pulse
<1>3. SliceInv /\ NoFluxLostOrDoubled /\ CutInv /\ SavedInv
    BY DEF SliceInv, NoFluxLostOrDoubled, CutInv, SavedInv
<1> QED
    BY <1>1, <1>2, <1>3 DEF StreamInv

\* Steps that leave the loop where it is.
LEMMA SplitStays ==
    ASSUME StreamInv, UNCHANGED split, stage' = "decode" => stage = "decode"
    PROVE  SliceInv' /\ NoFluxLostOrDoubled' /\ CutInv'
<1>1. SliceInv'
    BY DEF StreamInv, SliceInv, split
<1>2. NoFluxLostOrDoubled'
    BY DEF StreamInv, NoFluxLostOrDoubled, split
<1>3. CutInv'
    <2>1. Filled' = Filled /\ (\A k : Boundary(k)' = Boundary(k)) /\ Increasing(times)' = Increasing(times)
        BY SameCuts DEF split
    <2>2. Boundary(r)' = Boundary(r)
        BY <2>1 DEF split, Boundary
    <2> QED
        BY <2>1, <2>2 DEF StreamInv, CutInv, split
<1> QED
    BY <1>1, <1>2, <1>3

LEMMA DecodedStays ==
    ASSUME StreamInv, UNCHANGED decoded PROVE IndexInv' /\ IndexTimesAreIntervals'
BY DEF StreamInv, IndexInv, IndexTimesAreIntervals, Pulse, decoded

LEMMA DecodeFluxKeeps == ASSUME StreamInv, NEW n \in FluxTicks, DecodeFlux(n) PROVE StreamInv'
<1> USE FluxStreamAssumption DEF DecodeFlux
<1>1. StreamTypes'
    BY DEF StreamInv, StreamTypes, split
<1>2. IndexInv'
    <2> DEFINE last == Pulse(Len(index))
    <2>1. /\ now \in Nat /\ ticks \in Nat /\ since \in Int /\ n \in Nat
          /\ last \in Nat /\ since = now - last
        BY PulseIs DEF StreamInv, StreamTypes, IndexInv
    <2> HIDE DEF last
    <2>2. since' = now' - last
        BY <2>1
    <2>3. Pulse(Len(index))' = Pulse(Len(index))
        BY DEF Pulse
    <2> QED
        BY <2>2, <2>3 DEF StreamInv, IndexInv, last
<1>5. IndexTimesAreIntervals'
    BY DEF StreamInv, IndexTimesAreIntervals
<1>3. SliceInv' /\ NoFluxLostOrDoubled' /\ CutInv'
    BY SplitStays
<1>4. SavedInv'
    BY DEF SavedInv
<1> QED
    BY <1>1, <1>2, <1>3, <1>4, <1>5 DEF StreamInv

LEMMA DecodeSpaceKeeps == ASSUME StreamInv, NEW n \in SpaceTicks, DecodeSpace(n) PROVE StreamInv'
<1> USE FluxStreamAssumption DEF DecodeSpace
<1>1. StreamTypes'
    BY DEF StreamInv, StreamTypes, split
<1>2. IndexInv' /\ IndexTimesAreIntervals'
    BY DEF StreamInv, IndexInv, IndexTimesAreIntervals, Pulse
<1>3. SliceInv' /\ NoFluxLostOrDoubled' /\ CutInv'
    BY SplitStays
<1>4. SavedInv'
    BY DEF SavedInv
<1> QED
    BY <1>1, <1>2, <1>3, <1>4 DEF StreamInv

LEMMA DecodeIndexKeeps == ASSUME StreamInv, NEW n \in IndexTicks, DecodeIndex(n) PROVE StreamInv'
<1> DEFINE at == now + ticks + n
           N == Len(index)
           P == Len(pulses)
<1>1. /\ now \in Nat /\ ticks \in Nat /\ since \in Int /\ n \in Nat /\ at \in Nat
      /\ index \in Seq(Nat) /\ pulses \in Seq(Nat) /\ N \in Nat /\ P \in Nat
    BY FluxStreamAssumption DEF StreamInv, StreamTypes
<1>2. /\ \A k \in 0..P : Pulse(k) \in Nat
      /\ N \in 0..P /\ LastPulse = Pulse(P)
      /\ since = now - Pulse(N)
    BY PulseIs DEF StreamInv, IndexInv
<1>3. pulses' = Append(pulses, at) /\ at > Pulse(P)
    BY <1>2 DEF DecodeIndex
<1>4. /\ Len(pulses') = P + 1 /\ pulses' \in Seq(Nat)
      /\ pulses'[P + 1] = at /\ \A k \in 1..P : pulses'[k] = pulses[k]
    BY <1>1, <1>3
<1>5. \A k \in 1..N : index[k] = pulses[k] - (IF k = 1 THEN 0 ELSE pulses[k - 1])
    BY DEF StreamInv, IndexTimesAreIntervals
<1>6. SliceInv' /\ NoFluxLostOrDoubled' /\ CutInv' /\ SavedInv'
    BY SplitStays DEF StreamInv, SavedInv, DecodeIndex
<1>7. /\ stage \in {"decode", "split", "saved"} /\ flux \in Seq(Nat)
      /\ samples \in Seq(Nat) /\ times \in Seq(0..(Word - 1))
      /\ r \in 0..Len(times) /\ start \in 0..Len(samples) /\ prev \in Nat
      /\ slices \in Seq(Cuts)
    BY DEF StreamInv, StreamTypes
<1>0. UNCHANGED <<stage, ticks, flux, now, split, saved>>
    BY DEF DecodeIndex
<1>8. CASE N < MaxIndices
    <2>1. N = P
        BY <1>8 DEF StreamInv, IndexInv
    <2>2. /\ index' = Append(index, since + ticks + n) /\ since' = -(ticks + n)
          /\ since + ticks + n = at - Pulse(P) /\ at - Pulse(P) \in Nat
        <3> DEFINE last == Pulse(P)
        <3>1. since = now - last /\ last \in Nat /\ at > last
            BY <1>1, <1>2, <1>3, <2>1
        <3> HIDE DEF last
        <3>2. since + ticks + n = at - last /\ at - last \in Nat
            BY <1>1, <3>1
        <3> QED
            BY <1>8, <3>2 DEF last, DecodeIndex
    <2>3. /\ Len(index') = N + 1 /\ index' \in Seq(Nat)
          /\ index'[N + 1] = at - Pulse(P) /\ \A k \in 1..N : index'[k] = index[k]
        BY <1>1, <2>2
    <2>4. StreamTypes'
        BY <1>1, <1>4, <1>7, <1>0, <2>2, <2>3 DEF StreamTypes, split
    <2>5. IndexInv'
        <3>1. Pulse(Len(index))' = at /\ since' = now' - at
            BY <1>1, <1>4, <2>1, <2>2, <2>3, <1>0, SMTT(30) DEF Pulse
        <3> QED
            BY <1>1, <1>4, <2>1, <2>3, <3>1 DEF IndexInv
    <2>6. IndexTimesAreIntervals'
        <3> SUFFICES ASSUME NEW k \in 1..(N + 1)
                     PROVE  index'[k] = pulses'[k] - (IF k = 1 THEN 0 ELSE pulses'[k - 1])
            BY <2>3 DEF IndexTimesAreIntervals
        <3>1. CASE k \in 1..N
            <4>0. k \in 1..P /\ (k # 1 => k - 1 \in 1..P)
                BY <1>1, <2>1, <3>1
            <4>1. /\ index'[k] = index[k] /\ pulses'[k] = pulses[k]
                  /\ k # 1 => pulses'[k - 1] = pulses[k - 1]
                BY <1>4, <2>3, <3>1, <4>0
            <4> QED
                BY <1>5, <3>1, <4>1
        <3>2. CASE k = N + 1
            <4>1. /\ index'[k] = at - Pulse(P) /\ pulses'[k] = at /\ k - 1 = P /\ (k = 1 <=> P = 0)
                  /\ k # 1 => pulses'[k - 1] = pulses[P]
                BY <1>1, <1>4, <2>1, <2>3, <3>2
            <4> QED
                BY <4>1 DEF Pulse
        <3>3. k \in 1..N \/ k = N + 1
            BY <1>1
        <3> QED
            BY <3>1, <3>2, <3>3
    <2> QED
        BY <1>6, <2>4, <2>5, <2>6 DEF StreamInv
<1>9. CASE ~(N < MaxIndices)
    <2>1. UNCHANGED <<index, since>>
        BY <1>9 DEF DecodeIndex
    <2>2. StreamTypes'
        BY <1>0, <1>1, <1>4, <1>7, <2>1 DEF StreamTypes, split
    <2>3. Pulse(Len(index))' = Pulse(N)
        BY <1>1, <1>2, <1>4, <2>1, SMTT(30) DEF Pulse
    <2>4. IndexInv'
        BY <1>0, <1>1, <1>2, <1>4, <1>9, <2>1, <2>3 DEF IndexInv
    <2>5. IndexTimesAreIntervals'
        <3> SUFFICES ASSUME NEW k \in 1..N
                     PROVE  index[k] = pulses'[k] - (IF k = 1 THEN 0 ELSE pulses'[k - 1])
            BY <2>1 DEF IndexTimesAreIntervals
        <3>0. N <= P
            BY <1>1, <1>2
        <3>1. k \in 1..P /\ (k # 1 => k - 1 \in 1..P)
            BY <1>1, <3>0
        <3>2. pulses'[k] = pulses[k] /\ (k # 1 => pulses'[k - 1] = pulses[k - 1])
            BY <1>4, <3>1
        <3> QED
            BY <1>5, <3>2
    <2> QED
        BY <1>6, <2>2, <2>4, <2>5 DEF StreamInv
<1> QED
    BY <1>8, <1>9

LEMMA NsType == ASSUME NEW n \in Nat PROVE Ns(n) \in 0..(Word - 1)
<1>1. n * NsNum \in Nat
    BY FluxStreamAssumption
<1>2. (n * NsNum) \div NsDen \in Nat
    BY <1>1, FluxStreamAssumption
<1> QED
    BY <1>2, IndexSplitAssumption DEF Ns

LEMMA ConvertKeeps == ASSUME StreamInv, Convert PROVE StreamInv'
<1> USE DEF Convert
<1>1. samples' \in Seq(0..(Word - 1)) /\ times' \in Seq(0..(Word - 1))
    <2>1. flux \in Seq(Nat) /\ index \in Seq(Nat)
        BY DEF StreamInv, StreamTypes
    <2>2. ASSUME NEW q \in Seq(Nat) PROVE [k \in DOMAIN q |-> Ns(q[k])] \in Seq(0..(Word - 1))
        <3>1. ASSUME NEW k \in 1..Len(q) PROVE Ns(q[k]) \in 0..(Word - 1)
            <4>1. q[k] \in Nat
                OBVIOUS
            <4> QED
                BY <4>1, NsType
        <3>2. DOMAIN q = 1..Len(q) /\ Len(q) \in Nat
            OBVIOUS
        <3> HIDE DEF Ns
        <3> QED
            BY <3>1, <3>2
    <2> QED
        BY <2>1, <2>2
<1>2. samples' \in Seq(Nat)
    BY <1>1, IndexSplitAssumption
<1>3. r = 0 /\ slices = <<>> /\ start = 0 /\ prev = 0
    BY DEF StreamInv, SliceInv, CutInv
<1>4. StreamTypes'
    BY <1>1, <1>2, <1>3 DEF StreamInv, StreamTypes, decoded
<1>5. IndexInv' /\ IndexTimesAreIntervals'
    BY DEF StreamInv, IndexInv, IndexTimesAreIntervals, decoded, Pulse
<1>6. SliceInv' /\ NoFluxLostOrDoubled' /\ CutInv' /\ SavedInv'
    BY <1>3 DEF StreamInv, SliceInv, NoFluxLostOrDoubled, CutInv, SavedInv
<1> QED
    BY <1>4, <1>5, <1>6 DEF StreamInv

LEMMA ModOfSmall == ASSUME NEW m \in Nat \ {0}, NEW x \in 0..(m - 1) PROVE x % m = x
OBVIOUS

LEMMA SplitStepKeeps == ASSUME StreamInv, SplitStep PROVE StreamInv'
<1> DEFINE k == r + 1
           target == times[k]
           stop == SampleEnd(target)
           piece == [from |-> start, to |-> stop, duration |-> (target - prev) % Word]
           N == Len(slices)
<1>1. /\ stage = "split" /\ samples \in Seq(Nat) /\ times \in Seq(0..(Word - 1)) /\ times \in Seq(Nat)
      /\ r \in Nat /\ k \in 1..Len(times) /\ start \in 0..Len(samples) /\ prev \in Nat
      /\ slices \in Seq(Cuts) /\ N \in Nat /\ N < Revs /\ Word \in Nat \ {0}
    <2>1. times \in Seq(Nat)
        BY IndexSplitAssumption DEF StreamInv, StreamTypes
    <2>2. /\ samples \in Seq(Nat) /\ times \in Seq(0..(Word - 1)) /\ r \in 0..Len(times)
          /\ start \in 0..Len(samples) /\ prev \in Nat /\ slices \in Seq(Cuts)
        BY DEF StreamInv, StreamTypes
    <2>3. stage = "split" /\ r < Len(times) /\ N < Revs
        BY DEF SplitStep, Slice, Splitting
    <2>4. N \in Nat /\ Len(times) \in Nat
        BY <2>2
    <2>5. r \in Nat /\ k \in 1..Len(times)
        BY <2>2, <2>3, <2>4
    <2> QED
        BY <2>1, <2>2, <2>3, <2>4, <2>5, IndexSplitAssumption
<1>2. /\ slices' = (IF stop > start THEN Append(slices, piece) ELSE slices)
      /\ start' = stop /\ prev' = target /\ r' = k
      /\ UNCHANGED <<samples, times, stage, decoded, saved>>
    BY DEF SplitStep, Slice
<1>3. target \in 0..(Word - 1) /\ target \in Nat
    BY <1>1, ElementOfSeq
<1>4. stop \in start..Len(samples)
    BY <1>1, <1>3, SampleEndIs
<1>5. CutInv'
    <2>1. ASSUME Increasing(times) PROVE start' = Boundary(k) /\ slices' = Filled[k]
        <3>1. start = Boundary(r) /\ slices = Filled[r]
            <4>1. CASE r = 0
                BY <4>1, FilledIs, <1>1 DEF StreamInv, CutInv, SliceInv, Boundary
            <4>2. CASE r # 0
                BY <1>1, <2>1, <4>2 DEF StreamInv, CutInv
            <4> QED
                BY <4>1, <4>2
        <3>2. k - 1 = r
            BY <1>1
        <3>3. stop = Boundary(k)
            BY <1>1, <2>1, <3>1, <3>2, SampleEndIsBoundary
        <3>4. (target - prev) % Word = target - (IF k = 1 THEN 0 ELSE times[k - 1])
            <4>1. prev = (IF k = 1 THEN 0 ELSE times[k - 1])
                BY <1>1, <3>2 DEF StreamInv, CutInv
            <4>2. prev <= target
                <5>1. CASE k = 1
                    BY <1>3, <4>1, <5>1
                <5>2. CASE k # 1
                    BY <1>1, <1>3, <2>1, <4>1, <5>2, SMTT(30) DEF Increasing
                <5> QED
                    BY <5>1, <5>2
            <4>3. target - prev \in 0..(Word - 1)
                BY <1>1, <1>3, <4>2, SMTT(30)
            <4> HIDE DEF target
            <4>4. (target - prev) % Word = target - prev
                BY <1>1, <4>3, ModOfSmall
            <4> QED
                BY <4>1, <4>4
        <3>5. piece = Revolution(k)
            BY <3>1, <3>2, <3>3, <3>4 DEF Revolution
        <3> HIDE DEF piece, stop
        <3>6. Filled[k] = IF stop > start THEN Append(slices, piece) ELSE slices
            BY <1>1, <3>1, <3>2, <3>3, <3>5, FilledIs
        <3> QED
            BY <1>2, <3>3, <3>6
    <2>2. Increasing(times)' = Increasing(times) /\ Boundary(r)' = Boundary(k) /\ (Filled[r])' = Filled[k]
        <3>1. Filled' = Filled /\ (\A x : Boundary(x)' = Boundary(x)) /\ Increasing(times)' = Increasing(times)
            BY <1>2, SameCuts
        <3>2. Elapsed' = Elapsed
            BY <1>2, Zenon DEF Elapsed
        <3>3. Boundary(r)' = Boundary(k)
            BY <1>2, <3>2 DEF Boundary
        <3> QED
            BY <1>2, <3>1, <3>3
    <2>3. r' # 0 /\ prev' = times'[r']
        BY <1>1, <1>2
    <2> QED
        BY <2>1, <2>2, <2>3 DEF CutInv
<1> HIDE DEF target, stop
<1>6. (target - prev) % Word \in Int
    BY <1>1, <1>3
<1>7. piece \in Cuts
    BY <1>1, <1>4, <1>6 DEF Cuts
<1>8. piece.from = start /\ piece.to = stop
    OBVIOUS
<1> HIDE DEF piece
<1>9. start = (IF slices = <<>> THEN 0 ELSE slices[N].to)
    BY DEF StreamInv, SliceInv
<1>10. CASE stop > start
    <2>1. /\ slices' = Append(slices, piece) /\ Len(slices') = N + 1 /\ slices' \in Seq(Cuts)
          /\ slices'[N + 1] = piece /\ \A j \in 1..N : slices'[j] = slices[j]
        BY <1>1, <1>2, <1>7, <1>10
    <2>2. StreamTypes'
        BY <1>1, <1>2, <1>3, <1>4, <2>1 DEF StreamInv, StreamTypes, decoded
    <2>3. SliceInv'
        <3>1. \A j \in 1..(N + 1) : slices'[j].from < slices'[j].to
            BY <1>1, <1>8, <1>10, <2>1 DEF StreamInv, SliceInv
        <3> QED
            <4>1. start' = stop /\ slices'[Len(slices')].to = stop /\ slices' # <<>>
                <5>1. start' = stop
                    BY <1>2
                <5>2. Len(slices') = N + 1 /\ slices'[N + 1].to = stop /\ N + 1 # 0
                    BY <1>1, <1>8, <2>1
                <5>3. slices' # <<>>
                    BY <5>2
                <5> QED
                    BY <5>1, <5>2, <5>3
            <4>2. Len(slices') <= Revs
                BY <1>1, <2>1, IndexSplitAssumption
            <4>3. stage' = "split" /\ \A j \in 1..Len(slices') : slices'[j].from < slices'[j].to
                BY <1>1, <1>2, <2>1, <3>1
            <4> QED
                BY <4>1, <4>2, <4>3 DEF SliceInv
    <2>4. NoFluxLostOrDoubled'
        <3> SUFFICES ASSUME NEW j \in 1..(N + 1)
                     PROVE  /\ slices'[j].from = (IF j = 1 THEN 0 ELSE slices'[j - 1].to)
                            /\ slices'[j].to <= stop
            BY <1>2, <2>1 DEF NoFluxLostOrDoubled
        <3>1. CASE j \in 1..N
            <4>1. slices'[j] = slices[j] /\ (j # 1 => slices'[j - 1] = slices[j - 1])
                <5>1. j # 1 => j - 1 \in 1..N
                    BY <1>1, <3>1
                <5> QED
                    BY <2>1, <3>1, <5>1
            <4>2. /\ slices[j].from = (IF j = 1 THEN 0 ELSE slices[j - 1].to)
                  /\ slices[j].to <= start
                BY <3>1 DEF StreamInv, NoFluxLostOrDoubled
            <4>3. slices[j].to \in Nat
                <5>1. slices[j] \in Cuts
                    BY <1>1, <3>1, ElementOfSeq
                <5> QED
                    BY <5>1 DEF Cuts
            <4>4. start \in Nat /\ stop \in Nat /\ start <= stop
                BY <1>1, <1>4
            <4>5. slices[j].to <= stop
                BY <4>2, <4>3, <4>4
            <4> QED
                BY <4>1, <4>2, <4>5
        <3>2. CASE j = N + 1
            <4>1. slices'[j] = piece /\ j - 1 = N /\ (j = 1 <=> slices = <<>>)
                BY <1>1, <2>1, <3>2
            <4>2. j # 1 => N \in 1..N /\ slices'[j - 1] = slices[N]
                BY <1>1, <2>1, <4>1
            <4> QED
                BY <1>4, <1>8, <1>9, <4>1, <4>2
        <3>3. j \in 1..N \/ j = N + 1
            <4>1. N \in Nat
                BY <1>1
            <4> HIDE DEF N
            <4> QED
                BY <4>1
        <3> QED
            BY <3>1, <3>2, <3>3
    <2> QED
        BY <1>1, <1>2, <1>5, <2>2, <2>3, <2>4, DecodedStays DEF StreamInv, SavedInv
<1>11. CASE ~(stop > start)
    <2>1. slices' = slices /\ start' = start /\ stop = start
        BY <1>1, <1>2, <1>4, <1>11
    <2>2. StreamTypes'
        BY <1>1, <1>2, <1>3, <2>1 DEF StreamInv, StreamTypes, decoded
    <2>3. SliceInv' /\ NoFluxLostOrDoubled'
        BY <1>1, <1>2, <2>1 DEF StreamInv, SliceInv, NoFluxLostOrDoubled
    <2> QED
        BY <1>1, <1>2, <1>5, <2>2, <2>3, DecodedStays DEF StreamInv, SavedInv
<1> QED
    BY <1>10, <1>11

LEMMA SaveKeeps == ASSUME StreamInv, Save PROVE StreamInv'
<1> USE DEF Save
<1>1. StreamTypes'
    BY DEF StreamInv, StreamTypes, decoded, split
<1>2. IndexInv' /\ IndexTimesAreIntervals'
    BY DecodedStays
<1>3. SliceInv' /\ NoFluxLostOrDoubled' /\ CutInv'
    BY SplitStays
<1>4. Revolutions' = Revolutions
    BY DEF Revolutions, split
<1>5. SavedInv'
    BY <1>4 DEF SavedInv, split, TrackEntry
<1> QED
    BY <1>1, <1>2, <1>3, <1>5 DEF StreamInv

LEMMA StutterKeeps == ASSUME StreamInv, UNCHANGED sv PROVE StreamInv'
<1> USE DEF sv
<1>1. StreamTypes'
    BY DEF StreamInv, StreamTypes, decoded, split
<1>2. IndexInv' /\ IndexTimesAreIntervals'
    BY DecodedStays
<1>3. SliceInv' /\ NoFluxLostOrDoubled' /\ CutInv'
    BY SplitStays
<1>4. Revolutions' = Revolutions
    BY DEF Revolutions, split
<1>5. SavedInv'
    BY <1>4 DEF StreamInv, SavedInv, split, TrackEntry
<1> QED
    BY <1>1, <1>2, <1>3, <1>5 DEF StreamInv

LEMMA StreamNextKeeps == StreamInv /\ [StreamNext]_sv => StreamInv'
BY DecodeFluxKeeps, DecodeSpaceKeeps, DecodeIndexKeeps, ConvertKeeps, SplitStepKeeps,
   SaveKeeps, StutterKeeps DEF StreamNext

LEMMA Invariant == StreamSpec => []StreamInv
BY StreamInitInv, StreamNextKeeps, PTL DEF StreamSpec

-----------------------------------------------------------------------------
(* What the loop has cut when it ends is what the contract asks for.       *)
LEMMA CutsAreTheContract == StreamInv => SplitFollowsContract
<1> SUFFICES ASSUME StreamInv, ~Splitting, Increasing(times) PROVE slices = Contract
    BY DEF SplitFollowsContract
<1> DEFINE L == Len(times)
           all == Filled[L]
<1>1. /\ samples \in Seq(Nat) /\ times \in Seq(Nat) /\ L \in Nat /\ r \in 0..L
      /\ slices \in Seq(Cuts) /\ Revs \in Nat \ {0}
    BY IndexSplitAssumption DEF StreamInv, StreamTypes
<1>2. slices = Filled[r]
    <2>1. CASE r = 0
        BY <1>1, <2>1, FilledIs DEF StreamInv, CutInv
    <2>2. CASE r # 0
        BY <1>1, <2>2 DEF StreamInv, CutInv
    <2> QED
        BY <2>1, <2>2
<1>3. all \in Seq(Cuts)
    <2>1. Filled \in [0..L -> Seq(Cuts)]
        BY <1>1, FilledIs
    <2>2. \A m \in 0..L : Filled[m] \in Seq(Cuts)
        BY <2>1, Zenon
    <2>3. L \in 0..L
        BY <1>1
    <2> QED
        BY <2>2, <2>3
<1>4. Begins(slices, all)
    <2>1. L \in r..Len(times)
        BY <1>1
    <2> QED
        BY <1>1, <1>2, <2>1, FilledGrows
<1>5. Len(slices) <= Revs /\ (r = L \/ Len(slices) = Revs)
    BY <1>1 DEF StreamInv, SliceInv, Splitting
<1>6. SubSeq(all, 1, Len(slices)) = slices
    BY <1>1, <1>3, <1>4, BeginsIs
<1>7. Contract = IF Len(all) <= Revs THEN all ELSE SubSeq(all, 1, Revs)
    BY DEF Contract
<1> HIDE DEF all
<1>8. CASE Len(all) <= Revs
    <2>1. CASE r = L
        BY <1>2, <1>7, <1>8, <2>1 DEF all
    <2>2. CASE Len(slices) = Revs
        <3>1. Len(all) = Len(slices)
            BY <1>1, <1>3, <1>4, <1>8, <2>2 DEF Begins
        <3>2. SubSeq(all, 1, Len(all)) = all
            BY <1>3
        <3> QED
            BY <1>6, <1>7, <1>8, <3>1, <3>2
    <2> QED
        BY <1>5, <2>1, <2>2
<1>9. CASE ~(Len(all) <= Revs)
    <2>1. Len(slices) = Revs
        BY <1>1, <1>2, <1>3, <1>5, <1>9 DEF all
    <2> QED
        BY <1>6, <1>7, <1>9, <2>1
<1> QED
    BY <1>8, <1>9

-----------------------------------------------------------------------------
(* The words of a track.                                                   *)

Concats(g, ss) ==
    g[0] = <<>> /\ \A i \in 1..Len(ss) : g[i] = g[i - 1] \o ss[i]

LEMMA FlattenIs ==
    ASSUME NEW X, NEW ss \in Seq(Seq(X))
    PROVE  \E g \in [0..Len(ss) -> Seq(X)] : Concats(g, ss) /\ FlattenSeq(ss) = g[Len(ss)]
<1> DEFINE n == Len(ss)
           F == [p \in Seq(X) \X Nat |-> IF p[2] \in 1..n THEN p[1] \o ss[p[2]] ELSE p[1]]
<1>1. n \in Nat /\ \A i \in 1..n : ss[i] \in Seq(X)
    OBVIOUS
<1> HIDE DEF n
<1>2. F \in [Seq(X) \X Nat -> Seq(X)]
    BY <1>1
<1>3. \A u \in Seq(X), i \in 1..n : F[<<u, i>>] = u \o ss[i]
    <2>1. \A u \in Seq(X), i \in 1..n : <<u, i>> \in Seq(X) \X Nat
        BY <1>1
    <2> QED
        BY <2>1, Zenon
<1> HIDE DEF F
<1>4. Computable(Seq(X), <<>>, F)
    <2>1. <<>> \in Seq(X)
        OBVIOUS
    <2> QED
        BY <1>2, <2>1, BoundedRecursion
<1>5. PICK g \in [0..n -> Seq(X)] : g[0] = <<>> /\ \A i \in 1..n : g[i] = F[<<g[i - 1], i>>]
    BY <1>1, <1>4 DEF Computable, Computes
<1>6. ASSUME NEW i \in 1..n PROVE g[i] = g[i - 1] \o ss[i]
    <2>1. i - 1 \in 0..n
        BY <1>1
    <2> QED
        BY <1>3, <1>5, <2>1
<1>7. Concats(g, ss)
    BY <1>5, <1>6 DEF Concats, n
<1>10. n # 0 => g[1] = ss[1]
    <2> SUFFICES ASSUME n # 0 PROVE g[1] = ss[1]
        OBVIOUS
    <2>1. 1 \in 1..n /\ 1 - 1 = 0
        BY <1>1
    <2>2. g[1] = g[0] \o ss[1]
        BY <1>6, <2>1
    <2> QED
        BY <1>1, <1>5, <2>1, <2>2
<1>8. CASE n = 0
    <2>1. FlattenSeq(ss) = <<>>
        BY <1>8 DEF FlattenSeq, n
    <2> QED
        BY <1>5, <1>7, <1>8, <2>1 DEF n
<1>9. CASE n # 0
    <2> DEFINE flatten[i \in 1..n] == IF i = 1 THEN ss[i] ELSE flatten[i - 1] \o ss[i]
               h == [i \in 1..n |-> g[i]]
               f == [i \in 0..n |-> IF i = 0 THEN <<>> ELSE flatten[i]]
               e(i) == IF i = 1 THEN ss[i] ELSE flatten[i - 1] \o ss[i]
    <2>1. FlattenSeq(ss) = flatten[n]
        BY <1>9, Zenon DEF FlattenSeq, n
    <2>2. h = [i \in 1..n |-> IF i = 1 THEN ss[i] ELSE h[i - 1] \o ss[i]]
        <3>1. ASSUME NEW i \in 1..n PROVE h[i] = IF i = 1 THEN ss[i] ELSE h[i - 1] \o ss[i]
            <4>1. CASE i = 1
                BY <1>9, <1>10, <4>1
            <4>2. CASE i # 1
                <5>1. i - 1 \in 1..n
                    BY <1>1, <4>2
                <5> QED
                    BY <1>6, <4>2, <5>1
            <4> QED
                BY <4>1, <4>2
        <3> QED
            BY <3>1
    <2>3. flatten = [i \in 1..n |-> e(i)]
        <3> HIDE DEF h
        <3> QED
            BY <2>2, Zenon
    <2> HIDE DEF flatten, e
    <2>4. \A i \in 1..n : flatten[i] = e(i)
        BY <2>3
    <2>5. GoAlike(f, g, n)
        <3>1. ASSUME NEW i \in 1..n, f[i - 1] = g[i - 1] PROVE f[i] = g[i]
            <4>0. i - 1 \in 0..n /\ f[i] = e(i)
                BY <1>1, <2>4
            <4>1. CASE i = 1
                BY <1>9, <1>10, <4>0, <4>1 DEF e
            <4>2. CASE i # 1
                <5>1. i - 1 # 0 /\ f[i - 1] = flatten[i - 1]
                    BY <1>1, <4>0, <4>2
                <5> QED
                    BY <1>6, <3>1, <4>0, <4>2, <5>1 DEF e
            <4> QED
                BY <4>1, <4>2
        <3>2. f = [i \in 0..n |-> f[i]] /\ f[0] = g[0] /\ g = [i \in 0..n |-> g[i]]
            BY <1>1, <1>5
        <3> HIDE DEF f
        <3> QED
            BY <3>1, <3>2 DEF GoAlike
    <2>6. f = g
        <3> HIDE DEF f
        <3> QED
            BY <1>1, <2>5, RecursionUnique
    <2>7. f[n] = flatten[n]
        BY <1>1, <1>9
    <2> QED
        BY <1>7, <2>1, <2>6, <2>7 DEF n
<1> QED
    BY <1>8, <1>9

LEMMA ConcatsGrow ==
    ASSUME NEW X, NEW ss \in Seq(Seq(X)), NEW g \in [0..Len(ss) -> Seq(X)], Concats(g, ss)
    PROVE  Grows(g, X, Len(ss))
<1>1. Len(ss) \in Nat /\ \A i \in 1..Len(ss) : ss[i] \in Seq(X)
    OBVIOUS
<1>2. \A i \in 0..Len(ss) : g[i] \in Seq(X)
    BY Zenon
<1>3. ASSUME NEW i \in 1..Len(ss) PROVE Begins(g[i - 1], g[i])
    <2>1. i - 1 \in 0..Len(ss)
        BY <1>1
    <2>2. g[i - 1] \in Seq(X) /\ ss[i] \in Seq(X) /\ g[i] = g[i - 1] \o ss[i]
        BY <1>1, <1>2, <2>1 DEF Concats
    <2> QED
        BY <2>2, ConcatBegins
<1> QED
    BY <1>2, <1>3 DEF Grows

\* The first of the sequences begins the one they make up.
LEMMA FlattenBegins ==
    ASSUME NEW X, NEW ss \in Seq(Seq(X)), ss # <<>>
    PROVE  FlattenSeq(ss) \in Seq(X) /\ Begins(ss[1], FlattenSeq(ss))
<1> DEFINE n == Len(ss)
<1>1. n \in Nat /\ 1 \in 1..n /\ ss[1] \in Seq(X)
    OBVIOUS
<1>2. PICK g \in [0..n -> Seq(X)] : Concats(g, ss) /\ FlattenSeq(ss) = g[n]
    BY FlattenIs
<1>3. g[1] = ss[1]
    <2>1. g[1] = g[0] \o ss[1] /\ g[0] = <<>>
        <3>1. 1 - 1 = 0
            OBVIOUS
        <3> QED
            BY <1>1, <1>2, <3>1 DEF Concats
    <2> QED
        BY <1>1, <2>1
<1>4. Grows(g, X, n)
    BY <1>2, ConcatsGrow
<1>5. Begins(g[1], g[n])
    <2> HIDE DEF n
    <2>1. 1 \in 0..n /\ n \in 1..n
        BY <1>1
    <2> QED
        BY <1>1, <1>4, <2>1, GrowsAlong
<1>6. g[n] \in Seq(X)
    BY <1>1, <1>4 DEF Grows
<1> QED
    BY <1>2, <1>3, <1>5, <1>6

\* The zeros of an interval and the word behind them.
Zeros(ns) == Ticks(ns) \div WordRange
Rest(ns) == Ticks(ns) % WordRange

LEMMA WordsOfIs ==
    ASSUME NEW ns \in Nat
    PROVE  /\ Zeros(ns) \in Nat /\ Rest(ns) \in Nat /\ Ticks(ns) \in Nat
           /\ Ticks(ns) = Zeros(ns) * WordRange + Rest(ns)
           /\ Ticks(ns) < WordRange => Zeros(ns) = 0
           /\ WordsOf(ns) \in Seq(Nat) /\ Len(WordsOf(ns)) = Zeros(ns) + 1
           /\ \A i \in 1..Zeros(ns) : WordsOf(ns)[i] = 0
           /\ WordsOf(ns)[Zeros(ns) + 1] = Rest(ns)
<1> DEFINE t == Ticks(ns)
           q == Zeros(ns)
           m == Rest(ns)
<1>1. t \in Nat
    BY ScpFileAssumption DEF Ticks
<1> HIDE DEF t
<1>2. q \in Nat /\ m \in Nat /\ t = q * WordRange + m /\ (t < WordRange => q = 0)
    BY <1>1, ScpFileAssumption DEF Zeros, Rest, t
<1>3. WordsOf(ns) = [k \in 1..q |-> 0] \o <<m>>
    BY DEF WordsOf, Overflows, Zeros, Rest
<1> HIDE DEF q, m
<1>4. /\ WordsOf(ns) \in Seq(Nat) /\ Len(WordsOf(ns)) = q + 1
      /\ \A i \in 1..q : WordsOf(ns)[i] = 0
      /\ WordsOf(ns)[q + 1] = m
    BY <1>2, <1>3
<1> QED
    BY <1>1, <1>2, <1>4 DEF t, q, m

\* The words of one revolution, after each of its intervals.
RevolutionWords(rev) == FlattenSeq([k \in 1..Len(rev) |-> WordsOf(rev[k])])

LaidOut(g, rev) ==
    /\ g[0] = <<>> /\ \A k \in 0..Len(rev) : g[k] \in Seq(Nat) /\ Len(g[k]) >= k
    /\ \A k \in 1..Len(rev) :
           /\ Len(g[k]) = Len(g[k - 1]) + (Zeros(rev[k]) + 1)
           /\ \A i \in 1..Zeros(rev[k]) : g[k][Len(g[k - 1]) + i] = 0
           /\ g[k][Len(g[k])] = Rest(rev[k])
    /\ \A k \in 0..Len(rev) : Begins(g[k], RevolutionWords(rev))

LEMMA WordsAreLaidOut ==
    ASSUME NEW rev \in Seq(Nat)
    PROVE  RevolutionWords(rev) \in Seq(Nat) /\ \E g : LaidOut(g, rev)
<1> DEFINE n == Len(rev)
           ss == [k \in 1..n |-> WordsOf(rev[k])]
<1>1. n \in Nat /\ \A k \in 1..n : rev[k] \in Nat
    OBVIOUS
<1>2. ss \in Seq(Seq(Nat)) /\ Len(ss) = n
    <2>1. \A k \in 1..n : WordsOf(rev[k]) \in Seq(Nat)
        BY <1>1, WordsOfIs
    <2> QED
        BY <1>1, <2>1
<1>3. \A k \in 1..n : ss[k] = WordsOf(rev[k])
    OBVIOUS
<1>4. RevolutionWords(rev) = FlattenSeq(ss)
    BY DEF RevolutionWords
<1> HIDE DEF ss, n
<1>5. PICK g \in [0..n -> Seq(Nat)] : Concats(g, ss) /\ FlattenSeq(ss) = g[n]
    BY <1>2, FlattenIs
<1>6. Grows(g, Nat, n)
    BY <1>2, <1>5, ConcatsGrow
<1>7. \A k \in 0..n : g[k] \in Seq(Nat)
    BY <1>6 DEF Grows
<1>8. ASSUME NEW k \in 1..n
      PROVE  /\ Len(g[k]) = Len(g[k - 1]) + (Zeros(rev[k]) + 1)
             /\ \A i \in 1..Zeros(rev[k]) : g[k][Len(g[k - 1]) + i] = 0
             /\ g[k][Len(g[k])] = Rest(rev[k])
    <2> DEFINE u == g[k - 1]
               v == WordsOf(rev[k])
               q == Zeros(rev[k])
    <2>1. k - 1 \in 0..n
        BY <1>1
    <2>2. u \in Seq(Nat) /\ g[k] = u \o v
        BY <1>2, <1>3, <1>5, <1>7, <2>1 DEF Concats
    <2>3. /\ q \in Nat /\ v \in Seq(Nat) /\ Len(v) = q + 1
          /\ (\A i \in 1..q : v[i] = 0) /\ v[q + 1] = Rest(rev[k])
        BY <1>1, WordsOfIs
    <2> HIDE DEF u, v, q
    <2>4. /\ Len(u \o v) = Len(u) + (q + 1)
          /\ \A i \in 1..(q + 1) : (u \o v)[Len(u) + i] = v[i]
        <3>1. /\ Len(u \o v) = Len(u) + Len(v)
              /\ \A i \in 1..Len(v) : (u \o v)[Len(u) + i] = v[i]
            <4>1. u \in Seq(Nat) /\ v \in Seq(Nat)
                BY <2>2, <2>3
            <4> QED
                BY ONLY <4>1, ConcatIs
        <3> QED
            BY <2>3, <3>1
    <2>5. /\ Len(g[k]) = Len(u) + (q + 1)
          /\ \A i \in 1..q : g[k][Len(u) + i] = 0
          /\ g[k][Len(g[k])] = Rest(rev[k])
        BY <2>2, <2>3, <2>4, SMTT(30)
    <2> QED
        BY <2>5 DEF u, q
<1>9. \A k \in 0..n : Len(g[k]) >= k
    <2> DEFINE S == {k \in Nat : k \in 0..n => Len(g[k]) >= k}
    <2>1. 0 \in S
        BY <1>7
    <2>2. ASSUME NEW k \in S PROVE k + 1 \in S
        <3> SUFFICES ASSUME k + 1 \in 0..n PROVE Len(g[k + 1]) >= k + 1
            OBVIOUS
        <3>1. k + 1 \in 1..n /\ (k + 1) - 1 = k /\ k \in 0..n
            BY <1>1
        <3>2. Len(g[k]) >= k /\ Len(g[k]) \in Nat
            BY <1>7, <3>1
        <3>3. Zeros(rev[k + 1]) \in Nat
            BY <1>1, <3>1, WordsOfIs
        <3>4. Len(g[k + 1]) = Len(g[k]) + (Zeros(rev[k + 1]) + 1)
            BY <1>8, <3>1
        <3> QED
            BY <3>2, <3>3, <3>4
    <2>3. S \in SUBSET Nat
        OBVIOUS
    <2> HIDE DEF S
    <2>4. S = Nat
        BY <2>1, <2>2, <2>3, SetInduction
    <2> QED
        BY <2>4 DEF S
<1>10. ASSUME NEW k \in 0..n PROVE Begins(g[k], g[n])
    <2>1. n \in k..n
        BY <1>1
    <2> QED
        BY <1>1, <1>6, <2>1, GrowsAlong
<1>11. LaidOut(g, rev)
    BY <1>4, <1>5, <1>7, <1>8, <1>9, <1>10 DEF LaidOut, Concats, n
<1>12. RevolutionWords(rev) \in Seq(Nat)
    BY <1>1, <1>4, <1>5, <1>7
<1> QED
    BY <1>11, <1>12

-----------------------------------------------------------------------------
(* What the plugin reads.                                                  *)

States == [overflow : Nat, flux : Seq(Nat)]

\* The state of the reader after each word.
Reads(after, words) ==
    /\ after[0] = [overflow |-> 0, flux |-> <<>>]
    /\ \A n \in 1..Len(words) :
           /\ after[n - 1] \in States
           /\ words[n] = 0 => after[n] = [overflow |-> after[n - 1].overflow + WordRange,
                                          flux |-> after[n - 1].flux]
           /\ words[n] # 0 =>
                after[n] = [overflow |-> 0,
                            flux |-> Append(after[n - 1].flux,
                                            (after[n - 1].overflow + words[n]) * TickNs)]

LEMMA SumTimes ==
    ASSUME NEW x \in Nat, NEW y \in Nat, NEW z \in Nat
    PROVE  (x + y) * z \in Nat /\ x + z \in Nat
OBVIOUS

LEMMA DecodeIs ==
    ASSUME NEW words \in Seq(Nat)
    PROVE  \E after : Reads(after, words) /\ Decode(words) = after[Len(words)].flux
<1> DEFINE L == Len(words)
           Step(was, n) ==
               IF words[n] = 0
                 THEN [was EXCEPT !.overflow = @ + WordRange]
                 ELSE [overflow |-> 0,
                       flux |-> Append(was.flux, (was.overflow + words[n]) * TickNs)]
           zero == [overflow |-> 0, flux |-> <<>>]
           F == [p \in States \X Nat |-> IF p[2] \in 1..L THEN Step(p[1], p[2]) ELSE p[1]]
           after[n \in 0..L] ==
               IF n = 0
                 THEN [overflow |-> 0, flux |-> <<>>]
                 ELSE LET was == after[n - 1]
                      IN  IF words[n] = 0
                            THEN [was EXCEPT !.overflow = @ + WordRange]
                            ELSE [overflow |-> 0,
                                  flux |-> Append(was.flux, (was.overflow + words[n]) * TickNs)]
           e(n) == IF n = 0 THEN zero ELSE Step(after[n - 1], n)
<1>1. L \in Nat /\ \A n \in 1..L : words[n] \in Nat
    OBVIOUS
<1>2. Decode(words) = after[L].flux
    BY Zenon DEF Decode
<1> HIDE DEF L
<1>3. ASSUME NEW s \in States, NEW n \in 1..L
      PROVE  /\ Step(s, n) \in States
             /\ words[n] = 0 => Step(s, n) = [overflow |-> s.overflow + WordRange, flux |-> s.flux]
             /\ words[n] # 0 => Step(s, n) = [overflow |-> 0,
                                     flux |-> Append(s.flux, (s.overflow + words[n]) * TickNs)]
    <2>1. s.overflow \in Nat /\ s.flux \in Seq(Nat) /\ words[n] \in Nat
        BY <1>1 DEF States
    <2>2. (s.overflow + words[n]) * TickNs \in Nat /\ s.overflow + WordRange \in Nat
        BY <2>1, ScpFileAssumption, SumTimes
    <2>3. s = [overflow |-> s.overflow, flux |-> s.flux]
        BY DEF States
    <2> DEFINE x == (s.overflow + words[n]) * TickNs
    <2>4. x \in Nat
        BY <2>2
    <2> HIDE DEF x
    <2>5. Append(s.flux, x) \in Seq(Nat)
        BY <2>1, <2>4
    <2>6. [s EXCEPT !.overflow = @ + WordRange] = [overflow |-> s.overflow + WordRange, flux |-> s.flux]
        BY <2>3
    <2> QED
        BY <2>1, <2>2, <2>5, <2>6 DEF States, x
<1>4. zero \in States
    BY DEF States
<1>5. zero = [overflow |-> 0, flux |-> <<>>]
    OBVIOUS
<1> HIDE DEF Step, zero
<1>7. F \in [States \X Nat -> States]
    BY <1>3
<1>8. \A s \in States, n \in 1..L : F[<<s, n>>] = Step(s, n)
    <2>1. \A s \in States, n \in 1..L : <<s, n>> \in States \X Nat
        BY <1>1
    <2> QED
        BY <2>1, Zenon
<1> HIDE DEF F
<1>9. Computable(States, zero, F)
    BY <1>4, <1>7, BoundedRecursion
<1>10. PICK g \in [0..L -> States] : g[0] = zero /\ \A n \in 1..L : g[n] = F[<<g[n - 1], n>>]
    BY <1>1, <1>9 DEF Computable, Computes
<1>11. ASSUME NEW n \in 1..L PROVE g[n - 1] \in States /\ g[n] = Step(g[n - 1], n)
    <2>1. n - 1 \in 0..L
        BY <1>1
    <2> QED
        BY <1>8, <1>10, <2>1
<1>12. g = [n \in 0..L |-> IF n = 0 THEN zero ELSE Step(g[n - 1], n)]
    <2> HIDE DEF after, e
    <2>1. \A n \in 0..L : g[n] = IF n = 0 THEN zero ELSE Step(g[n - 1], n)
        <3>1. \A n \in 0..L : n = 0 \/ n \in 1..L
            BY <1>1
        <3> QED
            BY <3>1, <1>10, <1>11
    <2>2. g = [n \in 0..L |-> g[n]]
        BY <1>10
    <2> QED
        BY <2>1, <2>2, Zenon
<1>13. after = [n \in 0..L |-> e(n)]
    BY <1>12, Zenon DEF Step, zero
<1> HIDE DEF after, e
<1>14. after = [n \in 0..L |-> after[n]] /\ after[0] = e(0) /\ \A n \in 1..L : after[n] = e(n)
    BY <1>1, <1>13
<1>15. GoAlike(after, g, L)
    BY <1>10, <1>11, <1>14 DEF e, GoAlike
<1>16. after = g
    BY <1>1, <1>15, RecursionUnique
<1>17. Reads(g, words)
    BY <1>3, <1>5, <1>10, <1>11 DEF Reads, L
<1> QED
    BY <1>2, <1>16, <1>17 DEF L

Captured(rev) == [k \in 1..Len(rev) |-> Ticks(rev[k]) * TickNs]

\* After m words the reader has the intervals that end among them, and the
\* ranges of the next one it has begun.
ReadSoFar(after, g, rev, m, k) ==
    /\ k \in 0..Len(rev) /\ Len(g[k]) <= m
    /\ k < Len(rev) => m < Len(g[k + 1])
    /\ after[m] = [overflow |-> (m - Len(g[k])) * WordRange,
                   flux |-> SubSeq(Captured(rev), 1, k)]

LEMMA CapturedIs ==
    ASSUME NEW rev \in Seq(Nat)
    PROVE  /\ Captured(rev) \in Seq(Nat) /\ Len(Captured(rev)) = Len(rev)
           /\ \A k \in 1..Len(rev) : Captured(rev)[k] = Ticks(rev[k]) * TickNs
<1>1. \A k \in 1..Len(rev) : Ticks(rev[k]) * TickNs \in Nat
    <2> SUFFICES ASSUME NEW k \in 1..Len(rev) PROVE Ticks(rev[k]) * TickNs \in Nat
        OBVIOUS
    <2>1. rev[k] \in Nat
        OBVIOUS
    <2>2. Ticks(rev[k]) \in Nat
        BY <2>1, WordsOfIs
    <2> QED
        BY <2>2, ScpFileAssumption
<1>2. Len(rev) \in Nat
    OBVIOUS
<1> QED
    BY <1>1, <1>2 DEF Captured

LEMMA NextWordRead ==
    ASSUME NEW rev \in Seq(Nat), \A k \in 1..Len(rev) : Rest(rev[k]) # 0,
           NEW g, LaidOut(g, rev),
           NEW words \in Seq(Nat), Len(words) = Len(rev), Begins(words, RevolutionWords(rev)),
           NEW after, Reads(after, words),
           NEW m \in 0..(Len(rev) - 1), NEW k, ReadSoFar(after, g, rev, m, k)
    PROVE  ReadSoFar(after, g, rev, m + 1, k) \/ ReadSoFar(after, g, rev, m + 1, k + 1)
<1> DEFINE n == Len(rev)
           c == Captured(rev)
           q == Zeros(rev[k + 1])
           a == Len(g[k])
           d == m - a
           s == after[m]
<1>1. n \in Nat /\ m \in Nat /\ m < n /\ m + 1 \in 1..n /\ (m + 1) - 1 = m
    OBVIOUS
<1>2. k \in 0..n /\ a <= m /\ a \in Nat /\ a >= k /\ k < n
    <2>1. k \in 0..n /\ a <= m
        BY DEF ReadSoFar
    <2>2. g[k] \in Seq(Nat) /\ a >= k
        BY <2>1 DEF LaidOut
    <2>3. a \in Nat
        BY <2>2
    <2> HIDE DEF n, a
    <2> QED
        BY <1>1, <2>1, <2>2, <2>3
<1>3. k + 1 \in 1..n /\ k + 1 \in 0..n /\ (k + 1) - 1 = k
    <2> HIDE DEF n
    <2> QED
        BY <1>1, <1>2
<1>4. /\ Len(g[k + 1]) = a + (q + 1)
      /\ \A i \in 1..q : g[k + 1][a + i] = 0
      /\ g[k + 1][a + (q + 1)] = Rest(rev[k + 1])
    <2>1. /\ Len(g[k + 1]) = Len(g[(k + 1) - 1]) + (q + 1)
          /\ \A i \in 1..q : g[k + 1][Len(g[(k + 1) - 1]) + i] = 0
          /\ g[k + 1][Len(g[k + 1])] = Rest(rev[k + 1])
        BY <1>3 DEF LaidOut
    <2> QED
        BY <1>3, <2>1
<1>5. /\ rev[k + 1] \in Nat /\ q \in Nat /\ Rest(rev[k + 1]) \in Nat
      /\ Ticks(rev[k + 1]) \in Nat /\ Ticks(rev[k + 1]) = q * WordRange + Rest(rev[k + 1])
    <2>1. rev[k + 1] \in Nat
        BY <1>3
    <2> QED
        BY <2>1, WordsOfIs
<1>6. m < a + (q + 1)
    <2>1. m < Len(g[k + 1])
        BY <1>2 DEF ReadSoFar
    <2> QED
        BY <1>4, <2>1
<1> HIDE DEF a, q
<1>7. d \in 0..q /\ m + 1 = a + (d + 1)
    BY <1>1, <1>2, <1>5, <1>6
<1>8. words[m + 1] = g[k + 1][a + (d + 1)]
    <2>1. words[m + 1] = RevolutionWords(rev)[m + 1]
        BY <1>1 DEF Begins
    <2>2. m + 1 \in 1..Len(g[k + 1])
        BY <1>1, <1>2, <1>4, <1>5, <1>6
    <2>3. Begins(g[k + 1], RevolutionWords(rev))
        BY <1>3 DEF LaidOut
    <2>4. RevolutionWords(rev)[m + 1] = g[k + 1][m + 1]
        BY <2>2, <2>3 DEF Begins
    <2> QED
        BY <1>7, <2>1, <2>4
<1>9. /\ s.overflow = d * WordRange /\ s.flux = SubSeq(c, 1, k)
      /\ words[m + 1] = 0 => after[m + 1] = [overflow |-> s.overflow + WordRange, flux |-> s.flux]
      /\ words[m + 1] # 0 =>
           after[m + 1] = [overflow |-> 0, flux |-> Append(s.flux, (s.overflow + words[m + 1]) * TickNs)]
    <2>1. s = [overflow |-> d * WordRange, flux |-> SubSeq(c, 1, k)]
        BY DEF ReadSoFar, a
    <2>2. m + 1 \in 1..Len(words)
        BY <1>1
    <2>3. /\ words[m + 1] = 0 => after[m + 1] = [overflow |-> after[(m + 1) - 1].overflow + WordRange,
                                                  flux |-> after[(m + 1) - 1].flux]
          /\ words[m + 1] # 0 =>
               after[m + 1] = [overflow |-> 0,
                               flux |-> Append(after[(m + 1) - 1].flux,
                                               (after[(m + 1) - 1].overflow + words[m + 1]) * TickNs)]
        BY <2>2 DEF Reads
    <2>4. after[(m + 1) - 1] = s
        BY <1>1
    <2> HIDE DEF s, c, d
    <2>5. s.overflow = d * WordRange /\ s.flux = SubSeq(c, 1, k)
        BY <2>1
    <2> QED
        BY <2>3, <2>4, <2>5
<1>10. /\ c \in Seq(Nat) /\ Len(c) = n
       /\ c[k + 1] = Ticks(rev[k + 1]) * TickNs
    BY <1>3, CapturedIs
<1> HIDE DEF c, s, n
<1>11. CASE d # q
    <2>1. d + 1 \in 1..q
        BY <1>1, <1>2, <1>5, <1>7, <1>11
    <2>2. words[m + 1] = 0
        BY <1>4, <1>8, <2>1
    <2>3. d * WordRange + WordRange = (d + 1) * WordRange /\ d + 1 = (m + 1) - a
        BY <1>1, <1>2, ScpFileAssumption
    <2> HIDE DEF d
    <2>4. after[m + 1] = [overflow |-> ((m + 1) - a) * WordRange, flux |-> SubSeq(c, 1, k)]
        BY <1>9, <2>2, <2>3
    <2>5. a <= m + 1 /\ m + 1 < a + (q + 1)
        BY <1>1, <1>2, <1>5, <1>7, <2>1
    <2> QED
        BY <1>2, <1>4, <2>4, <2>5 DEF ReadSoFar, a, c, n
<1>12. CASE d = q
    <2>1. words[m + 1] = Rest(rev[k + 1]) /\ Rest(rev[k + 1]) # 0
        BY <1>3, <1>4, <1>8, <1>12 DEF n
    <2>2. Len(g[k + 1]) = m + 1
        BY <1>4, <1>7, <1>12
    <2>3. (s.overflow + words[m + 1]) * TickNs = c[k + 1]
        BY <1>5, <1>9, <1>10, <1>12, <2>1
    <2>4. Append(SubSeq(c, 1, k), c[k + 1]) = SubSeq(c, 1, k + 1)
        BY <1>2, <1>3, <1>10, AppendSubSeq, SMTT(30)
    <2>5. after[m + 1] = [overflow |-> 0, flux |-> SubSeq(c, 1, k + 1)]
        BY <1>9, <2>1, <2>3, <2>4
    <2>6. ((m + 1) - Len(g[k + 1])) * WordRange = 0
        BY <1>1, <2>2, ScpFileAssumption
    <2>7. k + 1 < n => m + 1 < Len(g[(k + 1) + 1])
        <3> SUFFICES ASSUME k + 1 < n PROVE m + 1 < Len(g[(k + 1) + 1])
            OBVIOUS
        <3>1. (k + 1) + 1 \in 1..n /\ ((k + 1) + 1) - 1 = k + 1
            BY <1>1, <1>2
        <3>2. Len(g[(k + 1) + 1]) = (m + 1) + (Zeros(rev[(k + 1) + 1]) + 1)
            BY <2>2, <3>1 DEF LaidOut, n
        <3>3. rev[(k + 1) + 1] \in Nat
            BY <3>1 DEF n
        <3>4. Zeros(rev[(k + 1) + 1]) \in Nat
            BY <3>3, WordsOfIs
        <3> QED
            BY <1>1, <3>2, <3>4
    <2>8. Len(g[k + 1]) <= m + 1
        BY <1>1, <2>2
    <2> QED
        BY <1>3, <2>5, <2>6, <2>7, <2>8 DEF ReadSoFar, c, n
<1> QED
    BY <1>11, <1>12

\* What is decoded of the first words of a revolution, one for each interval.
LEMMA DecodedIsCaptured ==
    ASSUME NEW rev \in Seq(Nat), \A k \in 1..Len(rev) : Rest(rev[k]) # 0,
           NEW words \in Seq(Nat), Len(words) = Len(rev), Begins(words, RevolutionWords(rev))
    PROVE  \E k \in 0..Len(rev) :
               /\ Decode(words) = SubSeq(Captured(rev), 1, k)
               /\ (\A i \in 1..Len(rev) : Ticks(rev[i]) < WordRange) => k = Len(rev)
<1> DEFINE n == Len(rev)
<1>1. n \in Nat /\ \A k \in 1..n : rev[k] \in Nat
    OBVIOUS
<1>2. PICK g : LaidOut(g, rev)
    BY WordsAreLaidOut
<1>3. PICK after : Reads(after, words) /\ Decode(words) = after[Len(words)].flux
    BY DecodeIs
<1> DEFINE S == {m \in Nat : m \in 0..n => \E k : ReadSoFar(after, g, rev, m, k)}
<1>4. 0 \in S
    <2>1. g[0] = <<>> /\ Len(g[0]) = 0
        BY <1>2 DEF LaidOut
    <2>2. 0 < n => 0 < Len(g[0 + 1])
        <3> SUFFICES ASSUME 0 < n PROVE 0 < Len(g[1])
            OBVIOUS
        <3>1. 1 \in 0..n
            BY <1>1
        <3>2. g[1] \in Seq(Nat) /\ Len(g[1]) >= 1
            BY <1>2, <3>1 DEF LaidOut
        <3> QED
            BY <3>2
    <2>3. (0 - Len(g[0])) * WordRange = 0
        BY <2>1, ScpFileAssumption
    <2>4. SubSeq(Captured(rev), 1, 0) = <<>>
        BY CapturedIs
    <2>5. after[0] = [overflow |-> 0, flux |-> <<>>]
        BY <1>3 DEF Reads
    <2>6. 0 \in 0..n /\ Len(g[0]) <= 0
        BY <1>1, <2>1
    <2>7. ReadSoFar(after, g, rev, 0, 0)
        BY <2>2, <2>3, <2>4, <2>5, <2>6 DEF ReadSoFar
    <2> QED
        BY <2>7
<1>5. ASSUME NEW m \in S PROVE m + 1 \in S
    <2> SUFFICES ASSUME m + 1 \in 0..n PROVE \E k : ReadSoFar(after, g, rev, m + 1, k)
        OBVIOUS
    <2>1. m \in 0..(n - 1) /\ m \in 0..n
        BY <1>1
    <2>2. PICK k : ReadSoFar(after, g, rev, m, k)
        BY <2>1
    <2> QED
        BY <1>2, <1>3, <2>1, <2>2, NextWordRead
<1>6. S \in SUBSET Nat
    OBVIOUS
<1> HIDE DEF S
<1>7. S = Nat
    BY <1>4, <1>5, <1>6, SetInduction
<1>8. PICK k : ReadSoFar(after, g, rev, n, k)
    BY <1>1, <1>7 DEF S
<1>9. k \in 0..n /\ Decode(words) = SubSeq(Captured(rev), 1, k)
    BY <1>3, <1>8 DEF ReadSoFar
<1>10. ASSUME \A i \in 1..n : Ticks(rev[i]) < WordRange PROVE k = n
    <2> DEFINE R == {i \in Nat : i \in 0..n => Len(g[i]) = i}
    <2>1. 0 \in R
        BY <1>2 DEF LaidOut
    <2>2. ASSUME NEW i \in R PROVE i + 1 \in R
        <3> SUFFICES ASSUME i + 1 \in 0..n PROVE Len(g[i + 1]) = i + 1
            OBVIOUS
        <3>1. i + 1 \in 1..n /\ (i + 1) - 1 = i /\ i \in 0..n
            BY <1>1
        <3>2. Zeros(rev[i + 1]) = 0
            BY <1>1, <1>10, <3>1, WordsOfIs
        <3>3. Len(g[i + 1]) = Len(g[i]) + (Zeros(rev[i + 1]) + 1)
            BY <1>2, <3>1 DEF LaidOut
        <3>4. Len(g[i]) = i
            BY <3>1
        <3> QED
            BY <3>2, <3>3, <3>4
    <2>3. R \in SUBSET Nat
        OBVIOUS
    <2> HIDE DEF R
    <2>4. R = Nat
        BY <2>1, <2>2, <2>3, SetInduction
    <2>5. k < n => k + 1 \in 0..n /\ k + 1 \in Nat
        BY <1>1, <1>9
    <2>6. k < n => Len(g[k + 1]) = k + 1 /\ n < Len(g[k + 1])
        BY <1>8, <2>4, <2>5 DEF R, ReadSoFar
    <2> QED
        BY <1>1, <1>9, <2>6, SMTT(30)
<1> QED
    BY <1>9, <1>10

\* The first header points at the first word, and counts a word per interval.
LEMMA FirstHead ==
    ASSUME NEW revs \in Seq(Seq(Nat)), revs # <<>>
    PROVE  TrackEntry(revs).heads[1] = [length |-> 2 * Len(revs[1]), offset |-> 0]
<1> DEFINE n == Len(revs)
           F == [p \in Nat \X Nat |-> p[1] + (IF p[2] \in 1..n THEN LengthOf(revs[p[2]]) ELSE 0)]
           offset[k \in 1..n] == IF k = 1 THEN 0 ELSE offset[k - 1] + LengthOf(revs[k - 1])
           head == [k \in 1..n |-> [length |-> LengthOf(revs[k]), offset |-> offset[k]]]
<1>1. n \in Nat /\ 1 \in 1..n /\ \A k \in 1..n : LengthOf(revs[k]) \in Nat
    BY DEF LengthOf
<1>2. TrackEntry(revs).heads = head
    BY Zenon DEF TrackEntry
<1> HIDE DEF n
<1>3. F \in [Nat \X Nat -> Nat]
    BY <1>1
<1>4. \A a \in Nat, i \in 1..n : F[<<a, i>>] = a + LengthOf(revs[i])
    BY <1>1
<1> HIDE DEF F
<1>5. Computable(Nat, 0, F)
    BY <1>3, BoundedRecursion
<1>6. PICK g \in [0..n -> Nat] : g[0] = 0 /\ \A i \in 1..n : g[i] = F[<<g[i - 1], i>>]
    BY <1>1, <1>5 DEF Computable, Computes
<1> DEFINE f == [k \in 1..n |-> g[k - 1]]
<1>7. ASSUME NEW k \in 1..n
      PROVE  f[k] = IF k = 1 THEN 0 ELSE f[k - 1] + LengthOf(revs[k - 1])
    <2>1. CASE k = 1
        <3>1. f[k] = g[0]
            BY <2>1, <1>1
        <3> QED
            BY <1>6, <2>1, <3>1
    <2>2. CASE k # 1
        <3>1. k - 1 \in 1..n /\ (k - 1) - 1 \in 0..n
            BY <1>1, <2>2
        <3>2. f[k] = g[k - 1] /\ f[k - 1] = g[(k - 1) - 1]
            BY <3>1
        <3>3. g[k - 1] = g[(k - 1) - 1] + LengthOf(revs[k - 1])
            BY <1>4, <1>6, <3>1
        <3> QED
            BY <2>2, <3>2, <3>3
    <2> QED
        BY <2>1, <2>2
<1>8. f = [k \in 1..n |-> IF k = 1 THEN 0 ELSE f[k - 1] + LengthOf(revs[k - 1])]
    BY <1>7
<1>9. offset = [k \in 1..n |-> IF k = 1 THEN 0 ELSE offset[k - 1] + LengthOf(revs[k - 1])]
    <2> HIDE DEF f
    <2> QED
        BY <1>8, Zenon
<1> HIDE DEF offset
<1>10. offset[1] = 0
    BY <1>1, <1>9
<1>11. head[1] = [length |-> LengthOf(revs[1]), offset |-> offset[1]]
    BY <1>1
<1> QED
    BY <1>2, <1>10, <1>11 DEF LengthOf

LEMMA FirstRevolutionIs ==
    ASSUME NEW revs \in Seq(Seq(Nat)), revs # <<>>
    PROVE  \E words \in Seq(Nat) :
               /\ FirstRevolution(TrackEntry(revs)) = Decode(words)
               /\ Len(words) = Len(revs[1])
               /\ Begins(words, RevolutionWords(revs[1]))
<1> DEFINE track == TrackEntry(revs)
           rev == revs[1]
           n == Len(rev)
           rows == [k \in 1..Len(revs) |-> RevolutionWords(revs[k])]
           words == SubSeq(track.words, 1, n)
<1>1. rev \in Seq(Nat) /\ n \in Nat /\ 1 \in 1..Len(revs) /\ Len(revs) \in Nat
    OBVIOUS
<1>2. track.words = FlattenSeq(rows)
    BY DEF TrackEntry, RevolutionWords
<1>3. rows \in Seq(Seq(Nat)) /\ rows # <<>> /\ rows[1] = RevolutionWords(rev)
    <2>1. \A k \in 1..Len(revs) : RevolutionWords(revs[k]) \in Seq(Nat)
        BY WordsAreLaidOut
    <2> HIDE DEF n
    <2>2. rows \in Seq(Seq(Nat)) /\ Len(rows) = Len(revs)
        BY <1>1, <2>1
    <2>3. rows[1] = RevolutionWords(rev)
        BY <1>1
    <2> HIDE DEF rows
    <2> QED
        BY <1>1, <2>2, <2>3
<1> HIDE DEF rows
<1>4. track.words \in Seq(Nat) /\ Begins(RevolutionWords(rev), track.words)
    BY <1>2, <1>3, FlattenBegins
<1>5. FirstRevolution(track) = Decode(words)
    <2>1. track.heads[1] = [length |-> 2 * n, offset |-> 0]
        BY FirstHead
    <2> HIDE DEF track, n
    <2>2. (0 \div 2) + 1 = 1 /\ (0 \div 2) + ((2 * n) \div 2) = n
        BY <1>1
    <2> QED
        BY <2>1, <2>2 DEF FirstRevolution
<1>6. n <= Len(RevolutionWords(rev)) /\ RevolutionWords(rev) \in Seq(Nat)
    <2>1. PICK g : LaidOut(g, rev)
        BY <1>1, WordsAreLaidOut
    <2>2. n \in 0..n
        BY <1>1
    <2>3. g[n] \in Seq(Nat) /\ Len(g[n]) >= n /\ Begins(g[n], RevolutionWords(rev))
        BY <2>1, <2>2 DEF LaidOut
    <2>4. RevolutionWords(rev) \in Seq(Nat)
        BY <1>1, WordsAreLaidOut
    <2> HIDE DEF n
    <2> QED
        BY <1>1, <2>3, <2>4 DEF Begins
<1>7. words \in Seq(Nat) /\ Len(words) = n /\ Begins(words, RevolutionWords(rev))
    <2> DEFINE w == RevolutionWords(rev)
               t == track.words
    <2>1. t \in Seq(Nat) /\ w \in Seq(Nat) /\ n <= Len(w) /\ Len(w) <= Len(t)
          /\ \A i \in 1..Len(w) : t[i] = w[i]
        BY <1>4, <1>6 DEF Begins
    <2> HIDE DEF n, w, t
    <2>2. SubSeq(t, 1, n) \in Seq(Nat) /\ Len(SubSeq(t, 1, n)) = n
          /\ \A i \in 1..n : SubSeq(t, 1, n)[i] = t[i]
        BY <1>1, <2>1
    <2>3. \A i \in 1..n : i \in 1..Len(w)
        BY <1>1, <2>1
    <2> QED
        BY <2>1, <2>2, <2>3 DEF Begins, w, t
<1> QED
    BY <1>5, <1>7

LEMMA RevolutionsType ==
    ASSUME StreamInv, slices # <<>>
    PROVE  Revolutions \in Seq(Seq(Nat)) /\ Revolutions # <<>>
<1>1. samples \in Seq(Nat) /\ slices \in Seq(Cuts) /\ Len(slices) \in Nat /\ Len(slices) # 0
    BY DEF StreamInv, StreamTypes
<1>2. ASSUME NEW k \in 1..Len(slices)
      PROVE  SubSeq(samples, slices[k].from + 1, slices[k].to) \in Seq(Nat)
    <2>1. slices[k] \in Cuts
        BY <1>1, ElementOfSeq
    <2>2. slices[k].from \in Nat /\ slices[k].to \in Nat /\ slices[k].to <= start
        BY <2>1 DEF Cuts, StreamInv, NoFluxLostOrDoubled
    <2>3. start \in 0..Len(samples)
        BY DEF StreamInv, StreamTypes
    <2> DEFINE a == slices[k].from + 1
               b == slices[k].to
    <2>4. a \in Int /\ b \in Int /\ a >= 1 /\ b <= Len(samples)
        BY <1>1, <2>2, <2>3
    <2> HIDE DEF a, b
    <2>5. \A i \in a..b : samples[i] \in Nat
        BY <1>1, <2>4
    <2>6. SubSeq(samples, a, b) \in Seq(Nat)
        BY <2>4, <2>5, SubSeqProperties
    <2> QED
        BY <2>6 DEF a, b
<1> DEFINE n == Len(slices)
<1>3. n \in Nat /\ n # 0
    BY <1>1
<1>4. Revolutions = [k \in 1..n |-> SubSeq(samples, slices[k].from + 1, slices[k].to)]
    BY DEF Revolutions
<1> HIDE DEF n
<1>5. Revolutions \in Seq(Seq(Nat)) /\ Len(Revolutions) = n
    BY <1>2, <1>3, <1>4 DEF n
<1> QED
    BY <1>3, <1>5

LEMMA FileReadsBack == StreamInv => PluginReadsBack
<1> DEFINE rev == Revolutions[1]
           c == [k \in 1..Len(rev) |-> Ticks(rev[k]) * TickNs]
<1> SUFFICES ASSUME StreamInv, stage = "saved", \A k \in 1..Len(rev) : Ticks(rev[k]) % WordRange # 0
             PROVE  /\ IsPrefix(FirstRevolution(saved), c)
                    /\ (\A k \in 1..Len(rev) : Ticks(rev[k]) < WordRange) =>
                         FirstRevolution(saved) = c
    BY DEF PluginReadsBack
<1>1. saved = TrackEntry(Revolutions) /\ slices # <<>>
    BY DEF StreamInv, SavedInv
<1>2. Revolutions \in Seq(Seq(Nat)) /\ Revolutions # <<>>
    BY <1>1, RevolutionsType
<1>3. rev \in Seq(Nat)
    BY <1>2
<1>4. c = Captured(rev)
    BY DEF Captured
<1>5. PICK words \in Seq(Nat) :
          /\ FirstRevolution(saved) = Decode(words)
          /\ Len(words) = Len(rev) /\ Begins(words, RevolutionWords(rev))
    BY <1>1, <1>2, FirstRevolutionIs
<1>6. \A k \in 1..Len(rev) : Rest(rev[k]) # 0
    BY DEF Rest
<1> HIDE DEF rev, c
<1>7. PICK k \in 0..Len(rev) :
          /\ Decode(words) = SubSeq(Captured(rev), 1, k)
          /\ (\A i \in 1..Len(rev) : Ticks(rev[i]) < WordRange) => k = Len(rev)
    BY <1>3, <1>5, <1>6, DecodedIsCaptured
<1>8. /\ c \in Seq(Nat) /\ Len(c) = Len(rev)
    BY <1>3, <1>4, CapturedIs
<1>9. Len(rev) \in Nat
    BY <1>3
<1>10. SubSeq(c, 1, Len(rev)) = c
    BY <1>8
<1>11. SubSeq(c, 1, k) \in Seq(Nat) /\ Len(SubSeq(c, 1, k)) = k
    BY <1>8, <1>9
<1>12. IsPrefix(SubSeq(c, 1, k), c)
    <2>1. SubSeq(SubSeq(c, 1, k), 1, k) = SubSeq(c, 1, k)
        BY <1>9, <1>11
    <2> QED
        BY <1>8, <1>9, <1>11, <2>1 DEF IsPrefix
<1> QED
    BY <1>4, <1>5, <1>7, <1>10, <1>12

-----------------------------------------------------------------------------
(* uft_gw_decode_flux_index_times, for any opcodes: the times it reports   *)
(* are those from pulse to pulse.                                          *)
THEOREM IndexTimes == StreamSpec => []IndexTimesAreIntervals
<1>1. StreamInv => IndexTimesAreIntervals
    BY DEF StreamInv
<1> QED
    BY <1>1, Invariant, PTL

(* The loop of fluxcapturejob.cpp loses no transition between two          *)
(* revolutions and puts none in two, whatever times the provider reports.  *)
THEOREM NothingLostOrDoubled == StreamSpec => []NoFluxLostOrDoubled
<1>1. StreamInv => NoFluxLostOrDoubled
    BY DEF StreamInv
<1> QED
    BY <1>1, Invariant, PTL

(* Under increasing times it cuts what hal/outcomes.h asks of a consumer,  *)
(* for any number of samples, indices and revolutions asked for.           *)
THEOREM SplitIsTheContract == StreamSpec => []SplitFollowsContract
BY CutsAreTheContract, Invariant, PTL

(* The first revolution comes back out of the file scp_writer_save wrote,  *)
(* to a tick, as far as scp_read_revolution_flux reads it: all of it if    *)
(* each interval fits one word.                                            *)
THEOREM ReadsBack == StreamSpec => []PluginReadsBack
BY FileReadsBack, Invariant, PTL

-----------------------------------------------------------------------------
(* What the job takes for granted of a track.                              *)

\* The split of a track has been through an index time above 0.
KeptInv ==
    stage # "decode" =>
        samples # <<>> /\ ((\E k \in 1..r : times[k] > 0) => slices # <<>>)

LEMMA SplitKeeps ==
    ASSUME StreamInv, KeptInv, SplitStep PROVE KeptInv'
<1>1. /\ stage = "split" /\ stage' = stage /\ samples' = samples /\ times' = times /\ r' = r + 1
      /\ samples # <<>> /\ ((\E k \in 1..r : times[k] > 0) => slices # <<>>)
    BY DEF SplitStep, Slice, KeptInv
<1>2. /\ samples \in Seq(Nat) /\ times \in Seq(Nat) /\ r \in Nat /\ r + 1 \in 1..Len(times)
      /\ slices \in Seq(Cuts) /\ start \in 0..Len(samples)
    <2>1. /\ samples \in Seq(Nat) /\ times \in Seq(0..(Word - 1)) /\ r \in 0..Len(times)
          /\ slices \in Seq(Cuts) /\ start \in 0..Len(samples) /\ r < Len(times)
        BY DEF StreamInv, StreamTypes, SplitStep, Slice, Splitting
    <2>2. Len(times) \in Nat /\ times \in Seq(Nat)
        BY <2>1, IndexSplitAssumption
    <2> QED
        BY <2>1, <2>2
<1> DEFINE stop == SampleEnd(times[r + 1])
<1>3. PICK piece : slices' = IF stop > start THEN Append(slices, piece) ELSE slices
    BY SMTT(30) DEF SplitStep, Slice
<1>4. slices # <<>> => slices' # <<>>
    BY <1>2, <1>3, SMTT(30)
<1>5. ASSUME times[r + 1] > 0, slices = <<>> PROVE slices' # <<>>
    <2>1. start = 0
        BY <1>5 DEF StreamInv, SliceInv
    <2>2. times[r + 1] \in Nat
        BY <1>2
    <2>3. stop \in start..Len(samples) /\ (stop = Len(samples) \/ Elapsed[stop] >= times[r + 1])
        BY <1>2, <2>2, SampleEndIs
    <2>4. Elapsed[0] = 0 /\ Len(samples) # 0
        BY <1>1, <1>2, ElapsedIs
    <2> HIDE DEF stop
    <2>5. stop # 0
        BY <1>5, <2>2, <2>3, <2>4
    <2>6. stop > start
        BY <1>2, <2>1, <2>3, <2>5
    <2>7. slices' = Append(slices, piece)
        BY <1>3, <2>6
    <2> QED
        BY <1>2, <2>7, SMTT(30)
<1>6. (\E k \in 1..(r + 1) : times[k] > 0) => slices' # <<>>
    <2>1. \A k \in 1..(r + 1) : k \in 1..r \/ k = r + 1
        BY <1>2
    <2> QED
        BY <1>1, <1>4, <1>5, <2>1
<1> QED
    BY <1>1, <1>6 DEF KeptInv

LEMMA KeptKeeps == StreamInv /\ KeptInv /\ [StreamNext]_sv => KeptInv'
<1> SUFFICES ASSUME StreamInv, KeptInv, [StreamNext]_sv PROVE KeptInv'
    OBVIOUS
<1>1. CASE \/ \E n \in FluxTicks : DecodeFlux(n)
           \/ \E n \in SpaceTicks : DecodeSpace(n)
           \/ \E n \in IndexTicks : DecodeIndex(n)
    BY <1>1 DEF DecodeFlux, DecodeSpace, DecodeIndex, KeptInv
<1>2. CASE Convert
    <2>1. /\ r = 0 /\ r' = r /\ flux # <<>> /\ flux \in Seq(Nat)
          /\ samples' = [k \in DOMAIN flux |-> Ns(flux[k])]
        BY <1>2 DEF Convert, StreamInv, SliceInv, StreamTypes, split
    <2>2. DOMAIN samples' = DOMAIN flux /\ DOMAIN flux # {}
        BY <2>1
    <2>3. samples' # <<>>
        BY <2>2
    <2> QED
        BY <2>1, <2>3 DEF KeptInv
<1>3. CASE SplitStep
    BY <1>3, SplitKeeps
<1>4. CASE Save
    BY <1>4 DEF Save, KeptInv, split
<1>5. CASE UNCHANGED sv
    BY <1>5 DEF sv, split, KeptInv
<1> QED
    BY <1>1, <1>2, <1>3, <1>4, <1>5 DEF StreamNext

(* What FluxCapture's ReadTrack takes for granted of a whole stream: of a   *)
(* track with an index time above 0 the split hands at least one slice to   *)
(* the SCP writer, and never more than were asked for.                      *)
SomethingIsKept ==
    Done => /\ (\E k \in 1..Len(times) : times[k] > 0) => slices # <<>>
            /\ Len(slices) <= Revs

(* ... for every stream of opcodes: the first slice is cut at the first     *)
(* such time, since no transition stands at time 0.                         *)
THEOREM TracksAreNotEmpty == StreamSpec => []SomethingIsKept
<1>1. StreamInit => KeptInv
    BY DEF StreamInit, KeptInv
<1>2. StreamInv /\ KeptInv => SomethingIsKept
    <2> SUFFICES ASSUME StreamInv, KeptInv, Done PROVE SomethingIsKept
        BY DEF SomethingIsKept
    <2>1. stage = "split" /\ r \in 0..Len(times) /\ Len(times) \in Nat /\ slices \in Seq(Cuts)
          /\ Len(slices) <= Revs
        BY DEF Done, StreamInv, StreamTypes, SliceInv
    <2>2. CASE r = Len(times)
        BY <2>1, <2>2 DEF KeptInv, SomethingIsKept
    <2>3. CASE r # Len(times)
        <3>1. Len(slices) >= Revs
            BY <2>1, <2>3, IndexSplitAssumption DEF Done, Splitting
        <3>2. slices # <<>>
            BY <2>1, <3>1, IndexSplitAssumption
        <3> QED
            BY <2>1, <3>2 DEF SomethingIsKept
    <2> QED
        BY <2>2, <2>3
<1> QED
    BY <1>1, <1>2, KeptKeeps, Invariant, PTL DEF StreamSpec
=============================================================================
