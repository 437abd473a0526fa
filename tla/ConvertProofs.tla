---------------------------- MODULE ConvertProofs ----------------------------
(***************************************************************************)
(* The two invariants of Convert for every set of files and callers and    *)
(* any number of calls.                                                    *)
(***************************************************************************)
EXTENDS Convert, TLAPS

Timed == FluxFormats \cup BitstreamFormats  \* the formats that hold timing

FileRec == [format : Formats, from : Formats \cup {None},
            image : BOOLEAN, whole : BOOLEAN]
JobRec  == [dst : Paths, from : Formats, to : Formats,
            sidecar : BOOLEAN, image : BOOLEAN]

TypeInv ==
    /\ file \in [Paths -> {None} \cup FileRec]
    /\ note \in [Paths -> {None} \cup [from : Formats, to : Formats]]
    /\ pc \in [Callers -> {"idle", "convert", "write", "report"}]
    /\ job \in [Callers -> {NoJob} \cup JobRec]
    /\ \A c \in Callers : pc[c] # "idle" => job[c] \in JobRec

\* What a call at work knows of its conversion
JobInv ==
    \A c \in Callers : pc[c] # "idle" =>
        /\ job[c].to \in Timed => ~job[c].image
        /\ RoundTrip(job[c].from, job[c].to) = "lossy" => job[c].sidecar

\* No other call at work has its target
OneWriter ==
    \A c, d \in Callers :
        c # d /\ pc[c] # "idle" /\ pc[d] # "idle" => job[c].dst # job[d].dst

\* From the open to the return the target is what this call makes of it
TargetInv ==
    \A c \in Callers : pc[c] \in {"write", "report"} =>
        /\ file[job[c].dst] \in FileRec
        /\ file[job[c].dst].format = job[c].to
        /\ file[job[c].dst].from = job[c].from
        /\ file[job[c].dst].image = job[c].image
        /\ pc[c] = "write" => ~file[job[c].dst].whole

IInv == TypeInv /\ FluxIsNeverMadeUp /\ JobInv /\ OneWriter /\ TargetInv /\ LossIsTold

-----------------------------------------------------------------------------
\* The matrix lets only formats with timing become formats with timing
\* (src/core/uft_roundtrip.c lines 27-63).
LEMMA TimedFromTimed ==
    ASSUME NEW from \in Formats, NEW to \in Formats, NEW consent \in BOOLEAN,
           MayRun(from, to, consent), to \in Timed
    PROVE  from \in Timed /\ from \notin SectorFormats
BY DEF MayRun, RoundTrip, Timed, Formats, FluxFormats, BitstreamFormats,
       SectorFormats, OtherFormats

\* A conversion that loses something and may run has its report written.
LEMMA LossyIsReported ==
    ASSUME NEW from, NEW to, NEW consent \in BOOLEAN,
           MayRun(from, to, consent), RoundTrip(from, to) = "lossy"
    PROVE  WritesSidecar(from, to, consent)
BY DEF MayRun, WritesSidecar

LEMMA InitIInv == Init => IInv
<1> SUFFICES ASSUME Init PROVE IInv
    OBVIOUS
<1> USE DEF Init
<1>0. \A p \in Paths : file[p] = None
          \/ file[p] \in [format : Formats, from : {None}, image : {FALSE}, whole : {TRUE}]
    OBVIOUS
<1>1. TypeInv
    BY <1>0 DEF TypeInv, FileRec
<1>2. FluxIsNeverMadeUp
    BY <1>0 DEF FluxIsNeverMadeUp
<1>3. JobInv /\ OneWriter /\ TargetInv
    BY DEF JobInv, OneWriter, TargetInv
<1>4. LossIsTold
    BY <1>0 DEF LossIsTold
<1> QED
    BY <1>1, <1>2, <1>3, <1>4 DEF IInv

-----------------------------------------------------------------------------
\* Every step keeps the invariant.

LEMMA BeginKeeps ==
    ASSUME IInv, NEW c \in Callers, Begin(c)
    PROVE  IInv'
<1> USE DEF IInv
<1>1. PICK src \in Paths, dst \in Paths, to \in Formats, consent \in BOOLEAN :
          /\ \A d \in Callers : job[d].dst # dst
          /\ file[src] # None
          /\ to \in Targets(file[src].format) /\ MayRun(file[src].format, to, consent)
          /\ job' = [job EXCEPT ![c] = NewJob(file[src], dst, to, consent)]
    BY DEF Begin
<1>2. UNCHANGED <<file, note, missed>> /\ pc[c] = "idle" /\ pc' = [pc EXCEPT ![c] = "convert"]
    BY DEF Begin
<1> DEFINE from == file[src].format
           new == NewJob(file[src], dst, to, consent)
<1>3. file[src] \in FileRec /\ from \in Formats
    BY <1>1 DEF TypeInv, FileRec
<1>4. WritesSidecar(from, to, consent) \in BOOLEAN
    BY DEF WritesSidecar
<1>5. new \in JobRec
    BY <1>3, <1>4 DEF JobRec, FileRec, NewJob
<1>6. /\ pc'[c] = "convert" /\ job'[c] = new
      /\ \A d \in Callers \ {c} : pc'[d] = pc[d] /\ job'[d] = job[d]
    BY <1>1, <1>2 DEF TypeInv
<1>7. TypeInv'
    BY <1>1, <1>2, <1>5, <1>6 DEF TypeInv
<1>8. to \in Timed => ~new.image
    <2> SUFFICES ASSUME to \in Timed PROVE ~new.image
        OBVIOUS
    <2>1. from \in Timed /\ from \notin SectorFormats
        BY <1>1, <1>3, TimedFromTimed
    <2>2. ~file[src].image
        BY <2>1, <1>1 DEF FluxIsNeverMadeUp, Timed
    <2> QED
        BY <2>1, <2>2 DEF NewJob
<1>9. JobInv'
    <2>1. RoundTrip(from, to) = "lossy" => new.sidecar
        BY <1>1, LossyIsReported DEF NewJob
    <2> QED
        BY <1>6, <1>8, <2>1 DEF JobInv, NewJob
<1>10. OneWriter'
    BY <1>1, <1>6 DEF OneWriter, NewJob
<1>11. TargetInv' /\ FluxIsNeverMadeUp'
    BY <1>2, <1>6 DEF TargetInv, FluxIsNeverMadeUp
<1>12. LossIsTold'
    BY <1>2, <1>6 DEF LossIsTold
<1> QED
    BY <1>7, <1>9, <1>10, <1>11, <1>12

\* The call returns; the file and the report of its target are settled.
LEMMA ReturnKeeps ==
    ASSUME IInv, NEW c \in Callers, pc[c] # "idle", Return(c)
    PROVE  /\ pc' \in [Callers -> {"idle", "convert", "write", "report"}]
           /\ job' \in [Callers -> {NoJob} \cup JobRec]
           /\ pc'[c] = "idle"
           /\ \A d \in Callers \ {c} : pc'[d] = pc[d] /\ job'[d] = job[d]
           /\ \A d \in Callers : pc'[d] # "idle" =>
                  d # c /\ job'[d] \in JobRec /\ job'[d].dst # job[c].dst
           /\ JobInv' /\ OneWriter'
<1>1. /\ pc'[c] = "idle"
      /\ \A d \in Callers \ {c} : pc'[d] = pc[d] /\ job'[d] = job[d]
    BY DEF Return, IInv, TypeInv
<1>2. /\ pc' \in [Callers -> {"idle", "convert", "write", "report"}]
      /\ job' \in [Callers -> {NoJob} \cup JobRec]
    BY DEF Return, IInv, TypeInv
<1>3. \A d \in Callers : pc'[d] # "idle" =>
          d # c /\ job'[d] \in JobRec /\ job'[d].dst # job[c].dst
    BY <1>1 DEF IInv, TypeInv, OneWriter
<1>4. JobInv' /\ OneWriter'
    BY <1>1 DEF IInv, JobInv, OneWriter
<1> QED
    BY <1>1, <1>2, <1>3, <1>4

\* A call that ends without having to report leaves nothing untold.
LEMMA QuietReturnKeeps ==
    ASSUME IInv, NEW c \in Callers, pc[c] \in {"convert", "write"}, Return(c),
           UNCHANGED <<file, note, missed>>
    PROVE  IInv'
<1>0. pc[c] # "idle"
    OBVIOUS
<1>1. TypeInv' /\ FluxIsNeverMadeUp'
    BY <1>0, ReturnKeeps DEF IInv, TypeInv, FluxIsNeverMadeUp
<1>2. TargetInv'
    BY <1>0, ReturnKeeps DEF IInv, TargetInv
<1>3. LossIsTold'
    <2> SUFFICES ASSUME NEW p \in Paths,
                        file[p] # None, file[p].from # None, file[p].whole,
                        RoundTrip(file[p].from, file[p].format) = "lossy",
                        p \notin missed,
                        \A d \in Callers : ~(job'[d].dst = p /\ pc'[d] = "report")
                 PROVE  note[p] = [from |-> file[p].from, to |-> file[p].format]
        BY DEF LossIsTold
    <2>1. \A d \in Callers : ~(job[d].dst = p /\ pc[d] = "report")
        BY <1>0, ReturnKeeps
    <2> QED
        BY <2>1 DEF IInv, LossIsTold
<1> QED
    BY <1>0, <1>1, <1>2, <1>3, ReturnKeeps DEF IInv

LEMMA OpenKeeps ==
    ASSUME IInv, NEW c \in Callers, Open(c)
    PROVE  IInv'
<1> DEFINE dst == job[c].dst
           new == [format |-> job[c].to, from |-> job[c].from,
                   image |-> job[c].image, whole |-> FALSE]
<1>1. /\ pc[c] = "convert" /\ job[c] \in JobRec /\ dst \in Paths
      /\ new \in FileRec
    BY DEF Open, IInv, TypeInv, JobRec, FileRec
<1>2. /\ file'[dst] = new
      /\ \A p \in Paths \ {dst} : file'[p] = file[p]
      /\ note' = note /\ job' = job /\ missed' = missed \ {dst}
      /\ pc'[c] = "write" /\ \A d \in Callers \ {c} : pc'[d] = pc[d]
    BY <1>1 DEF Open, Go, IInv, TypeInv
<1>3. TypeInv'
    BY <1>1, <1>2 DEF Open, Go, IInv, TypeInv
<1>4. FluxIsNeverMadeUp'
    BY <1>1, <1>2 DEF IInv, FluxIsNeverMadeUp, JobInv, Timed
<1>5. JobInv' /\ OneWriter'
    BY <1>1, <1>2 DEF IInv, JobInv, OneWriter
<1>6. TargetInv'
    <2> SUFFICES ASSUME NEW d \in Callers, pc'[d] \in {"write", "report"}
                 PROVE  /\ file'[job[d].dst] \in FileRec
                        /\ file'[job[d].dst].format = job[d].to
                        /\ file'[job[d].dst].from = job[d].from
                        /\ file'[job[d].dst].image = job[d].image
                        /\ pc'[d] = "write" => ~file'[job[d].dst].whole
        BY <1>2 DEF TargetInv
    <2>1. CASE d = c
        BY <2>1, <1>1, <1>2
    <2>2. CASE d # c
        <3>1. job[d].dst # dst /\ job[d].dst \in Paths /\ pc'[d] = pc[d]
            BY <2>2, <1>1, <1>2 DEF IInv, OneWriter, TypeInv, JobRec
        <3> QED
            BY <3>1, <1>2 DEF IInv, TargetInv
    <2> QED
        BY <2>1, <2>2
<1>7. LossIsTold'
    BY <1>1, <1>2 DEF IInv, LossIsTold
<1> QED
    BY <1>3, <1>4, <1>5, <1>6, <1>7 DEF IInv

LEMMA WriteKeeps ==
    ASSUME IInv, NEW c \in Callers, Write(c)
    PROVE  IInv'
<1> DEFINE dst == job[c].dst
<1>1. pc[c] = "write" /\ job[c] \in JobRec /\ dst \in Paths /\ file[dst] \in FileRec
    BY DEF Write, IInv, TypeInv, JobRec, TargetInv
<1>2. PICK kept \in BOOLEAN : file' = [file EXCEPT ![dst].whole = kept]
    BY DEF Write
<1>3. /\ file'[dst] \in FileRec
      /\ file'[dst].format = file[dst].format /\ file'[dst].from = file[dst].from
      /\ file'[dst].image = file[dst].image
      /\ \A p \in Paths \ {dst} : file'[p] = file[p]
    BY <1>1, <1>2 DEF IInv, TypeInv, FileRec
<1>4. file' \in [Paths -> {None} \cup FileRec] /\ UNCHANGED <<note, missed>>
    BY <1>1, <1>2, <1>3 DEF Write, IInv, TypeInv
<1>5. FluxIsNeverMadeUp'
    <2>1. file[dst].format \in Timed => ~file[dst].image
        BY <1>1 DEF IInv, FluxIsNeverMadeUp, JobInv, TargetInv, Timed
    <2> QED
        BY <2>1, <1>3 DEF IInv, FluxIsNeverMadeUp, Timed
<1>6. CASE job[c].sidecar
    <2>1. /\ job' = job /\ pc'[c] = "report"
          /\ \A d \in Callers \ {c} : pc'[d] = pc[d]
          /\ pc' \in [Callers -> {"idle", "convert", "write", "report"}]
        BY <1>1, <1>6 DEF Write, Go, IInv, TypeInv
    <2>2. TypeInv'
        BY <2>1, <1>1, <1>4 DEF IInv, TypeInv
    <2>3. JobInv' /\ OneWriter'
        BY <2>1, <1>1 DEF IInv, JobInv, OneWriter
    <2>4. TargetInv'
        <3> SUFFICES ASSUME NEW d \in Callers, pc'[d] \in {"write", "report"}
                     PROVE  /\ file'[job[d].dst] \in FileRec
                            /\ file'[job[d].dst].format = job[d].to
                            /\ file'[job[d].dst].from = job[d].from
                            /\ file'[job[d].dst].image = job[d].image
                            /\ pc'[d] = "write" => ~file'[job[d].dst].whole
            BY <2>1 DEF TargetInv
        <3>1. CASE d = c
            BY <3>1, <1>1, <1>3, <2>1 DEF IInv, TargetInv
        <3>2. CASE d # c
            <4>1. job[d].dst # dst /\ job[d].dst \in Paths /\ pc'[d] = pc[d]
                BY <3>2, <1>1, <2>1 DEF IInv, OneWriter, TypeInv, JobRec
            <4> QED
                BY <4>1, <1>3 DEF IInv, TargetInv
        <3> QED
            BY <3>1, <3>2
    <2>5. LossIsTold'
        <3> SUFFICES ASSUME NEW p \in Paths,
                            file'[p] # None, file'[p].from # None, file'[p].whole,
                            RoundTrip(file'[p].from, file'[p].format) = "lossy",
                            p \notin missed,
                            \A d \in Callers : ~(job[d].dst = p /\ pc'[d] = "report")
                     PROVE  note[p] = [from |-> file'[p].from, to |-> file'[p].format]
            BY <2>1, <1>4 DEF LossIsTold
        <3>1. p # dst /\ file'[p] = file[p]
            BY <2>1, <1>3
        <3>2. \A d \in Callers : ~(job[d].dst = p /\ pc[d] = "report")
            BY <2>1, <3>1
        <3> QED
            BY <3>1, <3>2 DEF IInv, LossIsTold
    <2> QED
        BY <1>5, <2>2, <2>3, <2>4, <2>5 DEF IInv
<1>7. CASE ~job[c].sidecar
    <2>1. Return(c) /\ pc[c] # "idle"
        BY <1>1, <1>7 DEF Write
    <2>2. TypeInv'
        BY <2>1, <1>4, ReturnKeeps DEF IInv, TypeInv
    <2>3. TargetInv'
        <3> SUFFICES ASSUME NEW d \in Callers, pc'[d] \in {"write", "report"}
                     PROVE  /\ file'[job'[d].dst] \in FileRec
                            /\ file'[job'[d].dst].format = job'[d].to
                            /\ file'[job'[d].dst].from = job'[d].from
                            /\ file'[job'[d].dst].image = job'[d].image
                            /\ pc'[d] = "write" => ~file'[job'[d].dst].whole
            BY DEF TargetInv
        <3>1. /\ d # c /\ job'[d].dst # dst /\ job'[d].dst \in Paths
              /\ pc'[d] = pc[d] /\ job'[d] = job[d]
            BY <2>1, ReturnKeeps DEF JobRec
        <3> QED
            BY <3>1, <1>3 DEF IInv, TargetInv
    <2>4. LossIsTold'
        <3> SUFFICES ASSUME NEW p \in Paths,
                            file'[p] # None, file'[p].from # None, file'[p].whole,
                            RoundTrip(file'[p].from, file'[p].format) = "lossy",
                            p \notin missed,
                            \A d \in Callers : ~(job'[d].dst = p /\ pc'[d] = "report")
                     PROVE  note[p] = [from |-> file'[p].from, to |-> file'[p].format]
            BY <1>4 DEF LossIsTold
        <3>1. p # dst /\ file'[p] = file[p]
            BY <1>1, <1>3, <1>7 DEF IInv, JobInv, TargetInv
        <3>2. \A d \in Callers : ~(job[d].dst = p /\ pc[d] = "report")
            BY <2>1, <1>1, ReturnKeeps
        <3> QED
            BY <3>1, <3>2 DEF IInv, LossIsTold
    <2> QED
        BY <1>5, <2>1, <2>2, <2>3, <2>4, ReturnKeeps DEF IInv
<1> QED
    BY <1>6, <1>7

\* The report is written, or the target is put down as missed.
LEMMA SettledKeeps ==
    ASSUME IInv, NEW c \in Callers, pc[c] = "report", Return(c), UNCHANGED file,
           \/ /\ note' = [note EXCEPT ![job[c].dst] =
                              [from |-> job[c].from, to |-> job[c].to]]
              /\ UNCHANGED missed
           \/ NoReport(c)
    PROVE  IInv'
<1> DEFINE dst == job[c].dst
<1>0. pc[c] # "idle" /\ job[c] \in JobRec /\ dst \in Paths
    BY DEF IInv, TypeInv, JobRec
<1>1. note' \in [Paths -> {None} \cup [from : Formats, to : Formats]]
    BY <1>0 DEF NoReport, IInv, TypeInv, JobRec
<1>2. \A p \in Paths \ {dst} : note'[p] = note[p] /\ (p \in missed' <=> p \in missed)
    BY DEF NoReport, IInv, TypeInv
<1>3. dst \notin missed' => note'[dst] = [from |-> file[dst].from, to |-> file[dst].format]
    BY <1>0 DEF NoReport, IInv, TypeInv, TargetInv
<1>4. TypeInv' /\ FluxIsNeverMadeUp'
    BY <1>0, <1>1, ReturnKeeps DEF IInv, TypeInv, FluxIsNeverMadeUp
<1>5. TargetInv'
    BY <1>0, ReturnKeeps DEF IInv, TargetInv
<1>6. LossIsTold'
    <2> SUFFICES ASSUME NEW p \in Paths,
                        file[p] # None, file[p].from # None, file[p].whole,
                        RoundTrip(file[p].from, file[p].format) = "lossy",
                        p \notin missed',
                        \A d \in Callers : ~(job'[d].dst = p /\ pc'[d] = "report")
                 PROVE  note'[p] = [from |-> file[p].from, to |-> file[p].format]
        BY DEF LossIsTold
    <2>1. CASE p = dst
        BY <2>1, <1>3
    <2>2. CASE p # dst
        <3>1. \A d \in Callers : ~(job[d].dst = p /\ pc[d] = "report")
            BY <2>2, <1>0, ReturnKeeps
        <3> QED
            BY <2>2, <3>1, <1>2 DEF IInv, LossIsTold
    <2> QED
        BY <2>1, <2>2
<1> QED
    BY <1>0, <1>4, <1>5, <1>6, ReturnKeeps DEF IInv

LEMMA NextKeeps == IInv /\ [Next]_vars => IInv'
<1> SUFFICES ASSUME IInv, [Next]_vars PROVE IInv'
    OBVIOUS
<1>1. ASSUME NEW c \in Callers, Begin(c) PROVE IInv'
    BY <1>1, BeginKeeps
<1>2. ASSUME NEW c \in Callers, ConvertFails(c) PROVE IInv'
    BY <1>2, QuietReturnKeeps DEF ConvertFails
<1>3. ASSUME NEW c \in Callers, Open(c) PROVE IInv'
    BY <1>3, OpenKeeps
<1>4. ASSUME NEW c \in Callers, WriteFails(c) PROVE IInv'
    BY <1>4, QuietReturnKeeps DEF WriteFails
<1>5. ASSUME NEW c \in Callers, Write(c) PROVE IInv'
    BY <1>5, WriteKeeps
<1>6. ASSUME NEW c \in Callers, Report(c) PROVE IInv'
    BY <1>6, SettledKeeps DEF Report
<1>7. ASSUME NEW c \in Callers, Crash(c) PROVE IInv'
    <2>1. CASE pc[c] = "report"
        BY <1>7, <2>1, SettledKeeps DEF Crash
    <2>2. CASE pc[c] # "report"
        <3>1. pc[c] \in {"convert", "write"}
            BY <1>7, <2>2 DEF Crash, IInv, TypeInv
        <3> QED
            BY <1>7, <2>2, <3>1, QuietReturnKeeps DEF Crash
    <2> QED
        BY <2>1, <2>2
<1>8. CASE UNCHANGED <<file, note, pc, job, missed>>
    BY <1>8 DEF IInv, TypeInv, FluxIsNeverMadeUp, JobInv, OneWriter, TargetInv, LossIsTold
<1>9. ASSUME NEW c \in Callers, Refuse(c) PROVE IInv'
    BY <1>9, <1>8 DEF Refuse
<1> QED
    BY <1>1, <1>2, <1>3, <1>4, <1>5, <1>6, <1>7, <1>8, <1>9 DEF Next, Stop, vars

LEMMA AlwaysIInv == Spec => []IInv
BY InitIInv, NextKeeps, PTL DEF Spec

-----------------------------------------------------------------------------
\* Whatever the files, the callers and the number of calls, no chain of
\* conversions makes flux or a bitstream of a sector image.
THEOREM NothingIsMadeUp == Spec => []FluxIsNeverMadeUp
<1>1. IInv => FluxIsNeverMadeUp
    BY DEF IInv
<1> QED
    BY <1>1, AlwaysIInv, PTL

\* Whatever the files, the callers and the number of calls, the report beside a
\* file made with a loss is the report of that loss.
THEOREM EveryLossIsTold == Spec => []LossIsTold
<1>1. IInv => LossIsTold
    BY DEF IInv
<1> QED
    BY <1>1, AlwaysIInv, PTL
=============================================================================
