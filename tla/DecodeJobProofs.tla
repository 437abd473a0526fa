--------------------------- MODULE DecodeJobProofs ---------------------------
(***************************************************************************)
(* The counts a decode job reports and the copy it leaves, for any number  *)
(* of jobs, any size of the image and every moment of a cancel.            *)
(***************************************************************************)
EXTENDS DecodeJob, FiniteSetTheorems, TLAPS

Places == {"unused", "load", "verify", "sectors", "verified",
           "convert", "copy", "stuck", "closed", "done"}

TypeInv ==
    /\ good \in [Jobs -> Nat] /\ bad \in [Jobs -> Nat] /\ total \in [Jobs -> Nat]
    /\ cancel \in [Jobs -> BOOLEAN]
    /\ pc \in [Jobs -> Places]
    /\ verdict \in [Jobs -> {"none", "error", "finished"}]

Counted(j) == good[j] + bad[j] = total[j]

\* What a job knows of its counts: nothing is counted before the pass over the
\* sectors; a pass that was cut short goes with a cancel, which is for good; and
\* nothing but a whole pass gets as far as the copy.
CountInv ==
    \A j \in Jobs :
        /\ pc[j] \in {"unused", "load", "verify"} => good[j] = 0 /\ bad[j] = 0
        /\ pc[j] = "verified" => cancel[j] \/ Counted(j)
        /\ pc[j] \in {"convert", "copy", "stuck", "closed"} => Counted(j)
        /\ verdict[j] = "finished" => pc[j] = "done" /\ Counted(j)

IInv == TypeInv /\ CountInv

LEMMA InitIInv == Init => IInv
BY DEF Init, IInv, TypeInv, CountInv, Places

\* A step of one job that only moves it on, or ends it.
LEMMA MoveKeeps ==
    ASSUME IInv, NEW j \in Jobs, NEW l \in Places, UNCHANGED <<cancel, counts>>,
           pc[j] # "done", pc' = [pc EXCEPT ![j] = l],
           \/ verdict' = verdict
           \/ verdict' = [verdict EXCEPT ![j] = "error"] /\ l = "done"
           \/ verdict' = [verdict EXCEPT ![j] = "finished"] /\ l = "done" /\ Counted(j),
           l \in {"unused", "load", "verify"} => good[j] = 0 /\ bad[j] = 0,
           l = "verified" => cancel[j] \/ Counted(j),
           l \in {"convert", "copy", "stuck", "closed"} => Counted(j)
    PROVE  IInv'
<1>1. TypeInv'
    BY DEF IInv, TypeInv, counts
<1>2. UNCHANGED <<good, bad, total, cancel>>
    BY DEF counts
<1>3. CountInv'
    <2> SUFFICES ASSUME NEW i \in Jobs
                 PROVE  /\ pc'[i] \in {"unused", "load", "verify"} => good[i] = 0 /\ bad[i] = 0
                        /\ pc'[i] = "verified" => cancel[i] \/ Counted(i)
                        /\ pc'[i] \in {"convert", "copy", "stuck", "closed"} => Counted(i)
                        /\ verdict'[i] = "finished" => pc'[i] = "done" /\ Counted(i)
        BY <1>2 DEF CountInv, Counted
    <2>1. CASE i = j
        <3>1. verdict[j] # "finished"
            BY DEF IInv, CountInv
        <3> QED
            BY <2>1, <3>1 DEF IInv, TypeInv
    <2>2. CASE i # j
        <3>1. pc'[i] = pc[i] /\ verdict'[i] = verdict[i]
            BY <2>2 DEF IInv, TypeInv
        <3> QED
            BY <3>1 DEF IInv, CountInv
    <2> QED
        BY <2>1, <2>2
<1> QED
    BY <1>1, <1>3 DEF IInv

\* A step of one job that counts.
LEMMA CountKeeps ==
    ASSUME IInv, NEW j \in Jobs, pc[j] \in {"load", "verify", "sectors"},
           UNCHANGED <<cancel, verdict>>, NEW l \in Places, pc' = [pc EXCEPT ![j] = l],
           NEW g \in Nat, NEW b \in Nat, NEW t \in Nat,
           good' = [good EXCEPT ![j] = g], bad' = [bad EXCEPT ![j] = b],
           total' = [total EXCEPT ![j] = t],
           \/ l = "verify" /\ g = 0 /\ b = 0
           \/ l = "sectors"
           \/ l = "verified" /\ g + b = t
    PROVE  IInv'
<1>1. TypeInv'
    BY DEF IInv, TypeInv
<1>2. CountInv'
    <2> SUFFICES ASSUME NEW i \in Jobs
                 PROVE  /\ pc'[i] \in {"unused", "load", "verify"} => good'[i] = 0 /\ bad'[i] = 0
                        /\ pc'[i] = "verified" => cancel'[i] \/ good'[i] + bad'[i] = total'[i]
                        /\ pc'[i] \in {"convert", "copy", "stuck", "closed"}
                               => good'[i] + bad'[i] = total'[i]
                        /\ verdict'[i] = "finished"
                               => pc'[i] = "done" /\ good'[i] + bad'[i] = total'[i]
        BY DEF CountInv, Counted
    <2>1. CASE i = j
        <3>1. pc'[j] = l /\ good'[j] = g /\ bad'[j] = b /\ total'[j] = t
            BY DEF IInv, TypeInv
        <3>2. verdict'[j] # "finished"
            BY DEF IInv, CountInv
        <3> QED
            BY <2>1, <3>1, <3>2
    <2>2. CASE i # j
        <3>1. /\ pc'[i] = pc[i] /\ verdict'[i] = verdict[i] /\ cancel'[i] = cancel[i]
              /\ good'[i] = good[i] /\ bad'[i] = bad[i] /\ total'[i] = total[i]
            BY <2>2 DEF IInv, TypeInv
        <3> QED
            BY <3>1 DEF IInv, CountInv, Counted
    <2> QED
        BY <2>1, <2>2
<1> QED
    BY <1>1, <1>2 DEF IInv

-----------------------------------------------------------------------------
LEMMA StartKeeps == ASSUME IInv, NEW j \in Jobs, Start(j) PROVE IInv'
<1>1. pc[j] = "unused" /\ good[j] = 0 /\ bad[j] = 0
    BY DEF Start, IInv, CountInv
<1> QED
    BY <1>1, MoveKeeps DEF Start, Go, Places

LEMMA RequestCancelKeeps == ASSUME IInv, NEW j \in Jobs, RequestCancel(j) PROVE IInv'
<1>1. UNCHANGED <<good, bad, total, pc, verdict>>
    BY DEF RequestCancel, counts
<1>2. cancel' \in [Jobs -> BOOLEAN] /\ \A i \in Jobs : cancel[i] => cancel'[i]
    BY DEF RequestCancel, IInv, TypeInv
<1> QED
    BY <1>1, <1>2 DEF IInv, TypeInv, CountInv, Counted

LEMMA LoadKeeps == ASSUME IInv, NEW j \in Jobs, Load(j) PROVE IInv'
<1> USE DecodeJobAssumption
<1>1. UNCHANGED <<cancel, good, bad>> /\ pc[j] = "load" /\ good[j] = 0 /\ bad[j] = 0
    BY DEF Load, IInv, CountInv
<1>2. CASE Emit(j, "error") /\ UNCHANGED total
    BY <1>1, <1>2, MoveKeeps DEF Emit, Places, counts
<1>3. CASE Go(j, "verify") /\ \E n \in 1 .. MaxSectors : total' = [total EXCEPT ![j] = n]
    <2>1. PICK n \in 1 .. MaxSectors : total' = [total EXCEPT ![j] = n]
        BY <1>3
    <2>2. good' = [good EXCEPT ![j] = 0] /\ bad' = [bad EXCEPT ![j] = 0]
        BY <1>1 DEF IInv, TypeInv
    <2>3. n \in Nat
        BY DEF DecodeJobAssumption
    <2> QED
        <3>1. "verify" \in Places /\ 0 \in Nat /\ pc[j] \in {"load", "verify", "sectors"}
            BY <1>1 DEF Places
        <3>2. UNCHANGED <<cancel, verdict>> /\ pc' = [pc EXCEPT ![j] = "verify"]
            BY <1>1, <1>3 DEF Go
        <3> QED
            BY <2>1, <2>2, <2>3, <3>1, <3>2, CountKeeps
<1> QED
    BY <1>2, <1>3 DEF Load

LEMMA VerifyOpenKeeps == ASSUME IInv, NEW j \in Jobs, VerifyOpen(j) PROVE IInv'
<1>1. UNCHANGED <<cancel, total, bad>> /\ pc[j] = "verify" /\ bad[j] = 0
    BY DEF VerifyOpen, IInv, CountInv
<1>2. CASE Emit(j, "error") /\ UNCHANGED good
    BY <1>1, <1>2, MoveKeeps DEF Emit, Places, counts
<1>3. CASE Go(j, "sectors") /\ UNCHANGED good
    BY <1>1, <1>3, MoveKeeps DEF Go, Places, counts
<1>4. CASE Go(j, "verified") /\ good' = [good EXCEPT ![j] = total[j]]
    <2>1. PICK t \in Nat : t = total[j]
        BY DEF IInv, TypeInv
    <2>2. /\ good' = [good EXCEPT ![j] = t] /\ bad' = [bad EXCEPT ![j] = 0]
          /\ total' = [total EXCEPT ![j] = t]
        BY <1>1, <1>4, <2>1 DEF IInv, TypeInv
    <2>3. /\ pc' = [pc EXCEPT ![j] = "verified"] /\ pc[j] \in {"load", "verify", "sectors"}
          /\ UNCHANGED <<cancel, verdict>>
        BY <1>1, <1>4 DEF Go
    <2>4. 0 \in Nat /\ "verified" \in Places /\ t + 0 = t
        BY DEF Places
    <2> QED
        BY <2>2, <2>3, <2>4, CountKeeps
<1> QED
    BY <1>2, <1>3, <1>4 DEF VerifyOpen

LEMMA VerifySectorKeeps == ASSUME IInv, NEW j \in Jobs, VerifySector(j) PROVE IInv'
<1>1. /\ pc[j] = "sectors" /\ pc' = [pc EXCEPT ![j] = "sectors"]
      /\ UNCHANGED <<cancel, verdict>>
      /\ total[j] \in Nat /\ total' = [total EXCEPT ![j] = total[j]]
      /\ good[j] \in Nat /\ bad[j] \in Nat
    BY DEF VerifySector, IInv, TypeInv
<1>2. CASE good' = [good EXCEPT ![j] = @ + 1] /\ UNCHANGED bad
    <2>1. good[j] + 1 \in Nat /\ bad' = [bad EXCEPT ![j] = bad[j]]
        BY <1>1, <1>2 DEF IInv, TypeInv
    <2> QED
        BY <1>1, <1>2, <2>1, CountKeeps DEF Places
<1>3. CASE bad' = [bad EXCEPT ![j] = @ + 1] /\ UNCHANGED good
    <2>1. bad[j] + 1 \in Nat /\ good' = [good EXCEPT ![j] = good[j]]
        BY <1>1, <1>3 DEF IInv, TypeInv
    <2> QED
        BY <1>1, <1>3, <2>1, CountKeeps DEF Places
<1> QED
    BY <1>2, <1>3 DEF VerifySector

LEMMA SectorsEndKeeps == ASSUME IInv, NEW j \in Jobs, SectorsEnd(j) PROVE IInv'
BY MoveKeeps DEF SectorsEnd, Go, Places, Counted

LEMMA VerifyEndKeeps == ASSUME IInv, NEW j \in Jobs, VerifyEnd(j) PROVE IInv'
<1>1. UNCHANGED <<cancel, counts>> /\ pc[j] = "verified"
    BY DEF VerifyEnd
<1>2. CASE cancel[j]
    BY <1>1, <1>2, MoveKeeps DEF VerifyEnd, Emit, Places
<1>3. CASE ~cancel[j]
    <2>1. Counted(j)
        BY <1>1, <1>3 DEF IInv, CountInv
    <2>2. CASE copy = "none"
        BY <1>1, <1>3, <2>1, <2>2, MoveKeeps DEF VerifyEnd, Emit, Places
    <2>3. CASE copy # "none"
        BY <1>1, <1>3, <2>1, <2>3, MoveKeeps DEF VerifyEnd, Go, Places
    <2> QED
        BY <2>2, <2>3
<1> QED
    BY <1>2, <1>3

\* From the opening of the copy on nothing is counted any more.
LEMMA CopyKeeps ==
    ASSUME IInv, NEW j \in Jobs,
           \/ ConvertOpen(j) \/ CopyChunk(j) \/ ReadFails(j) \/ CopyClose(j) \/ ConvertEnd(j)
    PROVE  IInv'
<1>1. /\ UNCHANGED <<cancel, counts>>
      /\ pc[j] \in {"convert", "copy", "stuck", "closed"} /\ Counted(j)
    BY DEF ConvertOpen, CopyChunk, ReadFails, CopyClose, ConvertEnd, IInv, CountInv
<1>2. CASE Emit(j, "error")
    BY <1>1, <1>2, MoveKeeps DEF Emit, Places
<1>3. CASE Emit(j, "finished")
    BY <1>1, <1>3, MoveKeeps DEF Emit, Places
<1>4. ASSUME NEW l \in {"copy", "stuck", "closed", "done"}, Go(j, l) PROVE IInv'
    BY <1>1, <1>4, MoveKeeps DEF Go, Places
<1>5. CASE UNCHANGED <<pc, verdict>>
    BY <1>1, <1>5 DEF IInv, TypeInv, CountInv, Counted, counts
<1>6. CASE ConvertOpen(j)
    <2>1. Emit(j, "error") \/ Go(j, "copy")
        BY <1>6 DEF ConvertOpen
    <2> QED
        BY <2>1, <1>2, <1>4
<1>7. CASE CopyChunk(j)
    BY <1>7, <1>2, <1>5 DEF CopyChunk
<1>8. CASE ReadFails(j)
    BY <1>8, <1>4 DEF ReadFails
<1>9. CASE CopyClose(j)
    BY <1>9, <1>4 DEF CopyClose
<1>10. CASE ConvertEnd(j)
    BY <1>10, <1>3, <1>4 DEF ConvertEnd
<1> QED
    BY <1>6, <1>7, <1>8, <1>9, <1>10

LEMMA NextKeeps == IInv /\ [Next]_vars => IInv'
<1> SUFFICES ASSUME IInv, [Next]_vars PROVE IInv'
    OBVIOUS
<1>1. ASSUME NEW j \in Jobs, Start(j) \/ RequestCancel(j) \/ Run(j) PROVE IInv'
    BY <1>1, StartKeeps, RequestCancelKeeps, LoadKeeps, VerifyOpenKeeps, VerifySectorKeeps,
       SectorsEndKeeps, VerifyEndKeeps, CopyKeeps DEF Run
<1>2. CASE UNCHANGED vars
    BY <1>2 DEF IInv, TypeInv, CountInv, Counted, vars, counts
<1> QED
    BY <1>1, <1>2 DEF Next

\* A job that reports success has counted every sector, for any number of jobs
\* and sectors and wherever its cancel falls (run() and verifySectors).
THEOREM FinalCountsAreTrue == Spec => []CountsAreTrue
<1>1. Spec => []IInv
    BY InitIInv, NextKeeps, PTL DEF Spec
<1>2. IInv => CountsAreTrue
    BY DEF IInv, CountInv, Counted, CountsAreTrue
<1> QED
    BY <1>1, <1>2, PTL

-----------------------------------------------------------------------------
Files   == 1 .. SourceFile
Copying == {"copy", "stuck", "closed"}

FileType ==
    /\ patient \in BOOLEAN /\ copy \in {"none", "other", "same"}
    /\ source \in {SourceFile, None} /\ dest \in (1 .. OldFile) \cup {None}
    /\ data \in [Files -> SUBSET Nat]
    /\ fd \in [Jobs -> Files \cup {None}]
    /\ at \in [Jobs -> Nat] /\ held \in [Jobs -> Nat]
    /\ size = [j \in Jobs |-> size[j]]
    /\ lost \in BOOLEAN /\ kept \in BOOLEAN

\* What the loops leave alone: a job's position is 0 until it opens its copy,
\* and only a job that is to copy gets that far.
FreshInv ==
    \A j \in Jobs :
        /\ pc[j] \notin Copying \cup {"done"} => at[j] = 0 /\ held[j] = 0
        /\ pc[j] \in Copying \cup {"convert"} => copy # "none"

\* A copy onto the source leaves the other file alone, and no copy is none.
SameInv ==
    copy # "other" =>
        /\ dest \in {OldFile, None} /\ data[OldFile] = {0}
        /\ \A j \in Jobs : pc[j] \in Copying => fd[j] = SourceFile

\* What the destination holds in the middle of a copy to another file.
LoopInv(j) ==
    /\ fd[j] = dest /\ dest # None
    /\ size[j] = NumChunks /\ at[j] <= NumChunks
    /\ \/ held[j] = 0 /\ data[dest] = 1 .. at[j]
       \/ held[j] = NumChunks /\ at[j] = NumChunks /\ data[dest] = 1 .. (NumChunks - 1)

ClosedInv(j) ==
    /\ fd[j] = dest /\ dest # None
    /\ cancel[j] \/ lost \/ data[dest] = Chunks

\* With one job at work at a time, the destination is the copy in progress, or
\* what it was at first, or nothing, or whole, or what the system would not remove.
OtherInv ==
    copy = "other" /\ patient =>
        /\ source = SourceFile /\ data[SourceFile] = Chunks
        /\ \A i, j \in Jobs : AtWork(i) /\ AtWork(j) => i = j
        /\ \A j \in Jobs : pc[j] \in {"copy", "stuck"} => LoopInv(j)
        /\ \A j \in Jobs : pc[j] = "closed" => ClosedInv(j)
        /\ (\A j \in Jobs : pc[j] \notin Copying) =>
               dest = None \/ lost \/ kept \/ data[dest] \in {{0}, Chunks}

FileInv == FileType /\ FreshInv /\ SameInv /\ OtherInv

LEMMA Constants ==
    /\ NumJobs \in Nat /\ NumJobs > 0 /\ NumChunks \in Nat /\ NumChunks > 0
    /\ None \notin Files /\ None # SourceFile /\ None # OldFile
    /\ OldFile \in Files /\ SourceFile \in Files /\ OldFile # SourceFile
    /\ 1 .. OldFile \subseteq Files /\ SourceFile \notin 1 .. OldFile
    /\ Jobs \subseteq 1 .. OldFile
BY DecodeJobAssumption DEF DecodeJobAssumption, Files, OldFile, SourceFile, Jobs

LEMMA InitFileInv == Init => FileInv
<1> SUFFICES ASSUME Init PROVE FileInv
    OBVIOUS
<1>1. FileType
    <2>1. data \in [Files -> SUBSET Nat]
        <3> DEFINE d(f) == CASE f = SourceFile -> Chunks [] f = OldFile -> {0} [] OTHER -> {}
        <3>1. data = [f \in Files |-> d(f)]
            BY Zenon DEF Init, Files
        <3>2. ASSUME NEW f \in Files PROVE d(f) \in SUBSET Nat
            <4>1. CASE f = SourceFile
                BY <4>1, Constants DEF Chunks
            <4>2. CASE f = OldFile
                BY <4>2, Constants
            <4>3. CASE f # SourceFile /\ f # OldFile
                BY <4>3
            <4> QED
                BY <4>1, <4>2, <4>3
        <3> HIDE DEF d
        <3> QED
            BY <3>1, <3>2
    <2>2. /\ fd \in [Jobs -> Files \cup {None}] /\ dest \in (1 .. OldFile) \cup {None}
          /\ at \in [Jobs -> Nat] /\ held \in [Jobs -> Nat]
          /\ size = [j \in Jobs |-> size[j]]
        BY Constants DEF Init, OldFile
    <2> QED
        BY <2>1, <2>2 DEF Init, FileType
<1>2. FreshInv
    BY DEF Init, FreshInv, Copying
<1>3. data[OldFile] = {0} /\ data[SourceFile] = Chunks
    BY Constants DEF Init, Files
<1>4. SameInv /\ OtherInv
    BY <1>3, Constants DEF Init, SameInv, OtherInv, Copying, AtWork
<1> QED
    BY <1>1, <1>2, <1>4 DEF FileInv

\* A step that leaves the files and the copy alone, of a job that is not in the
\* middle of one.
LEMMA PlainKeeps ==
    ASSUME TypeInv, FileInv, NEW j \in Jobs, NEW l \in Places \ Copying,
           UNCHANGED <<setting, names, data, local, hist>>,
           pc[j] \notin Copying, pc' = [pc EXCEPT ![j] = l], pc[j] # "done",
           \/ AtWork(j)
           \/ patient => \A i \in Jobs : ~AtWork(i),
           l = "convert" => copy # "none"
    PROVE  FileInv'
<1>1. /\ UNCHANGED <<patient, copy, source, dest, data, fd, at, size, held, lost, kept>>
      /\ pc'[j] = l /\ \A i \in Jobs : i # j => pc'[i] = pc[i]
    BY DEF setting, names, local, hist, TypeInv
<1>2. FileType' /\ FreshInv'
    BY <1>1 DEF FileInv, FileType, FreshInv
<1>3. SameInv'
    BY <1>1 DEF FileInv, SameInv
<1>4. OtherInv'
    <2> SUFFICES ASSUME copy = "other", patient
                 PROVE  OtherInv'
        BY <1>1 DEF OtherInv
    <2>1. \A i, k \in Jobs : AtWork(i)' /\ AtWork(k)' => i = k
        BY <1>1 DEF FileInv, OtherInv, AtWork
    <2>2. \A i \in Jobs : pc'[i] \in Copying <=> pc[i] \in Copying
        BY <1>1
    <2>3. \A i \in Jobs : pc'[i] \in Copying => pc'[i] = pc[i] /\ pc[i] \in Copying
        BY <1>1
    <2>4. \A i \in Jobs : pc'[i] \notin Copying
        <3>1. CASE AtWork(j)
            BY <3>1, <2>2 DEF FileInv, OtherInv, AtWork, Copying
        <3>2. CASE \A i \in Jobs : ~AtWork(i)
            BY <3>2, <2>2 DEF AtWork, Copying
        <3> QED
            BY <3>1, <3>2
    <2> QED
        BY <1>1, <2>1, <2>2, <2>4 DEF FileInv, OtherInv, Copying
<1> QED
    BY <1>2, <1>3, <1>4 DEF FileInv

\* In a step of a job that copies to another file, no other job is in the way.
LEMMA Alone ==
    ASSUME TypeInv, FileInv, copy = "other", patient, NEW j \in Jobs, AtWork(j),
           NEW l, pc' = [pc EXCEPT ![j] = l]
    PROVE  /\ pc'[j] = l
           /\ \A i \in Jobs : i # j => pc'[i] = pc[i] /\ ~AtWork(i) /\ pc'[i] \notin Copying
           /\ \A i, k \in Jobs : AtWork(i)' /\ AtWork(k)' => i = k
BY DEF TypeInv, FileInv, OtherInv, AtWork, Copying

\* Everything before the copy, and everything that is not run().
LEMMA BeforeCopyKeeps ==
    ASSUME TypeInv, FileInv, UNCHANGED setting, NEW j \in Jobs,
           \/ Start(j) \/ Load(j) \/ VerifyOpen(j) \/ SectorsEnd(j) \/ VerifyEnd(j)
    PROVE  FileInv'
<1>1. UNCHANGED <<names, data, local, hist>> /\ pc[j] \notin Copying \cup {"done"}
    BY DEF Start, Load, VerifyOpen, SectorsEnd, VerifyEnd, Copying
<1>2. AtWork(j) \/ (patient => \A i \in Jobs : ~AtWork(i))
    BY DEF Start, Load, VerifyOpen, SectorsEnd, VerifyEnd, AtWork
<1>3. \E l \in Places \ Copying :
          pc' = [pc EXCEPT ![j] = l] /\ (l = "convert" => copy # "none")
    BY DEF Start, Load, VerifyOpen, SectorsEnd, VerifyEnd, Go, Emit, Places, Copying
<1> QED
    BY <1>1, <1>2, <1>3, PlainKeeps

LEMMA AsideKeeps ==
    ASSUME TypeInv, FileInv, UNCHANGED setting, NEW j \in Jobs,
           RequestCancel(j) \/ VerifySector(j)
    PROVE  FileInv'
<1>1. /\ UNCHANGED <<patient, copy, source, dest, data, pc, fd, at, size, held, lost, kept>>
      /\ \A i \in Jobs : cancel[i] => cancel'[i]
    BY DEF RequestCancel, VerifySector, setting, names, local, hist, TypeInv
<1>2. FileType' /\ FreshInv' /\ SameInv'
    BY <1>1 DEF FileInv, FileType, FreshInv, SameInv
<1>3. OtherInv'
    BY <1>1 DEF FileInv, OtherInv, LoopInv, ClosedInv, AtWork
<1> QED
    BY <1>2, <1>3 DEF FileInv

LEMMA Changed ==
    ASSUME NEW D, NEW f, f = [x \in D |-> f[x]], NEW y, NEW v, NEW g, g = [f EXCEPT ![y] = v]
    PROVE  g = [x \in D |-> g[x]]
OBVIOUS

\* The copy begins with an empty file.
LEMMA ConvertOpenKeeps ==
    ASSUME TypeInv, FileInv, UNCHANGED setting, NEW j \in Jobs, ConvertOpen(j)
    PROVE  FileInv'
<1>1. pc[j] = "convert" /\ AtWork(j) /\ at[j] = 0 /\ held[j] = 0 /\ copy # "none"
    BY DEF ConvertOpen, FileInv, FreshInv, AtWork, Copying
<1>2. CASE Emit(j, "error") /\ UNCHANGED <<names, data, fd, size, hist>>
    <2>1. pc' = [pc EXCEPT ![j] = "done"] /\ UNCHANGED <<names, data, local, hist>>
        BY <1>2 DEF Emit, ConvertOpen, local
    <2> QED
        BY <1>1, <2>1, PlainKeeps DEF Places, Copying
<1>3. CASE Go(j, "copy") /\ UNCHANGED source /\ source # None /\ lost' = FALSE /\ kept' = FALSE
    <2> DEFINE f == IF Target = None THEN j ELSE Target
    <2>1. /\ fd' = [fd EXCEPT ![j] = f] /\ data' = [data EXCEPT ![f] = {}]
          /\ dest' = (IF copy = "other" THEN f ELSE dest)
          /\ size' = [size EXCEPT ![j] = Cardinality(data'[source])]
          /\ pc' = [pc EXCEPT ![j] = "copy"]
          /\ UNCHANGED <<patient, copy, source, at, held, cancel>>
        BY <1>1, <1>3 DEF ConvertOpen, Go, setting, Emit, TypeInv
    <2>2. source = SourceFile
        BY <1>3 DEF FileInv, FileType
    <2>3. f \in Files /\ (copy = "other" => f \in 1 .. OldFile) /\ (copy = "same" => f = SourceFile)
        BY <2>2, Constants DEF Target, FileInv, FileType
    <2> HIDE DEF f
    <2>4. data'[f] = {} /\ \A g \in Files : g # f => data'[g] = data[g]
        BY <2>1, <2>3 DEF FileInv, FileType
    <2>5. copy = "other" /\ patient => Cardinality(data'[source]) = NumChunks
        <3>1. SUFFICES ASSUME copy = "other", patient PROVE Cardinality(Chunks) = NumChunks
            BY <2>2, <2>3, <2>4, Constants DEF FileInv, OtherInv
        <3> QED
            BY Constants, FS_Interval DEF Chunks
    <2>6. SameInv'
        <3> SUFFICES ASSUME copy = "same" PROVE SameInv'
            BY <1>1, <2>1 DEF SameInv, FileInv, FileType
        <3>1. data'[OldFile] = {0} /\ dest' = dest
            BY <2>1, <2>3, <2>4, Constants DEF FileInv, SameInv
        <3>2. fd'[j] = SourceFile /\ \A i \in Jobs : i # j => fd'[i] = fd[i] /\ pc'[i] = pc[i]
            BY <2>1, <2>3 DEF FileInv, FileType, TypeInv
        <3> QED
            BY <3>1, <3>2, <2>1 DEF FileInv, SameInv
    <2>7. FileType'
        <3>1. size' = [i \in Jobs |-> size'[i]]
            <4>1. size = [i \in Jobs |-> size[i]]
                BY DEF FileInv, FileType
            <4> QED
                BY <2>1, <4>1, Changed
        <3>2. /\ fd' \in [Jobs -> Files \cup {None}] /\ data' \in [Files -> SUBSET Nat]
              /\ dest' \in (1 .. OldFile) \cup {None}
            BY <2>1, <2>3 DEF FileInv, FileType
        <3> QED
            BY <1>3, <2>1, <3>1, <3>2 DEF FileInv, FileType
    <2>8. FreshInv'
        BY <1>1, <2>1 DEF FileInv, FreshInv, Copying, TypeInv
    <2>9. OtherInv'
        <3> SUFFICES ASSUME copy = "other", patient PROVE OtherInv'
            BY <2>1 DEF OtherInv
        <3>1. /\ pc'[j] = "copy" /\ \A i, k \in Jobs : AtWork(i)' /\ AtWork(k)' => i = k
              /\ \A i \in Jobs : i # j => pc'[i] \notin Copying
            BY <1>1, <2>1, Alone
        <3>2. source' = SourceFile /\ data'[SourceFile] = Chunks
            BY <2>1, <2>2, <2>3, <2>4, Constants DEF FileInv, OtherInv
        <3>3. LoopInv(j)'
            <4>1. fd'[j] = dest' /\ dest' # None /\ data'[dest'] = {}
                BY <2>1, <2>3, <2>4, Constants DEF FileInv, FileType
            <4>2. size'[j] = NumChunks
                BY <2>1, <2>5 DEF FileInv, FileType
            <4>3. 1 .. at'[j] = {} /\ at'[j] <= NumChunks
                BY <1>1, <2>1, Constants
            <4> QED
                BY <1>1, <2>1, <4>1, <4>2, <4>3 DEF LoopInv
        <3> QED
            BY <3>1, <3>2, <3>3, <2>1 DEF OtherInv, Copying
    <2> QED
        BY <2>6, <2>7, <2>8, <2>9 DEF FileInv
<1> QED
    BY <1>2, <1>3 DEF ConvertOpen

\* The destination is removed: no part of it is left under its name, unless the
\* system would not remove it.
LEMMA RemoveKeeps ==
    ASSUME TypeInv, FileInv, UNCHANGED setting, NEW j \in Jobs, AtWork(j), copy # "none",
           UNCHANGED <<data, local>>, Remove, pc' = [pc EXCEPT ![j] = "done"]
    PROVE  FileInv'
<1>1. /\ UNCHANGED <<patient, copy, data, fd, at, size, held, lost>>
      /\ pc'[j] = "done" /\ \A i \in Jobs : i # j => pc'[i] = pc[i]
    BY DEF setting, local, Remove, TypeInv
<1>2. FileType' /\ FreshInv'
    BY <1>1 DEF FileInv, FileType, FreshInv, Remove, names
<1>3. SameInv'
    BY <1>1 DEF FileInv, FileType, SameInv, Remove, Copying, names
<1>4. OtherInv'
    <2> SUFFICES ASSUME copy = "other", patient PROVE OtherInv'
        BY <1>1 DEF OtherInv
    <2>1. \A i \in Jobs : i # j => ~AtWork(i)
        BY DEF FileInv, OtherInv
    <2>2. \A i \in Jobs : ~AtWork(i)' /\ pc'[i] \notin Copying
        BY <1>1, <2>1 DEF AtWork, Copying
    <2>3. (dest' = None \/ kept') /\ source' = source
        BY DEF Remove, names
    <2> QED
        BY <1>1, <2>2, <2>3 DEF FileInv, OtherInv, Copying
<1> QED
    BY <1>2, <1>3, <1>4 DEF FileInv

\* One chunk is written, or stays in the buffer, or the copy is removed.
LEMMA CopyChunkKeeps ==
    ASSUME TypeInv, FileInv, UNCHANGED setting, NEW j \in Jobs, CopyChunk(j)
    PROVE  FileInv'
<1>1. /\ pc[j] = "copy" /\ AtWork(j) /\ at[j] < size[j] /\ copy # "none"
      /\ UNCHANGED <<patient, copy, fd, size, cancel>>
    BY DEF CopyChunk, FileInv, FreshInv, AtWork, Copying, setting
<1>2. CASE /\ data' = [data EXCEPT ![fd[j]] = @ \cup {at[j] + 1}]
           /\ at' = [at EXCEPT ![j] = @ + 1]
           /\ UNCHANGED <<names, pc, held, verdict, lost, kept>>
    <2>1. \A g \in Files : g # fd[j] => data'[g] = data[g]
        BY <1>2 DEF FileInv, FileType
    <2>2. FileType' /\ FreshInv'
        <3>1. at' \in [Jobs -> Nat]
            BY <1>2 DEF FileInv, FileType
        <3>2. data' \in [Files -> SUBSET Nat]
            <4>1. fd[j] \in Files => data[fd[j]] \cup {at[j] + 1} \in SUBSET Nat
                BY DEF FileInv, FileType
            <4> QED
                BY <1>2, <4>1 DEF FileInv, FileType
        <3> QED
            BY <1>1, <1>2, <3>1, <3>2 DEF FileInv, FileType, FreshInv, names, Copying
    <2>3. SameInv'
        BY <1>1, <1>2, <2>1, Constants DEF FileInv, SameInv, names, Copying
    <2>4. OtherInv'
        <3> SUFFICES ASSUME copy = "other", patient PROVE OtherInv'
            BY <1>1 DEF OtherInv
        <3>1. LoopInv(j) /\ \A i \in Jobs : pc[i] \in Copying => i = j
            BY <1>1 DEF FileInv, OtherInv, AtWork, Copying
        <3>2. dest \in Files /\ dest # SourceFile
            BY <3>1, Constants DEF FileInv, FileType, LoopInv
        <3>3. data'[dest] = data[dest] \cup {at[j] + 1}
            BY <1>2, <3>1, <3>2 DEF FileInv, FileType, LoopInv
        <3>4. at'[j] = at[j] + 1 /\ at[j] \in Nat /\ at[j] < NumChunks
            BY <1>1, <1>2, <3>1 DEF FileInv, FileType, LoopInv
        <3>5. held[j] = 0 /\ data[dest] = 1 .. at[j]
            BY <3>1, <3>4, Constants DEF LoopInv
        <3>6. data'[dest] = 1 .. at'[j] /\ at'[j] <= NumChunks
            BY <3>3, <3>4, <3>5, Constants
        <3>7. LoopInv(j)'
            BY <1>1, <1>2, <3>1, <3>5, <3>6 DEF LoopInv, names
        <3>8. source' = SourceFile /\ data'[SourceFile] = Chunks
            BY <1>2, <2>1, <3>1, <3>2, Constants DEF FileInv, OtherInv, LoopInv, names
        <3> QED
            BY <1>1, <1>2, <3>1, <3>7, <3>8 DEF FileInv, OtherInv, AtWork, Copying, names
    <2> QED
        BY <2>2, <2>3, <2>4 DEF FileInv
<1>3. CASE /\ at[j] + 1 = size[j]
           /\ held' = [held EXCEPT ![j] = size[j]]
           /\ at' = [at EXCEPT ![j] = @ + 1]
           /\ UNCHANGED <<names, data, pc, verdict, lost, kept>>
    <2>1. FileType' /\ FreshInv'
        <3>1. at' \in [Jobs -> Nat]
            BY <1>3 DEF FileInv, FileType
        <3>2. size[j] \in Nat
            BY <1>3 DEF FileInv, FileType
        <3>3. held' \in [Jobs -> Nat]
            BY <1>3, <3>2 DEF FileInv, FileType
        <3> QED
            BY <1>1, <1>3, <3>1, <3>3 DEF FileInv, FileType, FreshInv, names, Copying
    <2>2. SameInv'
        BY <1>1, <1>3 DEF FileInv, SameInv, names, Copying
    <2>3. OtherInv'
        <3> SUFFICES ASSUME copy = "other", patient PROVE OtherInv'
            BY <1>1 DEF OtherInv
        <3>1. LoopInv(j) /\ \A i \in Jobs : pc[i] \in Copying => i = j
            BY <1>1 DEF FileInv, OtherInv, AtWork, Copying
        <3>2. at'[j] = NumChunks /\ held'[j] = NumChunks /\ at[j] = NumChunks - 1
            BY <1>1, <1>3, <3>1, Constants DEF FileInv, FileType, LoopInv
        <3>3. data[dest] = 1 .. (NumChunks - 1)
            BY <3>1, <3>2, Constants DEF LoopInv
        <3>4. LoopInv(j)'
            BY <1>1, <1>3, <3>1, <3>2, <3>3, Constants DEF LoopInv, names
        <3> QED
            BY <1>1, <1>3, <3>1, <3>4 DEF FileInv, OtherInv, AtWork, Copying, names
    <2> QED
        BY <2>1, <2>2, <2>3 DEF FileInv
<1>4. CASE Remove /\ Emit(j, "error") /\ UNCHANGED <<data, at, held>>
    BY <1>1, <1>4, RemoveKeeps DEF Emit, local
<1> QED
    BY <1>1, <1>2, <1>3, <1>4 DEF CopyChunk, hist

LEMMA ReadFailsKeeps ==
    ASSUME TypeInv, FileInv, UNCHANGED setting, NEW j \in Jobs, ReadFails(j)
    PROVE  FileInv'
<1>1. /\ pc[j] = "copy" /\ pc' = [pc EXCEPT ![j] = "stuck"]
      /\ UNCHANGED <<patient, copy, source, dest, data, cancel, fd, at, size, held, lost, kept>>
    BY DEF ReadFails, Go, setting, names, local, hist
<1>2. \A i \in Jobs : pc'[i] = pc[i] \/ (pc[i] = "copy" /\ pc'[i] = "stuck")
    BY <1>1 DEF TypeInv
<1>3. FileType' /\ FreshInv' /\ SameInv'
    BY <1>1, <1>2 DEF FileInv, FileType, FreshInv, SameInv, Copying
<1>4. OtherInv'
    BY <1>1, <1>2 DEF FileInv, OtherInv, LoopInv, ClosedInv, AtWork, Copying
<1> QED
    BY <1>3, <1>4 DEF FileInv

\* The files are closed: the copy is whole, or there is a cancel, or a loss.
LEMMA CopyCloseKeeps ==
    ASSUME TypeInv, FileInv, UNCHANGED setting, NEW j \in Jobs, CopyClose(j)
    PROVE  FileInv'
<1>1. /\ pc[j] \in {"copy", "stuck"} /\ AtWork(j) /\ copy # "none"
      /\ pc' = [pc EXCEPT ![j] = "closed"]
      /\ UNCHANGED <<patient, copy, source, dest, fd, at, size, held, cancel, kept>>
    BY DEF CopyClose, Go, FileInv, FreshInv, AtWork, Copying, setting, names, local
<1>2. \A g \in Files : g # fd[j] => data'[g] = data[g]
    BY DEF CopyClose, FileInv, FileType
<1>3. FileType'
    <2>1. data' \in [Files -> SUBSET Nat]
        <3>1. fd[j] \in Files => data[fd[j]] \cup ({held[j]} \ {0}) \in SUBSET Nat
            BY DEF FileInv, FileType
        <3> QED
            BY <3>1 DEF CopyClose, FileInv, FileType
    <2>2. lost' \in BOOLEAN
        BY DEF CopyClose, FileInv, FileType
    <2> QED
        BY <1>1, <2>1, <2>2 DEF FileInv, FileType
<1>4. FreshInv'
    BY <1>1 DEF FileInv, FreshInv, Copying, TypeInv
<1>5. SameInv'
    BY <1>1, <1>2, Constants DEF FileInv, SameInv, Copying, TypeInv
<1>6. OtherInv'
    <2> SUFFICES ASSUME copy = "other", patient PROVE OtherInv'
        BY <1>1 DEF OtherInv
    <2>1. LoopInv(j)
        BY <1>1 DEF FileInv, OtherInv
    <2>2. /\ pc'[j] = "closed" /\ \A i, k \in Jobs : AtWork(i)' /\ AtWork(k)' => i = k
          /\ \A i \in Jobs : i # j => pc'[i] \notin Copying
        BY <1>1, Alone
    <2>3. source' = SourceFile /\ data'[SourceFile] = Chunks
        BY <1>1, <1>2, <2>1, Constants DEF FileInv, OtherInv, FileType, LoopInv
    <2>4. ClosedInv(j)'
        <3>1. CASE cancel[j]
            BY <1>1, <2>1, <3>1 DEF ClosedInv, LoopInv
        <3>2. CASE lost'
            BY <1>1, <2>1, <3>2 DEF ClosedInv, LoopInv
        <3>3. CASE ~cancel[j] /\ ~lost'
            <4>1. /\ pc[j] = "copy" /\ at[j] = NumChunks
                  /\ data' = [data EXCEPT ![fd[j]] = @ \cup ({held[j]} \ {0})]
                BY <2>1, <3>3 DEF CopyClose, LoopInv
            <4>2. data'[dest] = data[dest] \cup ({held[j]} \ {0})
                BY <2>1, <4>1, Constants DEF LoopInv, FileInv, FileType
            <4>3. CASE held[j] = 0 /\ data[dest] = 1 .. at[j]
                BY <1>1, <2>1, <4>1, <4>2, <4>3 DEF ClosedInv, LoopInv, Chunks
            <4>4. CASE held[j] = NumChunks /\ data[dest] = 1 .. (NumChunks - 1)
                <5>1. (1 .. (NumChunks - 1)) \cup ({NumChunks} \ {0}) = 1 .. NumChunks
                    BY Constants
                <5> QED
                    BY <1>1, <2>1, <4>2, <4>4, <5>1 DEF ClosedInv, LoopInv, Chunks
            <4> QED
                BY <2>1, <4>3, <4>4 DEF LoopInv
        <3> QED
            BY <3>1, <3>2, <3>3
    <2> QED
        BY <1>1, <2>2, <2>3, <2>4 DEF OtherInv, Copying
<1> QED
    BY <1>3, <1>4, <1>5, <1>6 DEF FileInv

LEMMA ConvertEndKeeps ==
    ASSUME TypeInv, FileInv, UNCHANGED setting, NEW j \in Jobs, ConvertEnd(j)
    PROVE  FileInv'
<1>1. /\ pc[j] = "closed" /\ AtWork(j) /\ copy # "none"
      /\ pc' = [pc EXCEPT ![j] = "done"]
      /\ UNCHANGED <<patient, copy, data, local, cancel>>
    BY DEF ConvertEnd, Go, Emit, FileInv, FreshInv, AtWork, Copying, setting
<1>2. CASE Remove
    BY <1>1, <1>2, RemoveKeeps
<1>3. CASE UNCHANGED <<names, hist>> /\ ~cancel[j]
    <2>1. UNCHANGED <<source, dest, fd, at, size, held, lost, kept>>
        BY <1>1, <1>3 DEF names, local, hist
    <2>2. pc'[j] = "done" /\ \A i \in Jobs : i # j => pc'[i] = pc[i]
        BY <1>1 DEF TypeInv
    <2>3. FileType' /\ FreshInv' /\ SameInv'
        BY <1>1, <2>1, <2>2 DEF FileInv, FileType, FreshInv, SameInv, Copying
    <2>4. OtherInv'
        <3> SUFFICES ASSUME copy = "other", patient PROVE OtherInv'
            BY <1>1 DEF OtherInv
        <3>1. /\ \A i, k \in Jobs : AtWork(i)' /\ AtWork(k)' => i = k
              /\ \A i \in Jobs : pc'[i] \notin Copying
            BY <1>1, <2>2, Alone DEF Copying
        <3>2. lost \/ data[dest] = Chunks
            BY <1>1, <1>3 DEF FileInv, OtherInv, ClosedInv
        <3>3. source' = SourceFile /\ data'[SourceFile] = Chunks
            BY <1>1, <2>1 DEF FileInv, OtherInv
        <3> QED
            BY <1>1, <2>1, <3>1, <3>2, <3>3 DEF OtherInv, Copying
    <2> QED
        BY <2>3, <2>4 DEF FileInv
<1> QED
    BY <1>2, <1>3 DEF ConvertEnd

LEMMA NextKeepsFiles == TypeInv /\ FileInv /\ [Next]_vars => FileInv'
<1> SUFFICES ASSUME TypeInv, FileInv, [Next]_vars PROVE FileInv'
    OBVIOUS
<1>1. ASSUME NEW j \in Jobs, Start(j) \/ RequestCancel(j) \/ Run(j), UNCHANGED setting
      PROVE  FileInv'
    BY <1>1, BeforeCopyKeeps, AsideKeeps, ConvertOpenKeeps, CopyChunkKeeps, ReadFailsKeeps,
       CopyCloseKeeps, ConvertEndKeeps DEF Run
<1>2. CASE UNCHANGED vars
    BY <1>2 DEF FileInv, FileType, FreshInv, SameInv, OtherInv, LoopInv, ClosedInv, AtWork,
       vars, setting, names, local, hist
<1> QED
    BY <1>1, <1>2 DEF Next

LEMMA Invariance == Spec => [](IInv /\ FileInv)
<1>1. IInv => TypeInv
    BY DEF IInv
<1> QED
    BY InitIInv, NextKeeps, InitFileInv, NextKeepsFiles, <1>1, PTL DEF Spec

\* Wherever an error or a cancel falls in a copy (convertImage), a patient user
\* finds a part of an image under the destination's name only when the system
\* refused the flush or the removal of the last copy: for any number of jobs and
\* chunks.
THEOREM PartsAreRemoved == Spec => []NoPartStays
<1>1. FileInv => NoPartStays
    <2> SUFFICES ASSUME FileInv, patient, dest # None, data[dest] \notin {{0}, Chunks},
                        ~lost, ~kept
                 PROVE  \E j \in Jobs : AtWork(j) /\ fd[j] = dest
        BY DEF NoPartStays
    <2>1. copy = "other"
        <3>1. (dest = OldFile /\ data[OldFile] = {0}) \/ copy = "other"
            BY DEF FileInv, SameInv
        <3> QED
            BY <3>1
    <2>2. PICK j \in Jobs : pc[j] \in Copying
        BY <2>1 DEF FileInv, OtherInv
    <2>3. AtWork(j) /\ fd[j] = dest
        BY <2>1, <2>2 DEF FileInv, OtherInv, LoopInv, ClosedInv, AtWork, Copying
    <2> QED
        BY <2>3
<1> QED
    BY Invariance, <1>1, PTL

\* A job of a patient user that reports the copy to another file as finished has
\* left the whole image under its name, unless the flush at its close failed.
THEOREM CopiesAreWhole == Spec => FinishedCopyIsWhole
<1> DEFINE Whole == lost' \/ (dest' # None /\ data'[dest'] = Chunks)
           Told(i) == verdict'[i] = "finished" /\ verdict[i] = "none"
<1>1. ASSUME IInv, FileInv, Next, copy = "other", patient, NEW i \in Jobs, Told(i)
      PROVE  Whole
    <2>1. PICK j \in Jobs : Start(j) \/ RequestCancel(j) \/ Run(j)
        BY <1>1 DEF Next
    <2>2. verdict' # verdict /\ verdict' # [verdict EXCEPT ![j] = "error"]
        BY <1>1 DEF IInv, TypeInv
    <2>3. CASE VerifyEnd(j)
        BY <1>1, <2>2, <2>3 DEF VerifyEnd, Emit, Go
    <2>4. CASE ConvertEnd(j)
        <3>1. ~cancel[j] /\ pc[j] = "closed" /\ UNCHANGED <<source, dest, data, lost>>
            BY <2>2, <2>4 DEF ConvertEnd, Go, names, hist
        <3>2. dest # None /\ (lost \/ data[dest] = Chunks)
            BY <1>1, <3>1 DEF FileInv, OtherInv, ClosedInv
        <3> QED
            BY <3>1, <3>2
    <2>5. CASE Start(j) \/ RequestCancel(j) \/ Load(j) \/ VerifyOpen(j) \/ VerifySector(j)
               \/ SectorsEnd(j) \/ ConvertOpen(j) \/ CopyChunk(j) \/ ReadFails(j) \/ CopyClose(j)
        BY <2>2, <2>5 DEF Start, RequestCancel, Load, VerifyOpen, VerifySector, SectorsEnd,
           ConvertOpen, CopyChunk, ReadFails, CopyClose, Go, Emit
    <2> QED
        BY <2>1, <2>3, <2>4, <2>5 DEF Run
<1>2. IInv /\ FileInv /\ [Next]_vars =>
          [\A j \in Jobs :
              verdict'[j] = "finished" /\ verdict[j] = "none" /\ copy = "other" /\ patient
                  => lost' \/ (dest' # None /\ data'[dest'] = Chunks)]_vars
    BY <1>1
<1> QED
    BY Invariance, <1>2, PTL DEF Spec, FinishedCopyIsWhole
=============================================================================
